------------------------------- MODULE Driver -------------------------------
(***************************************************************************)
(* The jiac command: lib/Driver/Options.cpp reads the arguments,           *)
(* lib/Driver/Driver.cpp compiles each source and links, and               *)
(* lib/Driver/Backend.cpp writes the files.  Anything outside the process  *)
(* may fail: files, target, temporary files, the system's C compiler.      *)
(***************************************************************************)
EXTENDS Naturals, Sequences

CONSTANTS
    Paths,        \* the paths of sources, "dir/prog.jia"
    Stem,         \* file name of a path without directory and extension
    Inputs,       \* arguments passed on to the linker
    Given,        \* the argument of -o, a file name
    Existing,     \* files that may be there before
    MaxInputs     \* bound on the inputs of one command

(* A file is a stem and an extension; a temporary is a directory's name    *)
(* and a number, and no other file's.                                      *)
Temporary(i) == <<"/tmp/jiac", i>>
IsTemporary(file) == file[1] = "/tmp/jiac"

ASSUME DriverAssumption ==
    /\ MaxInputs \in Nat
    /\ \A p \in Paths : Stem[p] # "/tmp/jiac"
    /\ \A f \in Existing \cup {Given} : ~IsTemporary(f)

VARIABLES
    options,      \* Options
    wanting,      \* "-o" was read, its argument is next
    stage,        \* where run() is
    next,         \* the source compiled next
    ok,           \* Compilation::run's ok
    objects,      \* objects_
    temporaries,  \* temporaries_
    target,       \* the file emit writes
    status,       \* the process's exit code
    files,        \* the file system, from names to contents
    reported,     \* standard error: the sources with errors, 0 for none in particular
    refused,      \* the temporaries that the system would not remove
    wrong         \* the paths whose text the phases that run find errors in

results == <<objects, temporaries, files>>
outside == <<wrong, refused>>
vars == <<options, wanting, stage, next, ok, target, status, results, reported, outside>>

Actions == {"Link", "Compile", "Assemble", "SyntaxOnly", "DumpTokens", "DumpAst",
            "Help", "Version"}

Default == <<"a", "out">>
Unset == <<>>
Partial == <<"partial">>
Old == <<"old">>
Executable(contents, inputs) == <<"executable", contents, inputs>>

Written(file, content) ==
    [f \in DOMAIN files \cup {file} |-> IF f = file THEN content ELSE files[f]]

Exit(code) == stage' = "exited" /\ status' = code

(* reportError, then return 1 before any source is compiled. *)
GiveUp ==
    /\ Exit(1) /\ reported' = reported \cup {0}
    /\ UNCHANGED <<wanting, next, ok, target, results, outside>>

-----------------------------------------------------------------------------
(* parseArguments, an argument at a time. *)
Reads(opts) ==
    /\ stage = "arguments" /\ ~wanting
    /\ options' = opts
    /\ UNCHANGED <<wanting, stage, next, ok, target, status, results, reported, outside>>

Room == Len(options.sources) + Len(options.linkerInputs) < MaxInputs

ActionFlag == \E a \in Actions \ {"Link"} : Reads([options EXCEPT !.action = a])
EmitLLVM == Reads([options EXCEPT !.emitLLVM = TRUE])
SourceArgument ==
    Room /\ \E p \in Paths : Reads([options EXCEPT !.sources = Append(@, p)])
LinkerInput ==
    Room /\ \E input \in Inputs : Reads([options EXCEPT !.linkerInputs = Append(@, input)])

DashO ==
    /\ stage = "arguments" /\ ~wanting
    /\ wanting' = TRUE
    /\ UNCHANGED <<options, stage, next, ok, target, status, results, reported, outside>>

OutputArgument ==
    /\ stage = "arguments" /\ wanting
    /\ wanting' = FALSE
    /\ options' = [options EXCEPT !.output = Given]
    /\ UNCHANGED <<stage, next, ok, target, status, results, reported, outside>>

UnknownArgument == stage = "arguments" /\ ~wanting /\ GiveUp /\ UNCHANGED options

StopsEarly == options.action \in {"Compile", "Assemble"}
Rejected ==
    \/ wanting
    \/ StopsEarly /\ options.output # Unset /\ Len(options.sources) > 1

ParseArgument ==
    \/ ActionFlag \/ EmitLLVM \/ SourceArgument \/ LinkerInput
    \/ DashO \/ OutputArgument \/ UnknownArgument

-----------------------------------------------------------------------------
NeedsBackend == options.action \in {"Link", "Compile", "Assemble"}
NoInputs == options.sources = <<>> /\ options.linkerInputs = <<>>

(* main and driver::run after the last argument.  createTargetMachine may  *)
(* know no such target.                                                    *)
RejectArguments == stage = "arguments" /\ Rejected /\ GiveUp /\ UNCHANGED options

ShowText ==
    /\ stage = "arguments" /\ ~Rejected /\ options.action \in {"Help", "Version"}
    /\ Exit(0)
    /\ UNCHANGED <<options, wanting, next, ok, target, results, reported, outside>>

Started == stage = "arguments" /\ ~Rejected /\ options.action \notin {"Help", "Version"}

CannotRun == Started /\ (NoInputs \/ NeedsBackend) /\ GiveUp /\ UNCHANGED options

Run ==
    /\ Started /\ ~NoInputs
    /\ stage' = "compile"
    /\ UNCHANGED <<options, wanting, next, ok, target, status, results, reported, outside>>

-----------------------------------------------------------------------------
Path == options.sources[next]
Compiling == stage = "compile" /\ next <= Len(options.sources)

(* With a bug in it: what the last source returned is all that counts. *)
CompileReturnsLast(result) ==
    /\ ok' = result /\ next' = next + 1 /\ stage' = "compile"

(* With a bug in it: no source is compiled after one that failed. *)
CompileReturnsStops(result) ==
    /\ ok' = (ok /\ result) /\ stage' = "compile"
    /\ next' = IF result THEN next + 1 ELSE Len(options.sources) + 1

(* run's loop: ok &= compile(source). *)
CompileReturns(result) ==
    /\ ok' = (ok /\ result) /\ next' = next + 1 /\ stage' = "compile"

Succeeds == CompileReturns(TRUE) /\ UNCHANGED reported
Fails == CompileReturns(FALSE) /\ reported' = reported \cup {next}

(* Everything compile does before it writes changes nothing but standard   *)
(* output: open the file, lex, parse, analyze, generate, optimize.  What   *)
(* code generation reports ends like a file that cannot be opened.         *)
Reading == Compiling /\ UNCHANGED <<options, wanting, target, status, results, outside>>

CannotOpen == Reading /\ Fails
Diagnosed == Reading /\ Path \in wrong /\ Fails
Dumped == Reading /\ Path \notin wrong /\ options.action = "DumpTokens" /\ Succeeds
Checked ==
    Reading /\ Path \notin wrong /\ options.action \in {"SyntaxOnly", "DumpAst"} /\ Succeeds

Generated == Compiling /\ NeedsBackend /\ Path \notin wrong

Extension ==
    CASE options.action = "Compile" -> IF options.emitLLVM THEN "bc" ELSE "o"
      [] options.action = "Assemble" -> IF options.emitLLVM THEN "ll" ELSE "s"

OutputName ==
    IF options.output # Unset THEN options.output ELSE <<Stem[Path], Extension>>

(* With a bug in it: the object is left beside the source, as cc's was     *)
(* once.                                                                   *)
OutputForInPlace ==
    /\ Generated
    /\ target' = IF StopsEarly THEN OutputName ELSE <<Stem[Path], "o">>
    /\ stage' = "emit"
    /\ objects' = IF StopsEarly THEN objects ELSE Append(objects, <<Stem[Path], "o">>)
    /\ UNCHANGED <<options, wanting, next, ok, status, temporaries, files, reported, outside>>

(* outputFor: the named file, or a temporary the linker will read. *)
OutputFor ==
    /\ Generated
    /\ LET temp == Temporary(next)
       IN  IF StopsEarly
           THEN target' = OutputName /\ UNCHANGED results
           ELSE /\ target' = temp
                /\ temporaries' = Append(temporaries, temp)
                /\ objects' = Append(objects, temp)
                /\ files' = Written(temp, Partial)
    /\ stage' = "emit"
    /\ UNCHANGED <<options, wanting, next, ok, status, reported, outside>>

NoTemporary ==
    /\ Generated /\ ~StopsEarly
    /\ Fails
    /\ UNCHANGED <<options, wanting, target, status, results, outside>>

Form ==
    CASE options.action = "Link" -> "Object"
      [] options.action = "Compile" -> IF options.emitLLVM THEN "Bitcode" ELSE "Object"
      [] options.action = "Assemble" -> IF options.emitLLVM THEN "LLVMText" ELSE "Assembly"

(* emit opens the file, writes it, and asks whether all was written. *)
Emitting ==
    stage = "emit" /\ UNCHANGED <<options, wanting, target, status, objects, temporaries, outside>>

CannotWrite == Emitting /\ Fails /\ UNCHANGED files
Emitted == Emitting /\ Succeeds /\ files' = Written(target, <<Form, Path>>)
BreaksOff == Emitting /\ Fails /\ files' = Written(target, Partial)

Compile ==
    \/ CannotOpen \/ Diagnosed \/ Dumped \/ Checked
    \/ OutputFor \/ NoTemporary \/ CannotWrite \/ Emitted \/ BreaksOff

-----------------------------------------------------------------------------
Compiled == stage = "compile" /\ next > Len(options.sources)
LinkOutput == IF options.output # Unset THEN options.output ELSE Default
Finished(code) ==
    /\ stage' = "cleanup" /\ status' = code
    /\ UNCHANGED <<options, wanting, next, ok, target, objects, temporaries, outside>>

NoLink ==
    /\ Compiled /\ ~(ok /\ options.action = "Link")
    /\ Finished(IF ok THEN 0 ELSE 1)
    /\ UNCHANGED <<files, reported>>

(* link: the C compiler is found and does its work, or it is not, or does  *)
(* not; then the output it may have begun is its affair.                   *)
Linking == Compiled /\ ok /\ options.action = "Link"

Links ==
    /\ Linking
    /\ Finished(0)
    /\ files' = Written(LinkOutput,
                  Executable([i \in DOMAIN objects |-> files[objects[i]]],
                             options.linkerInputs))
    /\ UNCHANGED reported

LinkFails ==
    /\ Linking
    /\ Finished(1)
    /\ reported' = reported \cup {0}
    /\ files' \in {files, Written(LinkOutput, Partial)}

(* The temporaries that are there, and the files without some of them.     *)
Temporaries == {temporaries[i] : i \in DOMAIN temporaries} \cap DOMAIN files
Without(gone) == [f \in DOMAIN files \ gone |-> files[f]]

(* With a bug in it: after a failure the process is left at once. *)
CleanUpSuccess ==
    /\ stage = "cleanup"
    /\ stage' = "exited"
    /\ \E stuck \in SUBSET Temporaries :
          /\ refused' = stuck
          /\ files' = IF status = 1 THEN files ELSE Without(Temporaries \ stuck)
    /\ UNCHANGED <<options, wanting, next, ok, target, status, objects, temporaries,
                   reported, wrong>>

(* run tries to remove every temporary, whatever happened.  Removing one   *)
(* may fail; the error is dropped, and neither reported nor in the status. *)
CleanUp ==
    /\ stage = "cleanup"
    /\ stage' = "exited"
    /\ \E stuck \in SUBSET Temporaries :
          refused' = stuck /\ files' = Without(Temporaries \ stuck)
    /\ UNCHANGED <<options, wanting, next, ok, target, status, objects, temporaries,
                   reported, wrong>>

(* A signal, or a fatal error of LLVM's, which a stream destroyed with an  *)
(* error nobody cleared is too: the process ends where it is, with some    *)
(* temporaries removed if it is cleaning up, and else none.                *)
Killed ==
    /\ stage \in {"compile", "emit", "cleanup"}
    /\ stage' = "killed" /\ status' = 1
    /\ \/ UNCHANGED files
       \/ stage = "emit" /\ files' = Written(target, Partial)
       \/ stage = "cleanup" /\ \E gone \in SUBSET Temporaries : files' = Without(gone)
    /\ UNCHANGED <<options, wanting, next, ok, target, objects, temporaries, reported,
                   outside>>

-----------------------------------------------------------------------------
Init ==
    /\ options = [action |-> "Link", emitLLVM |-> FALSE, output |-> Unset,
                  sources |-> <<>>, linkerInputs |-> <<>>]
    /\ wanting = FALSE /\ stage = "arguments" /\ next = 1 /\ ok = TRUE
    /\ objects = <<>> /\ temporaries = <<>> /\ target = Unset /\ status = 0
    /\ \E there \in SUBSET Existing : files = [f \in there |-> Old]
    /\ reported = {} /\ refused = {}
    /\ wrong \in SUBSET Paths

Next ==
    \/ ParseArgument \/ RejectArguments \/ ShowText \/ CannotRun \/ Run
    \/ Compile
    \/ NoLink \/ Links \/ LinkFails
    \/ CleanUp \/ Killed

Spec == Init /\ [][Next]_vars

-----------------------------------------------------------------------------
Exited == stage = "exited"

(* "Make an object file", "Build an executable" (docs/user-manual.md:26-29): *)
(* when jiac exits with 0, what it was asked to build is there, complete   *)
(* and made from all the sources in their order; of two sources with one   *)
(* output the later has it (Driver.cpp:81-106).                            *)
Built ==
    Exited /\ status = 0 =>
        LET sources == options.sources
            Name(i) == IF options.output # Unset THEN options.output
                       ELSE <<Stem[sources[i]], Extension>>
        IN  /\ options.action = "Link" =>
                 LinkOutput \in DOMAIN files
                 /\ files[LinkOutput] =
                      Executable([i \in DOMAIN sources |-> <<"Object", sources[i]>>],
                                 options.linkerInputs)
            /\ StopsEarly =>
                 \A i \in DOMAIN sources :
                     (\A j \in DOMAIN sources : j > i => Name(j) # Name(i)) =>
                        Name(i) \in DOMAIN files /\ files[Name(i)] = <<Form, sources[i]>>

(* Whichever step failed, no temporary outlives the process but those the  *)
(* system would not remove (Driver.cpp:103-104), unless it is killed.      *)
NoTemporaries ==
    Exited => \A f \in DOMAIN files : IsTemporary(f) => f \in refused

(* The exit code tells whether something was reported, and one failing     *)
(* source does not keep the errors of the others back: "It reports as many *)
(* errors as it can in one run" (docs/user-manual.md:67).                  *)
Told ==
    Exited =>
        /\ status = 0 <=> reported = {}
        /\ 0 \notin reported /\ options.action \notin {"Help", "Version"} =>
              \A i \in DOMAIN options.sources :
                  options.sources[i] \in wrong => i \in reported

(* A file of the user's changes only as the output asked for: that of the  *)
(* source being compiled, or the executable once all sources compiled      *)
(* (Driver.cpp:160-187, and 101-102), though the process may be killed.    *)
OthersKept ==
    [][\A f \in DOMAIN files :
          \/ IsTemporary(f)
          \/ f \in DOMAIN files' /\ files'[f] = files[f]
          \/ stage = "emit" /\ StopsEarly /\ f = OutputName
          \/ stage = "compile" /\ reported = {} /\ options.action = "Link"
             /\ f = LinkOutput]_vars
=============================================================================
