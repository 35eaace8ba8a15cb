---------------------------- MODULE DriverProofs ----------------------------
(***************************************************************************)
(* What the driver promises, whatever the sources, the options and the     *)
(* failures: temporaries are removed, errors are told and the user's files *)
(* are kept.                                                               *)
(***************************************************************************)
EXTENDS Driver, TLAPS

Stages == {"arguments", "compile", "emit", "cleanup", "exited", "killed"}

(* The options are what the arguments say. *)
OptionsInv ==
    options \in [action : Actions, emitLLVM : BOOLEAN, output : {Unset, Given},
                 sources : Seq(Paths), linkerInputs : Seq(Inputs)]

(* The loop over the sources: those before next are done. *)
LoopInv ==
    /\ stage \in Stages
    /\ next \in Nat \ {0}
    /\ stage = "arguments" => next = 1 /\ ok
    /\ next <= Len(options.sources) + 1
    /\ stage = "emit" => next <= Len(options.sources)
    /\ ok \in BOOLEAN

(* A temporary that is there is one to be removed, or could not be. *)
TemporariesInv ==
    /\ temporaries \in Seq({Temporary(i) : i \in Nat})
    /\ stage = "arguments" => temporaries = <<>>
    /\ \A f \in DOMAIN files : IsTemporary(f) =>
          IF stage = "exited" THEN f \in refused
          ELSE \E i \in DOMAIN temporaries : temporaries[i] = f
    /\ stage = "emit" /\ IsTemporary(target) =>
          \E i \in DOMAIN temporaries : temporaries[i] = target

(* What was reported is what failed. *)
ReportsInv ==
    /\ stage = "arguments" => reported = {} /\ status = 0
    /\ stage \in {"compile", "emit"} => (ok <=> reported = {}) /\ 0 \notin reported
    /\ stage \in {"cleanup", "exited"} => (status = 0 <=> reported = {})
    /\ stage \in {"compile", "emit"} =>
          \A i \in DOMAIN options.sources :
              i < next /\ options.sources[i] \in wrong => i \in reported
    /\ stage = "emit" => options.sources[next] \notin wrong
    /\ stage \in {"cleanup", "exited"}
          /\ 0 \notin reported /\ options.action \notin {"Help", "Version"} =>
          \A i \in DOMAIN options.sources :
              options.sources[i] \in wrong => i \in reported

(* Where emit writes. *)
TargetInv ==
    stage = "emit" =>
        IF StopsEarly THEN target = OutputName ELSE IsTemporary(target)

NameOf(i) ==
    IF options.output # Unset THEN options.output
    ELSE <<Stem[options.sources[i]], Extension>>

(* The first n sources are compiled, each to an object or to an output.    *)
ObjectsOf(n) ==
    \A i \in 1..n : /\ Temporary(i) \in DOMAIN files
                    /\ files[Temporary(i)] = <<"Object", options.sources[i]>>
OutputsOf(n) ==
    \A i \in 1..n : (\A j \in 1..n : j > i => NameOf(j) # NameOf(i)) =>
                       NameOf(i) \in DOMAIN files /\ files[NameOf(i)] = <<Form, options.sources[i]>>

Compiles == stage \in {"compile", "emit"} /\ ok
Succeeded == stage \in {"cleanup", "exited"} /\ status = 0

(* As long as all went well, the objects of the sources before next are    *)
(* there, in their order.                                                  *)
ObjectsInv ==
    /\ stage = "arguments" => objects = <<>>
    /\ Compiles /\ options.action = "Link" =>
          /\ objects = [i \in 1..(IF stage = "emit" THEN next ELSE next - 1) |-> Temporary(i)]
          /\ ObjectsOf(next - 1)
          /\ stage = "emit" => target = Temporary(next)

OutputsInv == Compiles /\ StopsEarly => OutputsOf(next - 1)

(* What was asked for is there when all is over. *)
ExecutableInv ==
    Succeeded /\ options.action = "Link" =>
        /\ LinkOutput \in DOMAIN files
        /\ files[LinkOutput] =
             Executable([i \in DOMAIN options.sources |-> <<"Object", options.sources[i]>>],
                        options.linkerInputs)

OutputsLeftInv == Succeeded /\ StopsEarly => OutputsOf(Len(options.sources))

(* What OthersKept says of a step. *)
OthersKeptStep ==
    \A f \in DOMAIN files :
       \/ IsTemporary(f)
       \/ f \in DOMAIN files' /\ files'[f] = files[f]
       \/ stage = "emit" /\ StopsEarly /\ f = OutputName
       \/ stage = "compile" /\ reported = {} /\ options.action = "Link"
          /\ f = LinkOutput

DriverInv == OptionsInv /\ LoopInv /\ TemporariesInv /\ ReportsInv /\ TargetInv
             /\ ObjectsInv /\ OutputsInv /\ ExecutableInv /\ OutputsLeftInv

-----------------------------------------------------------------------------
(* Every argument read leaves options. *)
LEMMA OptionsKept == OptionsInv /\ [Next]_vars => OptionsInv'
<1>. SUFFICES ASSUME OptionsInv, [Next]_vars PROVE OptionsInv'
  OBVIOUS
<1>. USE DriverAssumption DEF OptionsInv, results, outside
<1>1. CASE ActionFlag
  BY <1>1 DEF ActionFlag, Reads
<1>2. CASE EmitLLVM
  BY <1>2 DEF EmitLLVM, Reads
<1>3. CASE SourceArgument
  <2>1. PICK p \in Paths : options' = [options EXCEPT !.sources = Append(@, p)]
    BY <1>3 DEF SourceArgument, Reads
  <2>2. options.sources \in Seq(Paths)
    OBVIOUS
  <2>3. Append(options.sources, p) \in Seq(Paths)
    BY <2>2
  <2>. QED
    BY <2>1, <2>3
<1>4. CASE LinkerInput
  <2>1. PICK input \in Inputs : options' = [options EXCEPT !.linkerInputs = Append(@, input)]
    BY <1>4 DEF LinkerInput, Reads
  <2>2. options.linkerInputs \in Seq(Inputs)
    OBVIOUS
  <2>3. Append(options.linkerInputs, input) \in Seq(Inputs)
    BY <2>2
  <2>. QED
    BY <2>1, <2>3
<1>5. CASE DashO
  BY <1>5 DEF DashO
<1>6. CASE OutputArgument
  BY <1>6 DEF OutputArgument
<1>7. CASE UnknownArgument
  BY <1>7 DEF UnknownArgument, GiveUp, Exit
<1>8. CASE RejectArguments
  BY <1>8 DEF RejectArguments, GiveUp, Exit
<1>9. CASE ShowText
  BY <1>9 DEF ShowText, Exit
<1>10. CASE CannotRun
  BY <1>10 DEF CannotRun, Started, GiveUp, Exit
<1>11. CASE Run
  BY <1>11 DEF Run, Started
<1>12. CASE CannotOpen
  BY <1>12 DEF CannotOpen, Reading, Compiling, Fails, CompileReturns
<1>13. CASE Diagnosed
  BY <1>13 DEF Diagnosed, Reading, Compiling, Fails, CompileReturns
<1>14. CASE Dumped
  BY <1>14 DEF Dumped, Reading, Compiling, Succeeds, CompileReturns
<1>15. CASE Checked
  BY <1>15 DEF Checked, Reading, Compiling, Succeeds, CompileReturns
<1>16. CASE OutputFor
  BY <1>16 DEF OutputFor, Generated, Compiling
<1>17. CASE NoTemporary
  BY <1>17 DEF NoTemporary, Generated, Compiling, Fails, CompileReturns
<1>18. CASE CannotWrite
  BY <1>18 DEF CannotWrite, Emitting, Fails, CompileReturns
<1>19. CASE Emitted
  BY <1>19 DEF Emitted, Emitting, Succeeds, CompileReturns
<1>20. CASE BreaksOff
  BY <1>20 DEF BreaksOff, Emitting, Fails, CompileReturns
<1>21. CASE NoLink
  BY <1>21 DEF NoLink, Compiled, Finished
<1>22. CASE Links
  BY <1>22 DEF Links, Linking, Compiled, Finished
<1>23. CASE LinkFails
  BY <1>23 DEF LinkFails, Linking, Compiled, Finished
<1>24. CASE CleanUp
  BY <1>24 DEF CleanUp
<1>25. CASE Killed
  BY <1>25 DEF Killed
<1>26. CASE UNCHANGED vars
  BY <1>26 DEF vars
<1>. QED
  BY <1>1, <1>2, <1>3, <1>4, <1>5, <1>6, <1>7, <1>8, <1>9, <1>10, <1>11, <1>12,
     <1>13, <1>14, <1>15, <1>16, <1>17, <1>18, <1>19, <1>20, <1>21, <1>22,
     <1>23, <1>24, <1>25, <1>26 DEF Next, ParseArgument, Compile

(* The loop goes from source to source. *)
LEMMA LoopKept == OptionsInv /\ LoopInv /\ [Next]_vars => LoopInv'
<1>. SUFFICES ASSUME OptionsInv, LoopInv, [Next]_vars PROVE LoopInv'
  OBVIOUS
<1>. USE DriverAssumption DEF LoopInv, OptionsInv, Stages, results, outside
<1>1. CASE ActionFlag
  BY <1>1 DEF ActionFlag, Reads
<1>2. CASE EmitLLVM
  BY <1>2 DEF EmitLLVM, Reads
<1>3. CASE SourceArgument
  BY <1>3 DEF SourceArgument, Reads
<1>4. CASE LinkerInput
  BY <1>4 DEF LinkerInput, Reads
<1>5. CASE DashO
  BY <1>5 DEF DashO
<1>6. CASE OutputArgument
  BY <1>6 DEF OutputArgument
<1>7. CASE UnknownArgument
  BY <1>7 DEF UnknownArgument, GiveUp, Exit
<1>8. CASE RejectArguments
  BY <1>8 DEF RejectArguments, GiveUp, Exit
<1>9. CASE ShowText
  BY <1>9 DEF ShowText, Exit
<1>10. CASE CannotRun
  BY <1>10 DEF CannotRun, Started, GiveUp, Exit
<1>11. CASE Run
  BY <1>11 DEF Run, Started
<1>12. CASE CannotOpen
  BY <1>12 DEF CannotOpen, Reading, Compiling, Fails, CompileReturns
<1>13. CASE Diagnosed
  BY <1>13 DEF Diagnosed, Reading, Compiling, Fails, CompileReturns
<1>14. CASE Dumped
  BY <1>14 DEF Dumped, Reading, Compiling, Succeeds, CompileReturns
<1>15. CASE Checked
  BY <1>15 DEF Checked, Reading, Compiling, Succeeds, CompileReturns
<1>16. CASE OutputFor
  BY <1>16 DEF OutputFor, Generated, Compiling
<1>17. CASE NoTemporary
  BY <1>17 DEF NoTemporary, Generated, Compiling, Fails, CompileReturns
<1>18. CASE CannotWrite
  BY <1>18 DEF CannotWrite, Emitting, Fails, CompileReturns
<1>19. CASE Emitted
  BY <1>19 DEF Emitted, Emitting, Succeeds, CompileReturns
<1>20. CASE BreaksOff
  BY <1>20 DEF BreaksOff, Emitting, Fails, CompileReturns
<1>21. CASE NoLink
  BY <1>21 DEF NoLink, Compiled, Finished
<1>22. CASE Links
  BY <1>22 DEF Links, Linking, Compiled, Finished
<1>23. CASE LinkFails
  BY <1>23 DEF LinkFails, Linking, Compiled, Finished
<1>24. CASE CleanUp
  BY <1>24 DEF CleanUp
<1>25. CASE Killed
  BY <1>25 DEF Killed
<1>26. CASE UNCHANGED vars
  BY <1>26 DEF vars
<1>. QED
  BY <1>1, <1>2, <1>3, <1>4, <1>5, <1>6, <1>7, <1>8, <1>9, <1>10, <1>11, <1>12,
     <1>13, <1>14, <1>15, <1>16, <1>17, <1>18, <1>19, <1>20, <1>21, <1>22,
     <1>23, <1>24, <1>25, <1>26 DEF Next, ParseArgument, Compile

(* Emit writes where outputFor said. *)
LEMMA TargetKept ==
    OptionsInv /\ LoopInv /\ TargetInv /\ [Next]_vars => TargetInv'
<1>. SUFFICES ASSUME OptionsInv, LoopInv, TargetInv, [Next]_vars
              PROVE  TargetInv'
  OBVIOUS
<1>. USE DriverAssumption
         DEF TargetInv, OptionsInv, LoopInv, StopsEarly, IsTemporary,
             OutputName, Path, Extension, Temporary, results, outside
<1>1. CASE ActionFlag
  BY <1>1 DEF ActionFlag, Reads
<1>2. CASE EmitLLVM
  BY <1>2 DEF EmitLLVM, Reads
<1>3. CASE SourceArgument
  BY <1>3 DEF SourceArgument, Reads
<1>4. CASE LinkerInput
  BY <1>4 DEF LinkerInput, Reads
<1>5. CASE DashO
  BY <1>5 DEF DashO
<1>6. CASE OutputArgument
  BY <1>6 DEF OutputArgument
<1>7. CASE UnknownArgument
  BY <1>7 DEF UnknownArgument, GiveUp, Exit
<1>8. CASE RejectArguments
  BY <1>8 DEF RejectArguments, GiveUp, Exit
<1>9. CASE ShowText
  BY <1>9 DEF ShowText, Exit
<1>10. CASE CannotRun
  BY <1>10 DEF CannotRun, Started, GiveUp, Exit
<1>11. CASE Run
  BY <1>11 DEF Run, Started
<1>12. CASE CannotOpen
  BY <1>12 DEF CannotOpen, Reading, Compiling, Fails, CompileReturns
<1>13. CASE Diagnosed
  BY <1>13 DEF Diagnosed, Reading, Compiling, Fails, CompileReturns
<1>14. CASE Dumped
  BY <1>14 DEF Dumped, Reading, Compiling, Succeeds, CompileReturns
<1>15. CASE Checked
  BY <1>15 DEF Checked, Reading, Compiling, Succeeds, CompileReturns
<1>16. CASE OutputFor
  BY <1>16 DEF OutputFor, Generated, Compiling
<1>17. CASE NoTemporary
  BY <1>17 DEF NoTemporary, Generated, Compiling, Fails, CompileReturns
<1>18. CASE CannotWrite
  BY <1>18 DEF CannotWrite, Emitting, Fails, CompileReturns
<1>19. CASE Emitted
  BY <1>19 DEF Emitted, Emitting, Succeeds, CompileReturns
<1>20. CASE BreaksOff
  BY <1>20 DEF BreaksOff, Emitting, Fails, CompileReturns
<1>21. CASE NoLink
  BY <1>21 DEF NoLink, Compiled, Finished
<1>22. CASE Links
  BY <1>22 DEF Links, Linking, Compiled, Finished
<1>23. CASE LinkFails
  BY <1>23 DEF LinkFails, Linking, Compiled, Finished
<1>24. CASE CleanUp
  BY <1>24 DEF CleanUp
<1>25. CASE Killed
  BY <1>25 DEF Killed
<1>26. CASE UNCHANGED vars
  BY <1>26 DEF vars
<1>. QED
  BY <1>1, <1>2, <1>3, <1>4, <1>5, <1>6, <1>7, <1>8, <1>9, <1>10, <1>11, <1>12,
     <1>13, <1>14, <1>15, <1>16, <1>17, <1>18, <1>19, <1>20, <1>21, <1>22,
     <1>23, <1>24, <1>25, <1>26 DEF Next, ParseArgument, Compile

(* Only temporaries to be removed are written. *)
LEMMA TemporariesKept ==
    OptionsInv /\ LoopInv /\ TargetInv /\ TemporariesInv /\ [Next]_vars =>
        TemporariesInv'
<1>. SUFFICES ASSUME OptionsInv, LoopInv, TargetInv, TemporariesInv,
                     [Next]_vars
              PROVE  TemporariesInv'
  OBVIOUS
<1>. USE DriverAssumption
         DEF TemporariesInv, OptionsInv, LoopInv, TargetInv, StopsEarly,
             IsTemporary, OutputName, Path, Temporary, Written, LinkOutput,
             Default, results, outside
<1>1. CASE ActionFlag
  BY <1>1 DEF ActionFlag, Reads
<1>2. CASE EmitLLVM
  BY <1>2 DEF EmitLLVM, Reads
<1>3. CASE SourceArgument
  BY <1>3 DEF SourceArgument, Reads
<1>4. CASE LinkerInput
  BY <1>4 DEF LinkerInput, Reads
<1>5. CASE DashO
  BY <1>5 DEF DashO
<1>6. CASE OutputArgument
  BY <1>6 DEF OutputArgument
<1>7. CASE UnknownArgument
  BY <1>7 DEF UnknownArgument, GiveUp, Exit
<1>8. CASE RejectArguments
  BY <1>8 DEF RejectArguments, GiveUp, Exit
<1>9. CASE ShowText
  BY <1>9 DEF ShowText, Exit
<1>10. CASE CannotRun
  BY <1>10 DEF CannotRun, Started, GiveUp, Exit
<1>11. CASE Run
  BY <1>11 DEF Run, Started
<1>12. CASE CannotOpen
  BY <1>12 DEF CannotOpen, Reading, Compiling, Fails, CompileReturns
<1>13. CASE Diagnosed
  BY <1>13 DEF Diagnosed, Reading, Compiling, Fails, CompileReturns
<1>14. CASE Dumped
  BY <1>14 DEF Dumped, Reading, Compiling, Succeeds, CompileReturns
<1>15. CASE Checked
  BY <1>15 DEF Checked, Reading, Compiling, Succeeds, CompileReturns
<1>16. CASE OutputFor
  <2>1. CASE StopsEarly
    <3>1. /\ UNCHANGED <<temporaries, files, options, next>> /\ target' = OutputName
          /\ stage = "compile" /\ stage' = "emit"
      BY <1>16, <2>1 DEF OutputFor, Generated, Compiling
    <3>2. options.sources[next] \in Paths
      BY <1>16 DEF OutputFor, Generated, Compiling
    <3>3. ~IsTemporary(OutputName)
      BY <3>2
    <3>. QED
      BY <1>16, <3>1, <3>3 DEF OutputFor
  <2>2. CASE ~StopsEarly
    <3>. DEFINE temp == Temporary(next)
    <3>1. /\ target' = temp /\ stage = "compile" /\ stage' = "emit"
          /\ temporaries' = Append(temporaries, temp)
          /\ files' = Written(temp, Partial)
      BY <1>16, <2>2 DEF OutputFor, Generated, Compiling
    <3>2. temp \in {Temporary(i) : i \in Nat}
      BY next \in Nat
    <3>3. /\ temporaries' \in Seq({Temporary(i) : i \in Nat})
          /\ temporaries'[Len(temporaries) + 1] = temp
          /\ Len(temporaries) + 1 \in DOMAIN temporaries'
          /\ \A i \in DOMAIN temporaries :
                i \in DOMAIN temporaries' /\ temporaries'[i] = temporaries[i]
      BY <3>1, <3>2
    <3>4. DOMAIN files' = DOMAIN files \cup {temp}
      BY <3>1
    <3>5. ASSUME NEW f \in DOMAIN files', IsTemporary(f)
          PROVE  \E i \in DOMAIN temporaries' : temporaries'[i] = f
      <4>1. CASE f = temp
        BY <3>3, <4>1
      <4>2. CASE f # temp
        <5>1. PICK i \in DOMAIN temporaries : temporaries[i] = f
          BY <3>1, <3>4, <3>5, <4>2
        <5>. QED
          BY <3>3, <5>1
      <4>. QED
        BY <4>1, <4>2
    <3>. QED
      BY <3>1, <3>3, <3>5
  <2>. QED
    BY <2>1, <2>2
<1>17. CASE NoTemporary
  BY <1>17 DEF NoTemporary, Generated, Compiling, Fails, CompileReturns
<1>18. CASE CannotWrite
  BY <1>18 DEF CannotWrite, Emitting, Fails, CompileReturns
<1>19. CASE Emitted
  BY <1>19 DEF Emitted, Emitting, Succeeds, CompileReturns
<1>20. CASE BreaksOff
  BY <1>20 DEF BreaksOff, Emitting, Fails, CompileReturns
<1>21. CASE NoLink
  BY <1>21 DEF NoLink, Compiled, Finished
<1>22. CASE Links
  BY <1>22 DEF Links, Linking, Compiled, Finished
<1>23. CASE LinkFails
  BY <1>23 DEF LinkFails, Linking, Compiled, Finished
<1>24. CASE CleanUp
  <2>1. stage = "cleanup" /\ stage' = "exited" /\ UNCHANGED temporaries
    BY <1>24 DEF CleanUp
  <2>2. files' = Without(Temporaries \ refused')
    BY <1>24 DEF CleanUp
  <2>3. ASSUME NEW f \in DOMAIN files', IsTemporary(f) PROVE f \in refused'
    <3>1. f \in DOMAIN files /\ f \notin Temporaries \ refused'
      BY <2>2, <2>3 DEF Without
    <3>2. f \in Temporaries
      BY <2>1, <2>3, <3>1 DEF Temporaries
    <3>. QED
      BY <3>1, <3>2
  <2>. QED
    BY <2>1, <2>3
<1>25. CASE Killed
  <2>1. stage # "exited" /\ stage' = "killed" /\ UNCHANGED temporaries
    BY <1>25 DEF Killed
  <2>2. ASSUME NEW f \in DOMAIN files', IsTemporary(f)
        PROVE  \E i \in DOMAIN temporaries : temporaries[i] = f
    <3>1. \/ files' = files
          \/ stage = "emit" /\ files' = Written(target, Partial)
          \/ \E gone : files' = Without(gone)
      BY <1>25 DEF Killed
    <3>2. CASE stage = "emit" /\ f = target
      BY <2>1, <2>2, <3>2
    <3>3. CASE f \in DOMAIN files
      BY <2>1, <2>2, <3>3
    <3>4. ASSUME NEW gone, files' = Without(gone) PROVE f \in DOMAIN files
      BY <3>4 DEF Without
    <3>. QED
      BY <3>1, <3>2, <3>3, <3>4
  <2>. QED
    BY <2>1, <2>2
<1>26. CASE UNCHANGED vars
  BY <1>26 DEF vars
<1>. QED
  BY <1>1, <1>2, <1>3, <1>4, <1>5, <1>6, <1>7, <1>8, <1>9, <1>10, <1>11, <1>12,
     <1>13, <1>14, <1>15, <1>16, <1>17, <1>18, <1>19, <1>20, <1>21, <1>22,
     <1>23, <1>24, <1>25, <1>26 DEF Next, ParseArgument, Compile

(* What fails is reported. *)
LEMMA ReportsKept ==
    OptionsInv /\ LoopInv /\ ReportsInv /\ [Next]_vars => ReportsInv'
<1>. SUFFICES ASSUME OptionsInv, LoopInv, ReportsInv, [Next]_vars
              PROVE  ReportsInv'
  OBVIOUS
<1>. USE DriverAssumption DEF ReportsInv, OptionsInv, LoopInv, Path, results, outside
<1>1. CASE ActionFlag
  BY <1>1 DEF ActionFlag, Reads
<1>2. CASE EmitLLVM
  BY <1>2 DEF EmitLLVM, Reads
<1>3. CASE SourceArgument
  BY <1>3 DEF SourceArgument, Reads
<1>4. CASE LinkerInput
  BY <1>4 DEF LinkerInput, Reads
<1>5. CASE DashO
  BY <1>5 DEF DashO
<1>6. CASE OutputArgument
  BY <1>6 DEF OutputArgument
<1>7. CASE UnknownArgument
  BY <1>7 DEF UnknownArgument, GiveUp, Exit
<1>8. CASE RejectArguments
  BY <1>8 DEF RejectArguments, GiveUp, Exit
<1>9. CASE ShowText
  BY <1>9 DEF ShowText, Exit
<1>10. CASE CannotRun
  BY <1>10 DEF CannotRun, Started, GiveUp, Exit
<1>11. CASE Run
  BY <1>11 DEF Run, Started
<1>12. CASE CannotOpen
  <2>1. /\ stage \in {"compile", "emit"} /\ stage' = "compile"
        /\ ok' = FALSE /\ next' = next + 1 /\ reported' = reported \cup {next}
        /\ UNCHANGED <<options, wrong>>
    BY <1>12 DEF CannotOpen, Reading, Compiling, Fails, CompileReturns
  <2>. QED
    BY <2>1
<1>13. CASE Diagnosed
  <2>1. /\ stage \in {"compile", "emit"} /\ stage' = "compile"
        /\ ok' = FALSE /\ next' = next + 1 /\ reported' = reported \cup {next}
        /\ UNCHANGED <<options, wrong>>
    BY <1>13 DEF Diagnosed, Reading, Compiling, Fails, CompileReturns
  <2>. QED
    BY <2>1
<1>14. CASE Dumped
  BY <1>14 DEF Dumped, Reading, Compiling, Succeeds, CompileReturns
<1>15. CASE Checked
  BY <1>15 DEF Checked, Reading, Compiling, Succeeds, CompileReturns
<1>16. CASE OutputFor
  BY <1>16 DEF OutputFor, Generated, Compiling
<1>17. CASE NoTemporary
  <2>1. /\ stage \in {"compile", "emit"} /\ stage' = "compile"
        /\ ok' = FALSE /\ next' = next + 1 /\ reported' = reported \cup {next}
        /\ UNCHANGED <<options, wrong>>
    BY <1>17 DEF NoTemporary, Generated, Compiling, Fails, CompileReturns
  <2>. QED
    BY <2>1
<1>18. CASE CannotWrite
  <2>1. /\ stage \in {"compile", "emit"} /\ stage' = "compile"
        /\ ok' = FALSE /\ next' = next + 1 /\ reported' = reported \cup {next}
        /\ UNCHANGED <<options, wrong>>
    BY <1>18 DEF CannotWrite, Emitting, Fails, CompileReturns
  <2>. QED
    BY <2>1
<1>19. CASE Emitted
  BY <1>19 DEF Emitted, Emitting, Succeeds, CompileReturns
<1>20. CASE BreaksOff
  <2>1. /\ stage \in {"compile", "emit"} /\ stage' = "compile"
        /\ ok' = FALSE /\ next' = next + 1 /\ reported' = reported \cup {next}
        /\ UNCHANGED <<options, wrong>>
    BY <1>20 DEF BreaksOff, Emitting, Fails, CompileReturns
  <2>. QED
    BY <2>1
<1>21. CASE NoLink
  BY <1>21 DEF NoLink, Compiled, Finished
<1>22. CASE Links
  BY <1>22 DEF Links, Linking, Compiled, Finished
<1>23. CASE LinkFails
  BY <1>23 DEF LinkFails, Linking, Compiled, Finished
<1>24. CASE CleanUp
  BY <1>24 DEF CleanUp
<1>25. CASE Killed
  BY <1>25 DEF Killed
<1>26. CASE UNCHANGED vars
  BY <1>26 DEF vars
<1>. QED
  BY <1>1, <1>2, <1>3, <1>4, <1>5, <1>6, <1>7, <1>8, <1>9, <1>10, <1>11, <1>12,
     <1>13, <1>14, <1>15, <1>16, <1>17, <1>18, <1>19, <1>20, <1>21, <1>22,
     <1>23, <1>24, <1>25, <1>26 DEF Next, ParseArgument, Compile

(* A step writes no file but a temporary, or the output asked for. *)
LEMMA StepsKeep == DriverInv /\ [Next]_vars => OthersKeptStep
<1>. SUFFICES ASSUME OptionsInv, LoopInv, TemporariesInv, ReportsInv, TargetInv,
                     [Next]_vars, NEW f \in DOMAIN files, ~IsTemporary(f),
                     ~(f \in DOMAIN files' /\ files'[f] = files[f])
              PROVE  \/ stage = "emit" /\ StopsEarly /\ f = OutputName
                     \/ stage = "compile" /\ reported = {} /\ options.action = "Link"
                        /\ f = LinkOutput
  BY DEF DriverInv, OthersKeptStep
<1>. USE DEF results, outside
<1>1. CASE ActionFlag
  BY <1>1 DEF ActionFlag, Reads
<1>2. CASE EmitLLVM
  BY <1>2 DEF EmitLLVM, Reads
<1>3. CASE SourceArgument
  BY <1>3 DEF SourceArgument, Reads
<1>4. CASE LinkerInput
  BY <1>4 DEF LinkerInput, Reads
<1>5. CASE DashO
  BY <1>5 DEF DashO
<1>6. CASE OutputArgument
  BY <1>6 DEF OutputArgument
<1>7. CASE UnknownArgument
  BY <1>7 DEF UnknownArgument, GiveUp, Exit
<1>8. CASE RejectArguments
  BY <1>8 DEF RejectArguments, GiveUp, Exit
<1>9. CASE ShowText
  BY <1>9 DEF ShowText, Exit
<1>10. CASE CannotRun
  BY <1>10 DEF CannotRun, Started, GiveUp, Exit
<1>11. CASE Run
  BY <1>11 DEF Run, Started
<1>12. CASE CannotOpen
  BY <1>12 DEF CannotOpen, Reading, Compiling, Fails, CompileReturns
<1>13. CASE Diagnosed
  BY <1>13 DEF Diagnosed, Reading, Compiling, Fails, CompileReturns
<1>14. CASE Dumped
  BY <1>14 DEF Dumped, Reading, Compiling, Succeeds, CompileReturns
<1>15. CASE Checked
  BY <1>15 DEF Checked, Reading, Compiling, Succeeds, CompileReturns
<1>16. CASE OutputFor
  <2>1. files' = files \/ files' = Written(Temporary(next), Partial)
    BY <1>16 DEF OutputFor
  <2>2. IsTemporary(Temporary(next))
    BY DEF IsTemporary, Temporary
  <2>. QED
    BY <2>1, <2>2 DEF Written
<1>17. CASE NoTemporary
  BY <1>17 DEF NoTemporary, Generated, Compiling, Fails, CompileReturns
<1>18. CASE CannotWrite
  BY <1>18 DEF CannotWrite, Emitting, Fails, CompileReturns
<1>19. CASE Emitted
  <2>1. files' = files \/ \E c : files' = Written(target, c)
    BY <1>19 DEF Emitted
  <2>2. stage = "emit" /\ f = target
    BY <1>19, <2>1 DEF Emitted, Emitting, Written
  <2>. QED
    BY <2>2 DEF TargetInv
<1>20. CASE BreaksOff
  <2>1. files' = files \/ \E c : files' = Written(target, c)
    BY <1>20 DEF BreaksOff
  <2>2. stage = "emit" /\ f = target
    BY <1>20, <2>1 DEF BreaksOff, Emitting, Written
  <2>. QED
    BY <2>2 DEF TargetInv
<1>21. CASE NoLink
  BY <1>21 DEF NoLink, Compiled, Finished
<1>22. CASE Links
  <2>1. files' = files \/ \E c : files' = Written(LinkOutput, c)
    BY <1>22 DEF Links
  <2>2. f = LinkOutput
    BY <2>1 DEF Written
  <2>. QED
    BY <1>22, <2>2 DEF Links, Linking, Compiled, ReportsInv
<1>23. CASE LinkFails
  <2>1. files' = files \/ \E c : files' = Written(LinkOutput, c)
    BY <1>23 DEF LinkFails
  <2>2. f = LinkOutput
    BY <2>1 DEF Written
  <2>. QED
    BY <1>23, <2>2 DEF LinkFails, Linking, Compiled, ReportsInv
<1>24. CASE CleanUp
  <2>1. \A i \in DOMAIN temporaries : IsTemporary(temporaries[i])
    BY DEF TemporariesInv, IsTemporary, Temporary
  <2>. QED
    BY <1>24, <2>1 DEF CleanUp, Without, Temporaries
<1>25. CASE Killed
  <2>1. \A i \in DOMAIN temporaries : IsTemporary(temporaries[i])
    BY DEF TemporariesInv, IsTemporary, Temporary
  <2>2. stage = "emit" /\ files' = Written(target, Partial)
    <3>1. \/ files' = files
          \/ stage = "emit" /\ files' = Written(target, Partial)
          \/ \E gone \in SUBSET Temporaries : files' = Without(gone)
      BY <1>25 DEF Killed
    <3>2. ASSUME NEW gone \in SUBSET Temporaries, files' = Without(gone) PROVE FALSE
      BY <2>1, <3>2 DEF Without, Temporaries
    <3>. QED
      BY <3>1, <3>2
  <2>3. f = target
    BY <2>2 DEF Written
  <2>. QED
    BY <2>2, <2>3 DEF TargetInv
<1>26. CASE UNCHANGED vars
  BY <1>26 DEF vars
<1>. QED
  BY <1>1, <1>2, <1>3, <1>4, <1>5, <1>6, <1>7, <1>8, <1>9, <1>10, <1>11, <1>12,
     <1>13, <1>14, <1>15, <1>16, <1>17, <1>18, <1>19, <1>20, <1>21, <1>22,
     <1>23, <1>24, <1>25, <1>26 DEF Next, ParseArgument, Compile

(* The temporaries in their order, and the next. *)
LEMMA TemporaryAdded ==
    ASSUME NEW n \in Nat
    PROVE  Append([i \in 1..n |-> Temporary(i)], Temporary(n + 1))
             = [i \in 1..n + 1 |-> Temporary(i)]
<1>. DEFINE s == [i \in 1..n |-> Temporary(i)]
            T == {Temporary(i) : i \in Nat}
<1>1. s \in [1..n -> T]
  OBVIOUS
<1>2. s \in Seq(T) /\ Len(s) = n
  BY <1>1
<1>. HIDE DEF s, T
<1>3. Temporary(n + 1) \in T
  BY DEF T
<1>4. /\ Append(s, Temporary(n + 1)) \in Seq(T)
      /\ Len(Append(s, Temporary(n + 1))) = n + 1
      /\ \A i \in 1..n : Append(s, Temporary(n + 1))[i] = s[i]
      /\ Append(s, Temporary(n + 1))[n + 1] = Temporary(n + 1)
  BY <1>2, <1>3
<1>5. \A i \in 1..n + 1 : Append(s, Temporary(n + 1))[i] = Temporary(i)
  BY <1>4 DEF s
<1>. QED
  BY <1>4, <1>5 DEF s

(* A source compiled for the linker adds its object. *)
LEMMA ObjectsKept ==
    OptionsInv /\ LoopInv /\ ObjectsInv /\ [Next]_vars => ObjectsInv'
<1>. SUFFICES ASSUME OptionsInv, LoopInv, ObjectsInv, [Next]_vars
              PROVE  ObjectsInv'
  OBVIOUS
<1>. USE DriverAssumption
         DEF ObjectsInv, OptionsInv, LoopInv, Compiles, ObjectsOf, Path,
             results, outside
<1>1. CASE ActionFlag
  BY <1>1 DEF ActionFlag, Reads
<1>2. CASE EmitLLVM
  BY <1>2 DEF EmitLLVM, Reads
<1>3. CASE SourceArgument
  BY <1>3 DEF SourceArgument, Reads
<1>4. CASE LinkerInput
  BY <1>4 DEF LinkerInput, Reads
<1>5. CASE DashO
  BY <1>5 DEF DashO
<1>6. CASE OutputArgument
  BY <1>6 DEF OutputArgument
<1>7. CASE UnknownArgument
  BY <1>7 DEF UnknownArgument, GiveUp, Exit
<1>8. CASE RejectArguments
  BY <1>8 DEF RejectArguments, GiveUp, Exit
<1>9. CASE ShowText
  BY <1>9 DEF ShowText, Exit
<1>10. CASE CannotRun
  BY <1>10 DEF CannotRun, Started, GiveUp, Exit
<1>11. CASE Run
  BY <1>11 DEF Run, Started
<1>12. CASE CannotOpen
  BY <1>12 DEF CannotOpen, Reading, Compiling, Fails, CompileReturns
<1>13. CASE Diagnosed
  BY <1>13 DEF Diagnosed, Reading, Compiling, Fails, CompileReturns
<1>14. CASE Dumped
  BY <1>14 DEF Dumped, Reading, Compiling, Succeeds, CompileReturns
<1>15. CASE Checked
  BY <1>15 DEF Checked, Reading, Compiling, Succeeds, CompileReturns
<1>16. CASE OutputFor
  <2>. SUFFICES ASSUME ok, options.action = "Link"
               PROVE  ObjectsInv'
    BY <1>16 DEF OutputFor
  <2>. DEFINE temp == Temporary(next)
  <2>1. /\ stage = "compile" /\ stage' = "emit" /\ UNCHANGED <<options, next, ok>>
        /\ target' = temp /\ objects' = Append(objects, temp)
        /\ files' = Written(temp, Partial)
    BY <1>16 DEF OutputFor, Generated, Compiling, StopsEarly
  <2>2. objects = [i \in 1..next - 1 |-> Temporary(i)] /\ ObjectsOf(next - 1)
    BY <2>1
  <2>3. objects' = [i \in 1..next |-> Temporary(i)]
    <3>1. next - 1 \in Nat /\ (next - 1) + 1 = next
      OBVIOUS
    <3>. QED
      BY <2>1, <2>2, <3>1, TemporaryAdded
  <2>4. ASSUME NEW i \in 1..next - 1
        PROVE  /\ Temporary(i) \in DOMAIN files'
               /\ files'[Temporary(i)] = <<"Object", options.sources[i]>>
    <3>1. Temporary(i) # temp
      BY DEF Temporary
    <3>. QED
      BY <2>1, <2>2, <3>1 DEF Written
  <2>. QED
    BY <2>1, <2>3, <2>4
<1>17. CASE NoTemporary
  BY <1>17 DEF NoTemporary, Generated, Compiling, Fails, CompileReturns
<1>18. CASE CannotWrite
  BY <1>18 DEF CannotWrite, Emitting, Fails, CompileReturns
<1>19. CASE Emitted
  <2>. SUFFICES ASSUME ok, options.action = "Link"
               PROVE  ObjectsInv'
    BY <1>19 DEF Emitted, Emitting, Succeeds, CompileReturns
  <2>1. /\ stage = "emit" /\ stage' = "compile" /\ next' = next + 1
        /\ UNCHANGED <<options, objects>>
        /\ files' = Written(target, <<Form, Path>>)
    BY <1>19 DEF Emitted, Emitting, Succeeds, CompileReturns
  <2>2. /\ objects = [i \in 1..next |-> Temporary(i)] /\ ObjectsOf(next - 1)
        /\ target = Temporary(next)
    BY <2>1
  <2>3. Form = "Object"
    BY DEF Form
  <2>4. ASSUME NEW i \in 1..next
        PROVE  /\ Temporary(i) \in DOMAIN files'
               /\ files'[Temporary(i)] = <<"Object", options.sources[i]>>
    <3>1. CASE i = next
      BY <2>1, <2>2, <2>3, <3>1 DEF Written
    <3>2. CASE i \in 1..next - 1
      <4>1. Temporary(i) # Temporary(next)
        BY <3>2 DEF Temporary
      <4>. QED
        BY <2>1, <2>2, <3>2, <4>1 DEF Written
    <3>. QED
      BY <3>1, <3>2
  <2>5. next' - 1 = next
    BY <2>1
  <2>. QED
    BY <2>1, <2>2, <2>4, <2>5
<1>20. CASE BreaksOff
  BY <1>20 DEF BreaksOff, Emitting, Fails, CompileReturns
<1>21. CASE NoLink
  BY <1>21 DEF NoLink, Compiled, Finished
<1>22. CASE Links
  BY <1>22 DEF Links, Linking, Compiled, Finished
<1>23. CASE LinkFails
  BY <1>23 DEF LinkFails, Linking, Compiled, Finished
<1>24. CASE CleanUp
  BY <1>24 DEF CleanUp
<1>25. CASE Killed
  BY <1>25 DEF Killed
<1>26. CASE UNCHANGED vars
  BY <1>26 DEF vars
<1>. QED
  BY <1>1, <1>2, <1>3, <1>4, <1>5, <1>6, <1>7, <1>8, <1>9, <1>10, <1>11, <1>12,
     <1>13, <1>14, <1>15, <1>16, <1>17, <1>18, <1>19, <1>20, <1>21, <1>22,
     <1>23, <1>24, <1>25, <1>26 DEF Next, ParseArgument, Compile

(* A source compiled for itself adds its output. *)
LEMMA OutputsKept ==
    OptionsInv /\ LoopInv /\ TargetInv /\ OutputsInv /\ [Next]_vars =>
        OutputsInv'
<1>. SUFFICES ASSUME OptionsInv, LoopInv, TargetInv, OutputsInv, [Next]_vars
              PROVE  OutputsInv'
  OBVIOUS
<1>0. UNCHANGED options => UNCHANGED <<Extension, Form>>
  BY DEF Extension, Form
<1>. USE <1>0, DriverAssumption
         DEF OutputsInv, OptionsInv, LoopInv, TargetInv, Compiles, StopsEarly,
             OutputsOf, NameOf, Path, results, outside
<1>1. CASE ActionFlag
  BY <1>1 DEF ActionFlag, Reads
<1>2. CASE EmitLLVM
  BY <1>2 DEF EmitLLVM, Reads
<1>3. CASE SourceArgument
  BY <1>3 DEF SourceArgument, Reads
<1>4. CASE LinkerInput
  BY <1>4 DEF LinkerInput, Reads
<1>5. CASE DashO
  BY <1>5 DEF DashO
<1>6. CASE OutputArgument
  BY <1>6 DEF OutputArgument
<1>7. CASE UnknownArgument
  BY <1>7 DEF UnknownArgument, GiveUp, Exit
<1>8. CASE RejectArguments
  BY <1>8 DEF RejectArguments, GiveUp, Exit
<1>9. CASE ShowText
  BY <1>9 DEF ShowText, Exit
<1>10. CASE CannotRun
  BY <1>10 DEF CannotRun, Started, GiveUp, Exit
<1>11. CASE Run
  BY <1>11 DEF Run, Started
<1>12. CASE CannotOpen
  BY <1>12 DEF CannotOpen, Reading, Compiling, Fails, CompileReturns
<1>13. CASE Diagnosed
  BY <1>13 DEF Diagnosed, Reading, Compiling, Fails, CompileReturns
<1>14. CASE Dumped
  BY <1>14 DEF Dumped, Reading, Compiling, Succeeds, CompileReturns
<1>15. CASE Checked
  BY <1>15 DEF Checked, Reading, Compiling, Succeeds, CompileReturns
<1>16. CASE OutputFor
  BY <1>16 DEF OutputFor, Generated, Compiling
<1>17. CASE NoTemporary
  BY <1>17 DEF NoTemporary, Generated, Compiling, Fails, CompileReturns
<1>18. CASE CannotWrite
  BY <1>18 DEF CannotWrite, Emitting, Fails, CompileReturns
<1>19. CASE Emitted
  <2>. SUFFICES ASSUME ok, StopsEarly
               PROVE  OutputsInv'
    BY <1>19 DEF Emitted, Emitting, Succeeds, CompileReturns
  <2>1. /\ stage = "emit" /\ stage' = "compile" /\ next' - 1 = next
        /\ UNCHANGED options
        /\ files' = Written(target, <<Form, Path>>)
    BY <1>19 DEF Emitted, Emitting, Succeeds, CompileReturns
  <2>4. target = NameOf(next) /\ Path = options.sources[next]
    BY <2>1 DEF OutputName
  <2>2. OutputsOf(next - 1)
    BY <2>1
  <2>3. ASSUME NEW i \in 1..next, \A j \in 1..next : j > i => NameOf(j) # NameOf(i)
        PROVE  NameOf(i) \in DOMAIN files' /\ files'[NameOf(i)] = <<Form, options.sources[i]>>
    <3>1. CASE i = next
      BY <2>1, <2>4, <3>1 DEF Written
    <3>2. CASE i \in 1..next - 1
      <4>0. next \in 1..next /\ next > i
        BY <3>2
      <4>1. NameOf(i) # NameOf(next)
        BY <2>3, <4>0
      <4>3. \A j \in 1..next - 1 : j > i => NameOf(j) # NameOf(i)
        BY <2>3
      <4>2. NameOf(i) \in DOMAIN files /\ files[NameOf(i)] = <<Form, options.sources[i]>>
        BY <2>2, <3>2, <4>3
      <4>. QED
        BY <2>1, <2>4, <4>1, <4>2 DEF Written
    <3>3. i = next \/ i \in 1..next - 1
      OBVIOUS
    <3>. QED
      BY <3>1, <3>2, <3>3
  <2>. QED
    BY <2>1, <2>3
<1>20. CASE BreaksOff
  BY <1>20 DEF BreaksOff, Emitting, Fails, CompileReturns
<1>21. CASE NoLink
  BY <1>21 DEF NoLink, Compiled, Finished
<1>22. CASE Links
  BY <1>22 DEF Links, Linking, Compiled, Finished
<1>23. CASE LinkFails
  BY <1>23 DEF LinkFails, Linking, Compiled, Finished
<1>24. CASE CleanUp
  BY <1>24 DEF CleanUp
<1>25. CASE Killed
  BY <1>25 DEF Killed
<1>26. CASE UNCHANGED vars
  BY <1>26 DEF vars
<1>. QED
  BY <1>1, <1>2, <1>3, <1>4, <1>5, <1>6, <1>7, <1>8, <1>9, <1>10, <1>11, <1>12,
     <1>13, <1>14, <1>15, <1>16, <1>17, <1>18, <1>19, <1>20, <1>21, <1>22,
     <1>23, <1>24, <1>25, <1>26 DEF Next, ParseArgument, Compile

(* The linker reads the objects, and its output is no temporary. *)
LEMMA ExecutableKept ==
    OptionsInv /\ LoopInv /\ TemporariesInv /\ ObjectsInv /\ ExecutableInv
        /\ [Next]_vars => ExecutableInv'
<1>. SUFFICES ASSUME OptionsInv, LoopInv, TemporariesInv, ObjectsInv,
                     ExecutableInv, [Next]_vars
              PROVE  ExecutableInv'
  OBVIOUS
<1>. USE DriverAssumption
         DEF ExecutableInv, OptionsInv, LoopInv, TemporariesInv, ObjectsInv,
             Succeeded, LinkOutput, results, outside
<1>1. CASE ActionFlag
  BY <1>1 DEF ActionFlag, Reads
<1>2. CASE EmitLLVM
  BY <1>2 DEF EmitLLVM, Reads
<1>3. CASE SourceArgument
  BY <1>3 DEF SourceArgument, Reads
<1>4. CASE LinkerInput
  BY <1>4 DEF LinkerInput, Reads
<1>5. CASE DashO
  BY <1>5 DEF DashO
<1>6. CASE OutputArgument
  BY <1>6 DEF OutputArgument
<1>7. CASE UnknownArgument
  BY <1>7 DEF UnknownArgument, GiveUp, Exit
<1>8. CASE RejectArguments
  BY <1>8 DEF RejectArguments, GiveUp, Exit
<1>9. CASE ShowText
  BY <1>9 DEF ShowText, Exit
<1>10. CASE CannotRun
  BY <1>10 DEF CannotRun, Started, GiveUp, Exit
<1>11. CASE Run
  BY <1>11 DEF Run, Started
<1>12. CASE CannotOpen
  BY <1>12 DEF CannotOpen, Reading, Compiling, Fails, CompileReturns
<1>13. CASE Diagnosed
  BY <1>13 DEF Diagnosed, Reading, Compiling, Fails, CompileReturns
<1>14. CASE Dumped
  BY <1>14 DEF Dumped, Reading, Compiling, Succeeds, CompileReturns
<1>15. CASE Checked
  BY <1>15 DEF Checked, Reading, Compiling, Succeeds, CompileReturns
<1>16. CASE OutputFor
  BY <1>16 DEF OutputFor, Generated, Compiling
<1>17. CASE NoTemporary
  BY <1>17 DEF NoTemporary, Generated, Compiling, Fails, CompileReturns
<1>18. CASE CannotWrite
  BY <1>18 DEF CannotWrite, Emitting, Fails, CompileReturns
<1>19. CASE Emitted
  BY <1>19 DEF Emitted, Emitting, Succeeds, CompileReturns
<1>20. CASE BreaksOff
  BY <1>20 DEF BreaksOff, Emitting, Fails, CompileReturns
<1>21. CASE NoLink
  BY <1>21 DEF NoLink, Compiled, Finished
<1>22. CASE Links
  <2>. SUFFICES ASSUME ok, options.action = "Link"
               PROVE  ExecutableInv'
    BY <1>22 DEF Links, Finished, Linking
  <2>0. UNCHANGED options /\ stage = "compile" /\ next > Len(options.sources)
    BY <1>22 DEF Links, Finished, Linking, Compiled
  <2>1. files' = Written(LinkOutput,
                   Executable([i \in DOMAIN objects |-> files[objects[i]]],
                              options.linkerInputs))
    BY <1>22 DEF Links
  <2>2. next - 1 = Len(options.sources)
    BY <2>0
  <2>3. /\ objects = [i \in 1..next - 1 |-> Temporary(i)]
        /\ ObjectsOf(next - 1)
    BY <2>0 DEF ObjectsInv, Compiles
  <2>4. DOMAIN objects = DOMAIN options.sources
    BY <2>2, <2>3
  <2>5. \A i \in DOMAIN objects : files[objects[i]] = <<"Object", options.sources[i]>>
    BY <2>3 DEF ObjectsOf
  <2>6. [i \in DOMAIN objects |-> files[objects[i]]]
          = [i \in DOMAIN options.sources |-> <<"Object", options.sources[i]>>]
    BY <2>4, <2>5
  <2>. QED
    BY <2>0, <2>1, <2>6 DEF Written
<1>23. CASE LinkFails
  BY <1>23 DEF LinkFails, Linking, Compiled, Finished
<1>24. CASE CleanUp
  <2>1. /\ UNCHANGED <<options, status>> /\ stage = "cleanup"
        /\ \A f \in DOMAIN files : ~IsTemporary(f) =>
              f \in DOMAIN files' /\ files'[f] = files[f]
    BY <1>24 DEF CleanUp, Without, Temporaries, TemporariesInv, IsTemporary, Temporary
  <2>2. ~IsTemporary(LinkOutput)
    BY DEF IsTemporary, Default
  <2>. QED
    BY <2>1, <2>2
<1>25. CASE Killed
  BY <1>25 DEF Killed
<1>26. CASE UNCHANGED vars
  BY <1>26 DEF vars
<1>. QED
  BY <1>1, <1>2, <1>3, <1>4, <1>5, <1>6, <1>7, <1>8, <1>9, <1>10, <1>11, <1>12,
     <1>13, <1>14, <1>15, <1>16, <1>17, <1>18, <1>19, <1>20, <1>21, <1>22,
     <1>23, <1>24, <1>25, <1>26 DEF Next, ParseArgument, Compile

(* No output is a temporary. *)
LEMMA OutputsLeft ==
    OptionsInv /\ LoopInv /\ TemporariesInv /\ OutputsInv /\ OutputsLeftInv
        /\ [Next]_vars => OutputsLeftInv'
<1>. SUFFICES ASSUME OptionsInv, LoopInv, TemporariesInv, OutputsInv,
                     OutputsLeftInv, [Next]_vars
              PROVE  OutputsLeftInv'
  OBVIOUS
<1>0. UNCHANGED options => UNCHANGED <<Extension, Form>>
  BY DEF Extension, Form
<1>. USE <1>0, DriverAssumption
         DEF OutputsLeftInv, OptionsInv, LoopInv, TemporariesInv, OutputsInv,
             Succeeded, StopsEarly, OutputsOf, NameOf, results, outside
<1>1. CASE ActionFlag
  BY <1>1 DEF ActionFlag, Reads
<1>2. CASE EmitLLVM
  BY <1>2 DEF EmitLLVM, Reads
<1>3. CASE SourceArgument
  BY <1>3 DEF SourceArgument, Reads
<1>4. CASE LinkerInput
  BY <1>4 DEF LinkerInput, Reads
<1>5. CASE DashO
  BY <1>5 DEF DashO
<1>6. CASE OutputArgument
  BY <1>6 DEF OutputArgument
<1>7. CASE UnknownArgument
  BY <1>7 DEF UnknownArgument, GiveUp, Exit
<1>8. CASE RejectArguments
  BY <1>8 DEF RejectArguments, GiveUp, Exit
<1>9. CASE ShowText
  BY <1>9 DEF ShowText, Exit
<1>10. CASE CannotRun
  BY <1>10 DEF CannotRun, Started, GiveUp, Exit
<1>11. CASE Run
  BY <1>11 DEF Run, Started
<1>12. CASE CannotOpen
  BY <1>12 DEF CannotOpen, Reading, Compiling, Fails, CompileReturns
<1>13. CASE Diagnosed
  BY <1>13 DEF Diagnosed, Reading, Compiling, Fails, CompileReturns
<1>14. CASE Dumped
  BY <1>14 DEF Dumped, Reading, Compiling, Succeeds, CompileReturns
<1>15. CASE Checked
  BY <1>15 DEF Checked, Reading, Compiling, Succeeds, CompileReturns
<1>16. CASE OutputFor
  BY <1>16 DEF OutputFor, Generated, Compiling
<1>17. CASE NoTemporary
  BY <1>17 DEF NoTemporary, Generated, Compiling, Fails, CompileReturns
<1>18. CASE CannotWrite
  BY <1>18 DEF CannotWrite, Emitting, Fails, CompileReturns
<1>19. CASE Emitted
  BY <1>19 DEF Emitted, Emitting, Succeeds, CompileReturns
<1>20. CASE BreaksOff
  BY <1>20 DEF BreaksOff, Emitting, Fails, CompileReturns
<1>21. CASE NoLink
  <2>1. /\ UNCHANGED <<options, files>> /\ stage = "compile" /\ (status' = 0 => ok)
        /\ next - 1 = Len(options.sources)
    BY <1>21 DEF NoLink, Finished, Compiled, LoopInv
  <2>2. ok /\ StopsEarly => OutputsOf(Len(options.sources))
    BY <2>1 DEF OutputsInv, Compiles
  <2>3. UNCHANGED <<Extension, Form>>
    BY <2>1
  <2>4. ok /\ StopsEarly => OutputsOf(Len(options.sources))'
    BY <2>1, <2>2, <2>3, ZenonT(60)
  <2>. QED
    BY <2>1, <2>3, <2>4
<1>22. CASE Links
  BY <1>22 DEF Links, Linking, Compiled, Finished
<1>23. CASE LinkFails
  BY <1>23 DEF LinkFails, Linking, Compiled, Finished
<1>24. CASE CleanUp
  <2>1. /\ UNCHANGED <<options, status>> /\ stage = "cleanup"
        /\ \A f \in DOMAIN files : ~IsTemporary(f) =>
              f \in DOMAIN files' /\ files'[f] = files[f]
    BY <1>24 DEF CleanUp, Without, Temporaries, TemporariesInv, IsTemporary, Temporary
  <2>2. \A i \in 1..Len(options.sources) : ~IsTemporary(NameOf(i))
    BY DEF IsTemporary
  <2>3. UNCHANGED <<Extension, Form>>
    BY <2>1
  <2>4. ASSUME status = 0, StopsEarly,
               NEW i \in 1..Len(options.sources),
               \A j \in 1..Len(options.sources) : j > i => NameOf(j) # NameOf(i)
        PROVE  /\ NameOf(i) \in DOMAIN files'
               /\ files'[NameOf(i)] = <<Form, options.sources[i]>>
    <3>1. NameOf(i) \in DOMAIN files /\ files[NameOf(i)] = <<Form, options.sources[i]>>
      BY <2>1, <2>4
    <3>. QED
      BY <2>1, <2>2, <3>1
  <2>5. status = 0 /\ StopsEarly => OutputsOf(Len(options.sources))'
    BY <2>1, <2>3, <2>4, ZenonT(60)
  <2>. QED
    BY <2>1, <2>5
<1>25. CASE Killed
  BY <1>25 DEF Killed
<1>26. CASE UNCHANGED vars
  BY <1>26 DEF vars
<1>. QED
  BY <1>1, <1>2, <1>3, <1>4, <1>5, <1>6, <1>7, <1>8, <1>9, <1>10, <1>11, <1>12,
     <1>13, <1>14, <1>15, <1>16, <1>17, <1>18, <1>19, <1>20, <1>21, <1>22,
     <1>23, <1>24, <1>25, <1>26 DEF Next, ParseArgument, Compile

(* Before the first argument is read there is nothing to clean up. *)
LEMMA DriverStarts == Init => DriverInv
<1>. SUFFICES ASSUME Init PROVE DriverInv
  OBVIOUS
<1>1. OptionsInv
  BY DEF Init, OptionsInv, Actions
<1>2. LoopInv
  BY DEF Init, LoopInv, Stages
<1>3. DOMAIN files \subseteq Existing
  BY DEF Init
<1>4. TemporariesInv
  BY <1>3, DriverAssumption DEF Init, TemporariesInv
<1>5. ReportsInv
  BY DEF Init, ReportsInv
<1>6. TargetInv
  BY DEF Init, TargetInv
<1>7. ObjectsInv /\ OutputsInv /\ ExecutableInv /\ OutputsLeftInv
  BY DEF Init, ObjectsInv, OutputsInv, ExecutableInv, OutputsLeftInv, Compiles,
     Succeeded,
         StopsEarly
<1>. QED
  BY <1>1, <1>2, <1>4, <1>5, <1>6, <1>7 DEF DriverInv

(* The invariant the theorems rest on. *)
LEMMA DriverInvariant == Spec => []DriverInv
<1>1. DriverInv /\ [Next]_vars => DriverInv'
  BY OptionsKept, LoopKept, TargetKept, TemporariesKept, ReportsKept,
     ObjectsKept,
     OutputsKept, ExecutableKept, OutputsLeft DEF DriverInv
<1>. QED
  BY <1>1, DriverStarts, PTL DEF Spec

(* Link or no link, with or without errors, the process removes every      *)
(* temporary before it exits but those that the system refuses to remove   *)
(* (Driver.cpp:103-104).                                                   *)
THEOREM TemporariesRemoved == Spec => []NoTemporaries
<1>1. DriverInv => NoTemporaries
  BY DEF DriverInv, TemporariesInv, NoTemporaries, Exited
<1>. QED
  BY <1>1, DriverInvariant, PTL

(* The exit code tells whether there were errors, and every source is      *)
(* read to its end (Driver.cpp:96-105).                                    *)
THEOREM ErrorsTold == Spec => []Told
<1>1. DriverInv => Told
  BY DEF DriverInv, ReportsInv, Told, Exited
<1>. QED
  BY <1>1, DriverInvariant, PTL

(* The files of the user that are not the output asked for stay as they    *)
(* are (Driver.cpp:160-187).                                               *)
THEOREM FilesKept == Spec => OthersKept
<1>1. DriverInv /\ [Next]_vars => [OthersKeptStep]_vars
  BY StepsKeep
<1>. QED
  BY <1>1, DriverInvariant, PTL DEF Spec, OthersKept, OthersKeptStep

(* When jiac exits with 0, what it was asked for is there: the executable  *)
(* of all the sources in their order, or every source's output but those a *)
(* later source of the same output replaced (Driver.cpp:81-106, 160-187).  *)
THEOREM AskedForIsBuilt == Spec => []Built
<1>1. DriverInv => Built
  <2>. SUFFICES ASSUME DriverInv, stage = "exited", status = 0 PROVE Built
    BY DEF Built, Exited
  <2>. DEFINE sources == options.sources
  <2>1. CASE options.action = "Link"
    BY <2>1 DEF DriverInv, ExecutableInv, Succeeded, Built, StopsEarly
  <2>2. CASE StopsEarly
    <3>1. OutputsOf(Len(sources)) /\ DOMAIN sources = 1..Len(sources)
      BY <2>2 DEF DriverInv, OutputsLeftInv, OptionsInv, Succeeded
    <3>. QED
      BY <2>2, <3>1 DEF Built, OutputsOf, NameOf, StopsEarly
  <2>. QED
    BY <2>1, <2>2 DEF Built
<1>. QED
  BY <1>1, DriverInvariant, PTL
=============================================================================
