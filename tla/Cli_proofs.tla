----------------------------- MODULE Cli_proofs -----------------------------
(***************************************************************************)
(* What the run of Cli checks for two arguments and two invocations,       *)
(* proved for any number of suffixes, arguments and invocations.           *)
(***************************************************************************)
EXTENDS Cli, TLAPS

-----------------------------------------------------------------------------
(* The inductive invariant. *)

FileOK(file) ==
    \/ file \in {Absent, Torn}
    \/ /\ file.kind = "data"
       /\ file.of \in Origin
       /\ file.layers \in Nat

Writing == {"stat", "create", "copy", "cleanup", "close", "finish"}

\* The argument at hand is one of the command line, or all are done.
Placed ==
    /\ pc \in Writing \cup {"open", "stream"} => i \in 1..Len(args)
    /\ pc = "filter" => args = << >>
    /\ pc = "exit0" => i = Len(args) + 1

\* Where the conversion of the argument at hand stands.
Conversion ==
    /\ pc \in Writing => ~Streams
    /\ pc = "stream" => Streams
    /\ pc \in Writing \cup {"stream"} => fs[Input] # Absent
    /\ pc = "create" => flags.force \/ unseen \/ fs[Output] = Absent
    /\ pc \in {"copy", "cleanup"} => fs[Output] = Torn
    /\ pc \in {"close", "finish"} => fs[Output] = Converted(fs[Input])

\* A torn file is an old one or the one being written.
Leftovers ==
    pc # "killed" /\ ~leftBehind =>
        \A k \in Name : fs[k] = Torn =>
            before[k] = Torn \/ (pc \in {"copy", "cleanup"} /\ k = Output)

\* A file holds the data of another with more, or fewer, layers.
Further(new, old, dec) ==
    /\ IsData(new) /\ new.of = old.of
    /\ IF dec THEN new.layers < old.layers ELSE new.layers > old.layers
\* The data of a file is in another, converted, or was written over.
Accounted(old, files, over, dec) ==
    IsData(old) => old.of \in over \/ \E k \in Name : Further(files[k], old, dec)

\* Every file is as it was, or its data is accounted for.
Preserves(old, new, over, dec) ==
    \A k \in Name : new[k] = old[k] \/ Accounted(old[k], new, over, dec)

\* That is so of the files of the beginning, and the arguments already done are
\* accounted for.
Kept == pc \notin {"killed", "exit1"} => Preserves(before, fs, given, flags.decompress)
Done == pc \notin {"killed", "exit1"} /\ ~Streams =>
            \A j \in 1..Len(args) :
                j < i => Accounted(before[args[j]], fs, given, flags.decompress)

IInv ==
    /\ TypeOK
    /\ DOMAIN before = Name /\ \A k \in Name : FileOK(before[k])
    /\ leftBehind \in BOOLEAN
    /\ Placed /\ Conversion /\ Leftovers /\ Kept /\ Done

-----------------------------------------------------------------------------
(* Files and names. *)

\* Absent, torn and complete files are told apart, whatever they hold.
LEMMA Kinds ==
    /\ Absent # Torn /\ ~IsData(Absent) /\ ~IsData(Torn)
    /\ FileOK(Absent) /\ FileOK(Torn)
    /\ \A o, z : /\ Data(o, z).kind = "data" /\ Data(o, z).of = o
                 /\ Data(o, z).layers = z
                 /\ Data(o, z) # Absent /\ Data(o, z) # Torn
<1>1. Absent.kind = "absent" /\ Torn.kind = "torn"
  BY DEF Absent, Torn
<1>2. \A o, z : Data(o, z).kind = "data" /\ Data(o, z).of = o /\ Data(o, z).layers = z
  BY DEF Data
<1> QED  BY <1>1, <1>2 DEF IsData, FileOK

\* The output of an argument is another file than the argument (main.go:130, 183-186).
LEMMA Names ==
    ASSUME TypeOK, i \in 1..Len(args)
    PROVE  /\ Input \in Arg /\ Input \in Name /\ Output \in Name /\ Input # Output
           /\ FileOK(fs[Input]) /\ FileOK(fs[Output])
<1>1. MaxSuffix \in Nat
  BY CliAssumption
<1>2. Input \in Arg
  BY DEF TypeOK, Input
<1>3. Input \in Name /\ Output \in Name /\ Input # Output
  BY <1>1, <1>2 DEF Arg, Name, Output
<1> QED  BY <1>2, <1>3 DEF TypeOK, FileOK

\* What a good file is converted to is a good file (main.go:112-127).
LEMMA Conversions ==
    ASSUME NEW file, FileOK(file), file # Absent, Converts(file)
    PROVE  /\ FileOK(Converted(file)) /\ Converted(file).kind = "data"
           /\ Converted(file) # Absent /\ Converted(file) # Torn
<1>1. CASE file = Torn
  <2>1. FileOK(Data(Worthless, 1))
    BY Kinds DEF FileOK, Origin
  <2> QED  BY <1>1, <2>1, Kinds DEF Converted
<1>2. CASE file # Torn
  <2>1. file.of \in Origin /\ file.layers \in Nat
    BY <1>2 DEF FileOK
  <2>2. Layers(file) \in Nat
    BY <1>2, <2>1 DEF Layers, Converts
  <2>3. FileOK(Data(file.of, Layers(file)))
    BY <2>1, <2>2, Kinds DEF FileOK
  <2> QED  BY <1>2, <2>3, Kinds DEF Converted
<1> QED  BY <1>1, <1>2

\* Writing one file leaves the others, and good files are left.
LEMMA PutFile ==
    ASSUME DOMAIN fs = Name, \A k \in Name : FileOK(fs[k]),
           NEW at \in Name, NEW file, fs' = [fs EXCEPT ![at] = file]
    PROVE  /\ DOMAIN fs' = Name
           /\ fs'[at] = file
           /\ \A k \in Name : k # at => fs'[k] = fs[k]
           /\ FileOK(file) => \A k \in Name : FileOK(fs'[k])
  OBVIOUS

\* In the course of an argument its names do not change.
LEMMA SameNames ==
    ASSUME NEW where, Goto(where)
    PROVE  /\ Input' = Input /\ Output' = Output /\ Streams' = Streams
           /\ \A file : Converted(file)' = Converted(file)
           /\ UNCHANGED <<i, flags, args, runs, before>> /\ pc' = where
  BY DEF Goto, runVars, Input, Output, Streams, Converted, Layers

\* After an argument comes the next or the end.
LEMMA NextArgMoves ==
    ASSUME TypeOK, i \in 1..Len(args), NextArg
    PROVE  /\ i' = i + 1 /\ i' \in 1..Len(args) + 1
           /\ UNCHANGED <<flags, args, runs, before>> /\ Streams' = Streams
           /\ pc' \in {"exit0", "open"}
           /\ pc' = "exit0" => i' = Len(args') + 1
           /\ pc' = "open" => i' \in 1..Len(args')
<1>1. Len(args) \in Nat
  BY DEF TypeOK
<1>2. i' = i + 1 /\ UNCHANGED <<flags, args, runs, before>>
  BY DEF NextArg, runVars
<1>3. pc' = IF i = Len(args) THEN "exit0" ELSE "open"
  BY DEF NextArg
<1> QED  BY <1>1, <1>2, <1>3 DEF Streams

-----------------------------------------------------------------------------
(* Each part of the invariant is kept. *)

\* The files and names an invocation may be at, once an argument is opened.
LEMMA AtHand ==
    ASSUME IInv, pc \in Writing \cup {"open", "stream"}
    PROVE  /\ TypeOK /\ i \in 1..Len(args)
           /\ Input \in Name /\ Output \in Name /\ Input # Output
           /\ FileOK(fs[Input]) /\ FileOK(fs[Output])
           /\ DOMAIN fs = Name /\ \A k \in Name : FileOK(fs[k])
<1>1. TypeOK /\ i \in 1..Len(args)
  BY DEF IInv, Placed
<1>2. DOMAIN fs = Name /\ \A k \in Name : FileOK(fs[k])
  BY <1>1 DEF TypeOK, FileOK
<1> QED  BY <1>1, <1>2, Names

\* The types but that of the files, for a step within an argument.
OtherTypes ==
    /\ flags \in Flags
    /\ args \in Seq(Arg) /\ i \in 1..Len(args) + 1
    /\ pc \in Ended \cup Writing \cup {"filter", "open", "stream"}
    /\ given \subseteq Origin
    /\ leftBehind \in BOOLEAN /\ unseen \in BOOLEAN
    /\ DOMAIN before = Name /\ \A k \in Name : FileOK(before[k])

LEMMA Types == IInv => OtherTypes /\ DOMAIN fs = Name /\ \A k \in Name : FileOK(fs[k])
  BY DEF IInv, OtherTypes, TypeOK, FileOK, Ended, Writing

\* What another process does: one file more, made of its own data, and nothing of this
\* process is touched.
LEMMA OneMore ==
    ASSUME IInv, OtherMakes
    PROVE  /\ \E m \in Name :
                /\ fs[m] = Absent /\ fs'[m] = Data(Foreign, 0)
                /\ \A k \in Name : k # m => fs'[k] = fs[k]
                /\ unseen' = (unseen \/ (pc = "create" /\ m = Output))
           /\ DOMAIN fs' = Name /\ \A k \in Name : FileOK(fs'[k])
           /\ UNCHANGED <<flags, args, i, pc, runs, before, given, leftBehind>>
           /\ Input' = Input /\ Output' = Output /\ Streams' = Streams
           /\ \A file : Converted(file)' = Converted(file)
<1>1. UNCHANGED <<flags, args, i, pc, runs, before, given, leftBehind>>
  BY DEF OtherMakes, runVars
<1>2. Input' = Input /\ Output' = Output /\ Streams' = Streams
      /\ \A file : Converted(file)' = Converted(file)
  BY <1>1 DEF Input, Output, Streams, Converted, Layers
<1>3. PICK m \in Name : /\ fs[m] = Absent
                         /\ fs' = [fs EXCEPT ![m] = Data(Foreign, 0)]
                         /\ unseen' = (unseen \/ (pc = "create" /\ m = Output))
  BY DEF OtherMakes
<1>4. FileOK(Data(Foreign, 0))
  BY Kinds DEF FileOK, Origin
<1>5. DOMAIN fs = Name /\ \A k \in Name : FileOK(fs[k])
  BY Types
<1>6. /\ DOMAIN fs' = Name /\ fs'[m] = Data(Foreign, 0)
      /\ \A k \in Name : k # m => fs'[k] = fs[k]
      /\ \A k \in Name : FileOK(fs'[k])
  BY <1>3, <1>4, <1>5, PutFile
<1> QED  BY <1>1, <1>2, <1>3, <1>6

\* A step keeps the types (main.go:49-232).
LEMMA TypeStep ==
    ASSUME IInv, [Next]_vars
    PROVE  /\ TypeOK' /\ leftBehind' \in BOOLEAN
           /\ DOMAIN before' = Name /\ \A k \in Name : FileOK(before'[k])
<1> SUFFICES OtherTypes' /\ DOMAIN fs' = Name /\ \A k \in Name : FileOK(fs'[k])
  BY DEF OtherTypes, TypeOK, FileOK, Ended, Writing
<1>0. OtherTypes /\ DOMAIN fs = Name /\ \A k \in Name : FileOK(fs[k])
  BY Types
<1>a. ASSUME NEW where \in Ended \cup Writing \cup {"stream"}, Goto(where),
             given' \subseteq Origin, leftBehind' \in BOOLEAN, unseen' \in BOOLEAN
      PROVE  OtherTypes'
  BY <1>0, <1>a DEF OtherTypes, Goto, runVars
<1>b. ASSUME NextArg, i \in 1..Len(args), UNCHANGED <<given, leftBehind, unseen>>
      PROVE  OtherTypes'
  <2>1. TypeOK
    BY DEF IInv
  <2> QED  BY <1>0, <1>b, <2>1, NextArgMoves DEF OtherTypes, Ended
<1>1. CASE Start
  <2>1. PICK n \in 0..MaxArgs : args' \in [1..n -> Arg]
    BY <1>1 DEF Start
  <2>2. args' \in Seq(Arg) /\ Len(args') \in Nat /\ i' \in 1..Len(args') + 1
    BY <1>1, <2>1, CliAssumption DEF Start
  <2>3. flags' \in Flags /\ pc' \in {"filter", "open"} /\ before' = fs
        /\ leftBehind' = FALSE /\ unseen' = FALSE /\ fs' = fs /\ given' = given
    BY <1>1 DEF Start
  <2> QED  BY <1>0, <2>2, <2>3 DEF OtherTypes
<1>2. CASE Filter
  <2>1. (Goto("exit0") \/ Goto("exit1")) /\ UNCHANGED fileVars
    BY <1>2 DEF Filter
  <2> QED  BY <1>0, <1>a, <2>1 DEF OtherTypes, fileVars, Ended
<1>3. CASE Open
  <2>1. /\ Goto("exit1") \/ Goto("stream") \/ Goto("create") \/ Goto("stat")
        /\ UNCHANGED fileVars
    BY <1>3 DEF Open
  <2> QED  BY <1>0, <1>a, <2>1 DEF OtherTypes, fileVars, Ended, Writing
<1>4. CASE Stream
  <2>1. i \in 1..Len(args)
    BY <1>4, AtHand DEF Stream
  <2>2. NextArg \/ Goto("exit1")
    BY <1>4 DEF Stream
  <2>3. UNCHANGED <<fs, given, leftBehind, unseen>>
    BY <1>4 DEF Stream, fileVars
  <2> QED  BY <1>0, <1>a, <1>b, <2>1, <2>2, <2>3 DEF OtherTypes, Ended
<1>5. CASE Stat
  <2>1. /\ Goto("exit1") \/ Goto("create")
        /\ UNCHANGED <<fs, given, leftBehind>> /\ unseen' \in BOOLEAN
    BY <1>5 DEF Stat, StatOutcomes
  <2> QED  BY <1>0, <1>a, <2>1 DEF OtherTypes, Ended, Writing
<1>6. CASE Create
  <2>1. Output \in Name /\ FileOK(fs[Output])
    BY <1>6, AtHand DEF Create, Writing
  <2>2. CASE Goto("exit1") /\ UNCHANGED fileVars
    BY <1>0, <1>a, <2>2 DEF OtherTypes, fileVars, Ended
  <2>3. CASE ~(Goto("exit1") /\ UNCHANGED fileVars)
    <3>1. /\ fs' = [fs EXCEPT ![Output] = Torn]
          /\ given' = given \cup Holds(Output)
          /\ Goto("copy") /\ leftBehind' = leftBehind /\ unseen' = FALSE
      BY <1>6, <2>3 DEF Create
    <3>2. Holds(Output) \subseteq Origin
      BY <2>1, Kinds DEF FileOK, Absent, Torn, Holds
    <3>3. OtherTypes'
      BY <1>0, <1>a, <3>1, <3>2 DEF OtherTypes, Writing
    <3> QED  BY <1>0, <2>1, <3>1, <3>3, Kinds, PutFile
  <2> QED  BY <2>2, <2>3
<1>7. CASE Copy
  <2>1. Output \in Name /\ FileOK(fs[Input])
    BY <1>7, AtHand DEF Copy, Writing
  <2>2. UNCHANGED <<given, leftBehind, unseen>>
    BY <1>7 DEF Copy
  <2>3. CASE Goto("cleanup") /\ UNCHANGED fs
    BY <1>0, <1>a, <2>2, <2>3 DEF OtherTypes, Writing
  <2>4. CASE ~(Goto("cleanup") /\ UNCHANGED fs)
    <3>1. /\ Converts(fs[Input]) /\ Goto("close")
          /\ fs' = [fs EXCEPT ![Output] = Converted(fs[Input])]
      BY <1>7, <2>4 DEF Copy
    <3>2. fs[Input] # Absent
      BY <1>7 DEF Copy, IInv, Conversion, Writing
    <3>3. FileOK(Converted(fs[Input]))
      BY <2>1, <3>1, <3>2, Conversions
    <3>4. OtherTypes'
      BY <1>0, <1>a, <2>2, <3>1 DEF OtherTypes, Writing
    <3> QED  BY <1>0, <2>1, <3>1, <3>3, <3>4, PutFile
  <2> QED  BY <2>3, <2>4
<1>8. CASE Cleanup
  <2>1. Output \in Name
    BY <1>8, AtHand DEF Cleanup, Writing
  <2>2. UNCHANGED <<given, unseen>> /\ leftBehind' \in BOOLEAN /\ Goto("exit1")
    BY <1>0, <1>8 DEF Cleanup, AfterCleanup, OtherTypes
  <2>3. OtherTypes'
    BY <1>0, <1>a, <2>2 DEF OtherTypes, Ended
  <2>4. fs' = [fs EXCEPT ![Output] = Absent] \/ fs' = fs
    BY <1>8 DEF Cleanup, Cleaned
  <2> QED  BY <1>0, <2>1, <2>3, <2>4, Kinds, PutFile
<1>9. CASE CloseOutput
  <2>1. Output \in Name
    BY <1>9, AtHand DEF CloseOutput, Writing
  <2>2. UNCHANGED <<given, unseen>> /\ leftBehind' \in BOOLEAN /\ (Goto("finish") \/ Goto("exit1"))
    BY <1>0, <1>9 DEF CloseOutput, AfterCloseError, OtherTypes
  <2>3. OtherTypes'
    BY <1>0, <1>a, <2>2 DEF OtherTypes, Ended, Writing
  <2>4. fs' = [fs EXCEPT ![Output] = Torn] \/ fs' = fs
    BY <1>9 DEF CloseOutput
  <2> QED  BY <1>0, <2>1, <2>3, <2>4, Kinds, PutFile
<1>10. CASE Finish
  <2>1. Input \in Name /\ i \in 1..Len(args)
    BY <1>10, AtHand DEF Finish, Writing
  <2>2. OtherTypes'
    BY <1>b, <1>10, <2>1 DEF Finish
  <2>3. fs' = [fs EXCEPT ![Input] = Absent] \/ fs' = fs
    BY <1>10 DEF Finish
  <2> QED  BY <1>0, <2>1, <2>2, <2>3, Kinds, PutFile
<1>11. CASE Kill
  <2>1. Goto("killed") /\ UNCHANGED fileVars
    BY <1>11 DEF Kill
  <2> QED  BY <1>0, <1>a, <2>1 DEF OtherTypes, fileVars, Ended
<1>13. CASE OtherMakes
  <2>1. UNCHANGED <<flags, args, i, pc, before, given, leftBehind>> /\ unseen' \in BOOLEAN
    BY <1>0, <1>13, OneMore DEF OtherTypes, OtherMakes
  <2> QED  BY <1>0, <1>13, <2>1, OneMore DEF OtherTypes
<1>12. CASE UNCHANGED vars
  BY <1>0, <1>12 DEF vars, OtherTypes
<1> QED
  BY <1>1, <1>2, <1>3, <1>4, <1>5, <1>6, <1>7, <1>8, <1>9, <1>10, <1>11, <1>12, <1>13
  DEF Next

\* A step keeps i and pc in step with the arguments (main.go:81-110).
LEMMA PlacedStep == ASSUME IInv, [Next]_vars PROVE Placed'
<1>0. TypeOK /\ Placed /\ Len(args) \in Nat
  BY DEF IInv, TypeOK
<1>a. ASSUME pc \in Writing \cup {"open", "stream"},
             NEW where \in Writing \cup {"stream", "exit1", "killed"}, Goto(where)
      PROVE  Placed'
  <2>1. i \in 1..Len(args) /\ i' = i /\ args' = args /\ pc' = where
    BY <1>0, <1>a DEF Placed, Goto, runVars
  <2> QED  BY <2>1, <1>a DEF Placed, Writing
<1>b. ASSUME NextArg, i \in 1..Len(args)
      PROVE  Placed'
  BY <1>0, <1>b, NextArgMoves DEF Placed, Writing
<1>1. CASE Start
  <2>1. PICK k \in 0..MaxArgs : args' \in [1..k -> Arg]
    BY <1>1 DEF Start
  <2>2. Len(args') = k /\ k \in Nat /\ (k = 0 <=> args' = << >>)
    BY <2>1, CliAssumption
  <2>3. i' = 1 /\ pc' = IF args' = << >> THEN "filter" ELSE "open"
    BY <1>1 DEF Start
  <2> QED  BY <2>2, <2>3 DEF Placed, Writing
<1>2. CASE Filter
  <2>1. args = << >> /\ i = 1 /\ UNCHANGED <<args, i>> /\ pc' \in {"exit0", "exit1"}
    BY <1>0, <1>2 DEF Filter, Goto, runVars, Placed, TypeOK
  <2> QED  BY <2>1 DEF Placed, Writing
<1>3. CASE Open
  BY <1>3, <1>a DEF Open, Writing
<1>4. CASE Stream
  <2>1. i \in 1..Len(args)
    BY <1>4, AtHand DEF Stream
  <2> QED  BY <1>4, <1>a, <1>b, <2>1 DEF Stream
<1>5. CASE Stat
  BY <1>5, <1>a DEF Stat, Writing
<1>6. CASE Create
  BY <1>6, <1>a DEF Create, Writing
<1>7. CASE Copy
  BY <1>7, <1>a DEF Copy, Writing
<1>8. CASE Cleanup
  BY <1>8, <1>a DEF Cleanup, AfterCleanup, Writing
<1>9. CASE CloseOutput
  BY <1>9, <1>a DEF CloseOutput, AfterCloseError, Writing
<1>10. CASE Finish
  <2>1. i \in 1..Len(args)
    BY <1>10, AtHand DEF Finish, Writing
  <2> QED  BY <1>10, <1>b, <2>1 DEF Finish
<1>11. CASE Kill
  BY <1>11 DEF Kill, Goto, Placed, Writing
<1>13. CASE OtherMakes
  BY <1>0, <1>13, OneMore DEF Placed
<1>12. CASE UNCHANGED vars
  BY <1>0, <1>12 DEF vars, Placed
<1> QED
  BY <1>1, <1>2, <1>3, <1>4, <1>5, <1>6, <1>7, <1>8, <1>9, <1>10, <1>11, <1>12, <1>13
  DEF Next

\* A step leaves the input in place and the output as the stage of the conversion has it
\* (main.go:129-232).
LEMMA ConversionStep == ASSUME IInv, [Next]_vars PROVE Conversion'
<1>0. Conversion
  BY DEF IInv
<1>a. ASSUME NEW where \in {"exit1", "killed"}, Goto(where)
      PROVE  Conversion'
  BY <1>a DEF Goto, Conversion, Writing
<1>b. ASSUME NextArg
      PROVE  Conversion'
  BY <1>b DEF NextArg, Conversion, Writing
<1>1. CASE Start
  BY <1>1 DEF Start, Conversion, Writing
<1>2. CASE Filter
  BY <1>2 DEF Filter, Goto, Conversion, Writing
<1>3. CASE Open
  <2>1. CASE Goto("exit1")
    BY <1>a, <2>1
  <2>2. CASE ~Goto("exit1")
    <3>1. PICK where \in {"stream", "create", "stat"} :
             /\ Goto(where)
             /\ where = IF Streams THEN "stream" ELSE IF flags.force THEN "create" ELSE "stat"
      BY <1>3, <2>2 DEF Open
    <3>2. fs[Input] # Absent /\ fs' = fs
      BY <1>3, <2>2 DEF Open, fileVars
    <3> QED  BY <3>1, <3>2, SameNames DEF Conversion, Writing
  <2> QED  BY <2>1, <2>2
<1>4. CASE Stream
  BY <1>4, <1>a, <1>b DEF Stream
<1>5. CASE Stat
  <2>1. CASE Goto("exit1")
    BY <1>a, <2>1
  <2>2. CASE ~Goto("exit1")
    <3>1. Goto("create") /\ (unseen' \/ fs[Output] = Absent) /\ fs' = fs
      BY <1>5, <2>2 DEF Stat, Refuses, StatOutcomes
    <3>2. ~Streams /\ fs[Input] # Absent
      BY <1>0, <1>5 DEF Stat, Conversion, Writing
    <3> QED  BY <3>1, <3>2, SameNames DEF Conversion, Writing
  <2> QED  BY <2>1, <2>2
<1>6. CASE Create
  <2>1. CASE Goto("exit1")
    BY <1>a, <2>1
  <2>2. CASE ~Goto("exit1")
    <3>1. Goto("copy") /\ fs' = [fs EXCEPT ![Output] = Torn]
      BY <1>6, <2>2 DEF Create
    <3>2. ~Streams /\ fs[Input] # Absent
      BY <1>0, <1>6 DEF Create, Conversion, Writing
    <3>3. fs'[Output] = Torn /\ fs'[Input] = fs[Input]
      BY <1>6, <3>1, AtHand DEF Create, Writing
    <3> QED  BY <3>1, <3>2, <3>3, SameNames DEF Conversion, Writing
  <2> QED  BY <2>1, <2>2
<1>7. CASE Copy
  <2>1. ~Streams /\ fs[Input] # Absent /\ fs[Output] = Torn
    BY <1>0, <1>7 DEF Copy, Conversion, Writing
  <2>2. CASE Goto("cleanup") /\ UNCHANGED fs
    BY <2>1, <2>2, SameNames DEF Conversion, Writing
  <2>3. CASE ~(Goto("cleanup") /\ UNCHANGED fs)
    <3>1. Goto("close") /\ fs' = [fs EXCEPT ![Output] = Converted(fs[Input])]
      BY <1>7, <2>3 DEF Copy
    <3>2. fs'[Output] = Converted(fs[Input]) /\ fs'[Input] = fs[Input]
      BY <1>7, <3>1, AtHand DEF Copy, Writing
    <3> QED  BY <2>1, <3>1, <3>2, SameNames DEF Conversion, Writing
  <2> QED  BY <2>2, <2>3
<1>8. CASE Cleanup
  BY <1>8, <1>a DEF Cleanup, AfterCleanup
<1>9. CASE CloseOutput
  <2>1. CASE Goto("exit1")
    BY <1>a, <2>1
  <2>2. CASE ~Goto("exit1")
    <3>1. Goto("finish") /\ fs' = fs
      BY <1>9, <2>2 DEF CloseOutput, AfterCloseError
    <3>2. ~Streams /\ fs[Input] # Absent /\ fs[Output] = Converted(fs[Input])
      BY <1>0, <1>9 DEF CloseOutput, Conversion, Writing
    <3> QED  BY <3>1, <3>2, SameNames DEF Conversion, Writing
  <2> QED  BY <2>1, <2>2
<1>10. CASE Finish
  BY <1>10, <1>b DEF Finish
<1>11. CASE Kill
  BY <1>11, <1>a DEF Kill
<1>13. CASE OtherMakes
  <2>1. PICK m \in Name :
           /\ fs[m] = Absent /\ fs'[m] = Data(Foreign, 0)
           /\ \A k \in Name : k # m => fs'[k] = fs[k]
           /\ unseen' = (unseen \/ (pc = "create" /\ m = Output))
    BY <1>13, OneMore
  <2>2. /\ UNCHANGED <<pc, flags, Streams, Input, Output>>
        /\ \A file : Converted(file)' = Converted(file)
    BY <1>13, OneMore
  <2> SUFFICES ASSUME pc \in Writing \cup {"stream"} PROVE Conversion'
    BY <2>2 DEF Conversion, Writing
  <2>3. Input \in Name /\ Output \in Name /\ FileOK(fs[Input])
    BY AtHand
  <2>4. fs[Input] # Absent /\ fs'[Input] = fs[Input]
    BY <1>0, <2>1, <2>3 DEF Conversion
  <2>5. pc = "create" => flags.force \/ unseen' \/ fs'[Output] = Absent
    BY <1>0, <2>1, <2>3 DEF Conversion
  <2>6. pc \in {"copy", "cleanup"} => fs'[Output] = Torn
    BY <1>0, <2>1, <2>3, Kinds DEF Conversion
  <2>7. pc \in {"close", "finish"} => fs'[Output] = Converted(fs[Input])
    <3>1. Converted(fs[Input]) # Absent
      BY Kinds DEF Converted
    <3> QED  BY <1>0, <2>1, <2>3, <3>1 DEF Conversion
  <2> QED  BY <1>0, <2>2, <2>4, <2>5, <2>6, <2>7 DEF Conversion
<1>12. CASE UNCHANGED vars
  <2>1. UNCHANGED <<fs, flags, pc, unseen, Input, Output, Streams>>
    BY <1>12 DEF vars, Input, Output, Streams
  <2>2. Converted(fs[Input])' = Converted(fs[Input])
    BY <2>1 DEF Converted, Layers
  <2> QED  BY <1>0, <2>1, <2>2 DEF Conversion
<1> QED
  BY <1>1, <1>2, <1>3, <1>4, <1>5, <1>6, <1>7, <1>8, <1>9, <1>10, <1>11, <1>12, <1>13
  DEF Next

\* A torn file is new only while it is written, or a call that should have removed or
\* closed it failed (main.go:148-161, 209-222).
LEMMA LeftoversStep == ASSUME IInv, [Next]_vars PROVE Leftovers'
<1>0. Leftovers /\ Conversion /\ leftBehind \in BOOLEAN /\ DOMAIN fs = Name
  BY DEF IInv, TypeOK
<1>a. ASSUME NEW where, Goto(where), UNCHANGED <<fs, leftBehind>>,
             pc \notin {"killed", "copy", "cleanup"}
      PROVE  Leftovers'
  BY <1>0, <1>a, SameNames DEF Leftovers
<1>b. ASSUME NextArg, leftBehind' = leftBehind, pc \in Writing \cup {"stream"},
             pc \notin {"copy", "cleanup"},
             \A k \in Name : fs'[k] = Torn => fs[k] = Torn
      PROVE  Leftovers'
  BY <1>0, <1>b DEF Leftovers, NextArg, runVars, Writing
<1>1. CASE Start
  BY <1>1 DEF Start, Leftovers
<1>2. CASE Filter
  BY <1>2, <1>a DEF Filter, fileVars
<1>3. CASE Open
  BY <1>3, <1>a DEF Open, fileVars
<1>4. CASE Stream
  BY <1>4, <1>a, <1>b DEF Stream, fileVars
<1>5. CASE Stat
  BY <1>5, <1>a DEF Stat
<1>6. CASE Create
  <2>1. CASE Goto("exit1") /\ UNCHANGED fileVars
    BY <1>6, <1>a, <2>1 DEF Create, fileVars
  <2>2. CASE ~(Goto("exit1") /\ UNCHANGED fileVars)
    <3>1. /\ Goto("copy") /\ fs' = [fs EXCEPT ![Output] = Torn]
          /\ leftBehind' = leftBehind /\ pc = "create"
      BY <1>6, <2>2 DEF Create
    <3>2. \A k \in Name : k # Output => fs'[k] = fs[k]
      BY <1>0, <3>1
    <3> QED  BY <1>0, <3>1, <3>2, SameNames DEF Leftovers
  <2> QED  BY <2>1, <2>2
<1>7. CASE Copy
  <2>1. pc = "copy" /\ leftBehind' = leftBehind
    BY <1>7 DEF Copy
  <2>2. CASE Goto("cleanup") /\ UNCHANGED fs
    BY <1>0, <2>1, <2>2, SameNames DEF Leftovers
  <2>3. CASE ~(Goto("cleanup") /\ UNCHANGED fs)
    <3>1. /\ Goto("close") /\ fs' = [fs EXCEPT ![Output] = Converted(fs[Input])]
          /\ Converts(fs[Input])
      BY <1>7, <2>3 DEF Copy
    <3>2. fs[Input] # Absent /\ FileOK(fs[Input]) /\ Output \in Name
      BY <1>0, <2>1, AtHand DEF Conversion, Writing
    <3>3. fs'[Output] # Torn /\ \A k \in Name : k # Output => fs'[k] = fs[k]
      BY <1>0, <3>1, <3>2, Conversions
    <3> QED  BY <1>0, <2>1, <3>1, <3>3, SameNames DEF Leftovers
  <2> QED  BY <2>2, <2>3
<1>8. CASE Cleanup
  <2>1. pc = "cleanup" /\ Goto("exit1") /\ Output \in Name
    BY <1>8, AtHand DEF Cleanup, AfterCleanup, Writing
  <2>2. CASE leftBehind' = TRUE
    BY <2>2 DEF Leftovers
  <2>3. CASE fs' = [fs EXCEPT ![Output] = Absent] /\ leftBehind' = leftBehind
    <3>1. fs'[Output] # Torn /\ \A k \in Name : k # Output => fs'[k] = fs[k]
      BY <1>0, <2>1, <2>3, Kinds
    <3> QED  BY <1>0, <2>1, <2>3, <3>1, SameNames DEF Leftovers
  <2> QED  BY <1>8, <2>2, <2>3 DEF Cleanup, Cleaned
<1>9. CASE CloseOutput
  <2>1. CASE leftBehind' = TRUE
    BY <2>1 DEF Leftovers
  <2> QED  BY <1>9, <1>a, <2>1 DEF CloseOutput
<1>10. CASE Finish
  <2>1. Input \in Name /\ NextArg /\ leftBehind' = leftBehind /\ pc = "finish"
    BY <1>10, AtHand DEF Finish, Writing
  <2>2. fs' = fs \/ fs' = [fs EXCEPT ![Input] = Absent]
    BY <1>10 DEF Finish
  <2>3. \A k \in Name : fs'[k] = Torn => fs[k] = Torn
    BY <1>0, <2>1, <2>2, Kinds
  <2> QED  BY <1>b, <2>1, <2>3 DEF Writing
<1>11. CASE Kill
  BY <1>11 DEF Kill, Goto, Leftovers
<1>13. CASE OtherMakes
  <2>1. \A k \in Name : fs'[k] = Torn => fs[k] = Torn
    BY <1>13, OneMore, Kinds
  <2> QED  BY <1>0, <1>13, <2>1, OneMore DEF Leftovers
<1>12. CASE UNCHANGED vars
  <2>1. UNCHANGED <<fs, before, leftBehind, pc, Output>>
    BY <1>12 DEF vars, Output, Input
  <2> QED  BY <1>0, <2>1 DEF Leftovers
<1> QED
  BY <1>1, <1>2, <1>3, <1>4, <1>5, <1>6, <1>7, <1>8, <1>9, <1>10, <1>11, <1>12, <1>13
  DEF Next

-----------------------------------------------------------------------------
(* Data is accounted for, from one step to the next. *)

\* What is accounted for stays so when every file is preserved.
LEMMA AccountedStays ==
    ASSUME NEW old, NEW f, NEW g, NEW t, NEW u, NEW dec \in BOOLEAN,
           FileOK(old), \A k \in Name : FileOK(f[k]), \A k \in Name : FileOK(g[k]),
           t \subseteq u, Preserves(f, g, u, dec), Accounted(old, f, t, dec)
    PROVE  Accounted(old, g, u, dec)
<1> SUFFICES ASSUME IsData(old), old.of \notin u
             PROVE  \E k \in Name : Further(g[k], old, dec)
  BY DEF Accounted
<1>1. PICK k \in Name : Further(f[k], old, dec)
  BY DEF Accounted
<1>2. IsData(f[k]) /\ f[k].of = old.of
  BY <1>1 DEF Further
<1>3. CASE g[k] = f[k]
  BY <1>1, <1>3 DEF Further
<1>4. CASE g[k] # f[k]
  <2>1. PICK m \in Name : Further(g[m], f[k], dec)
    BY <1>2, <1>4 DEF Preserves, Accounted
  <2>2. old.layers \in Nat /\ f[k].layers \in Nat /\ g[m].layers \in Nat
    BY <1>2, <2>1, Kinds DEF FileOK, Further
  <2>3. IsData(g[m]) /\ g[m].of = old.of
    BY <1>2, <2>1 DEF Further
  <2>4. IF dec THEN g[m].layers < old.layers ELSE g[m].layers > old.layers
    BY <1>1, <2>1, <2>2 DEF Further
  <2> QED  BY <2>3, <2>4 DEF Further
<1> QED  BY <1>3, <1>4

\* Files preserved twice are preserved.
LEMMA PreservesTwice ==
    ASSUME NEW e, NEW f, NEW g, NEW t, NEW u, NEW dec \in BOOLEAN,
           \A k \in Name : FileOK(e[k]), \A k \in Name : FileOK(f[k]),
           \A k \in Name : FileOK(g[k]),
           t \subseteq u, Preserves(e, f, t, dec), Preserves(f, g, u, dec)
    PROVE  Preserves(e, g, u, dec)
<1> SUFFICES ASSUME NEW k \in Name, g[k] # e[k]
             PROVE  Accounted(e[k], g, u, dec)
  BY DEF Preserves
<1>1. CASE f[k] = e[k]
  BY <1>1 DEF Preserves
<1>2. CASE f[k] # e[k]
  <2>1. Accounted(e[k], f, t, dec)
    BY <1>2 DEF Preserves
  <2> QED  BY <2>1, AccountedStays
<1> QED  BY <1>1, <1>2

\* The converted file has the data of the input, one layer further (main.go:148, 209).
LEMMA ConvertedFurther ==
    ASSUME NEW file, FileOK(file), NEW files, NEW m \in Name, NEW over,
           flags \in Flags, files[m] = Converted(file)
    PROVE  Accounted(file, files, over, flags.decompress)
<1> SUFFICES ASSUME IsData(file)
             PROVE  Further(Converted(file), file, flags.decompress)
  BY DEF Accounted
<1>1. file # Torn /\ file.layers \in Nat
  BY Kinds DEF FileOK
<1>2. Converted(file) = Data(file.of, Layers(file))
  BY <1>1 DEF Converted
<1>3. Converted(file).kind = "data" /\ Converted(file).of = file.of
      /\ Converted(file).layers = Layers(file)
  BY <1>2, Kinds
<1>4. IF flags.decompress THEN Layers(file) < file.layers ELSE Layers(file) > file.layers
  BY <1>1 DEF Layers
<1> QED  BY <1>3, <1>4 DEF Further, IsData

\* A step of an invocation that has not failed preserves every file (main.go:129-232).
LEMMA StepPreserves ==
    ASSUME IInv, Next, ~Start, pc' \notin {"killed", "exit1"}
    PROVE  /\ Preserves(fs, fs', given', flags.decompress) /\ given \subseteq given'
           /\ pc \notin {"killed", "exit1"}
           /\ UNCHANGED <<flags, args, before>>
<1>0. TypeOK /\ Conversion
  BY DEF IInv
<1>a. \A g, u, d : Preserves(g, g, u, d)
  BY DEF Preserves
<1>1. CASE Filter
  BY <1>1, <1>a DEF Filter, fileVars, Goto, runVars
<1>2. CASE Open
  BY <1>2, <1>a DEF Open, fileVars, Goto, runVars
<1>3. CASE Stream
  BY <1>3, <1>a DEF Stream, fileVars, Goto, NextArg, runVars
<1>4. CASE Stat
  BY <1>4, <1>a DEF Stat, Goto, runVars
<1>5. CASE Create
  <2>1. /\ fs' = [fs EXCEPT ![Output] = Torn]
        /\ given' = given \cup Holds(Output)
        /\ Goto("copy") /\ pc = "create"
    BY <1>5 DEF Create, Goto
  <2>2. Output \in Name /\ DOMAIN fs = Name
    BY <2>1, AtHand DEF Writing
  <2>3. Accounted(fs[Output], fs', given', flags.decompress)
    BY <2>1 DEF Accounted, IsData, Holds
  <2>4. \A k \in Name : k # Output => fs'[k] = fs[k]
    BY <2>1, <2>2
  <2>5. Preserves(fs, fs', given', flags.decompress)
    BY <2>3, <2>4 DEF Preserves
  <2> QED  BY <2>1, <2>5 DEF Goto, runVars
<1>6. CASE Copy
  <2>1. pc = "copy" /\ given' = given /\ fs[Output] = Torn
        /\ UNCHANGED <<flags, args, before>>
    BY <1>0, <1>6 DEF Copy, Conversion, Goto, runVars
  <2>2. Output \in Name /\ DOMAIN fs = Name
    BY <2>1, AtHand DEF Writing
  <2>3. Accounted(fs[Output], fs', given', flags.decompress)
    BY <2>1, Kinds DEF Accounted
  <2>4. \A k \in Name : k # Output => fs'[k] = fs[k]
    BY <1>6, <2>2 DEF Copy
  <2>5. Preserves(fs, fs', given', flags.decompress)
    BY <2>3, <2>4 DEF Preserves
  <2> QED  BY <2>1, <2>5
<1>7. CASE Cleanup
  BY <1>7 DEF Cleanup, AfterCleanup, Goto
<1>8. CASE CloseOutput
  BY <1>8, <1>a DEF CloseOutput, AfterCloseError, Goto, runVars
<1>9. CASE Finish
  <2>1. pc = "finish" /\ given' = given /\ UNCHANGED <<flags, args, before>>
    BY <1>9 DEF Finish, NextArg, runVars
  <2>2. fs[Output] = Converted(fs[Input])
    BY <1>0, <2>1 DEF Conversion
  <2>3. Input \in Name /\ Output \in Name /\ Input # Output /\ FileOK(fs[Input])
        /\ DOMAIN fs = Name
    BY <2>1, AtHand DEF Writing
  <2>4. \A k \in Name : k # Input => fs'[k] = fs[k]
    BY <1>9, <2>3 DEF Finish
  <2>5. fs'[Output] = Converted(fs[Input])
    BY <2>2, <2>3, <2>4
  <2>6. flags \in Flags
    BY <1>0 DEF TypeOK
  <2>7. Accounted(fs[Input], fs', given', flags.decompress)
    BY <2>3, <2>5, <2>6, ConvertedFurther
  <2>8. Preserves(fs, fs', given', flags.decompress)
    BY <2>4, <2>7 DEF Preserves
  <2> QED  BY <2>1, <2>8
<1>10. CASE Kill
  BY <1>10 DEF Kill, Goto
<1>11. CASE OtherMakes
  <2>1. PICK m \in Name : fs[m] = Absent /\ \A k \in Name : k # m => fs'[k] = fs[k]
    BY <1>11, OneMore
  <2>2. Preserves(fs, fs', given', flags.decompress)
    BY <2>1, Kinds DEF Preserves, Accounted
  <2> QED  BY <1>11, <2>2, OneMore
<1> QED
  BY <1>1, <1>2, <1>3, <1>4, <1>5, <1>6, <1>7, <1>8, <1>9, <1>10, <1>11 DEF Next

\* A step keeps the files of the beginning accounted for (main.go:97-232).
LEMMA KeptStep == ASSUME IInv, [Next]_vars PROVE Kept'
<1> SUFFICES ASSUME pc' \notin {"killed", "exit1"}
             PROVE  Preserves(before', fs', given', flags'.decompress)
  BY DEF Kept
<1>0. /\ \A k \in Name : FileOK(before[k]) /\ FileOK(fs[k])
      /\ flags \in Flags
  BY Types DEF OtherTypes
<1>1. CASE Start
  BY <1>1 DEF Start, Preserves
<1>2. CASE Next /\ ~Start
  <2>1. /\ Preserves(fs, fs', given', flags.decompress) /\ given \subseteq given'
        /\ pc \notin {"killed", "exit1"} /\ UNCHANGED <<flags, args, before>>
    BY <1>2, StepPreserves
  <2>2. Preserves(before, fs, given, flags.decompress)
    BY <2>1 DEF IInv, Kept
  <2>3. \A k \in Name : FileOK(fs'[k])
    BY TypeStep DEF TypeOK, FileOK
  <2>4. flags.decompress \in BOOLEAN
    BY <1>0 DEF Flags
  <2> QED  BY <1>0, <2>1, <2>2, <2>3, <2>4, PreservesTwice
<1>3. CASE UNCHANGED vars
  BY <1>3 DEF vars, IInv, Kept
<1> QED  BY <1>1, <1>2, <1>3

\* A step keeps the arguments done accounted for; the one just finished is, by its
\* output (main.go:81-110).
LEMMA DoneStep == ASSUME IInv, [Next]_vars PROVE Done'
<1> SUFFICES ASSUME pc' \notin {"killed", "exit1"}, ~Streams',
                    NEW j \in 1..Len(args'), j < i'
             PROVE  Accounted(before'[args'[j]], fs', given', flags'.decompress)
  BY DEF Done
<1>0. /\ TypeOK /\ Len(args) \in Nat /\ \A k \in Name : FileOK(before[k]) /\ FileOK(fs[k])
      /\ flags \in Flags /\ flags.decompress \in BOOLEAN
  BY Types DEF IInv, TypeOK, OtherTypes, Flags
<1>1. CASE Start
  BY <1>1 DEF Start
<1>2. CASE Next /\ ~Start
  <2>1. /\ Preserves(fs, fs', given', flags.decompress) /\ given \subseteq given'
        /\ pc \notin {"killed", "exit1"} /\ UNCHANGED <<flags, args, before>>
    BY <1>2, StepPreserves
  <2>2. ~Streams
    BY <2>1 DEF Streams
  <2>3. \A k \in Name : FileOK(fs'[k])
    BY TypeStep DEF TypeOK, FileOK
  <2>4. args[j] \in Name /\ j \in 1..Len(args)
    <3>1. args[j] \in Arg
      BY <1>0, <2>1 DEF TypeOK
    <3> QED  BY <2>1, <3>1, CliAssumption DEF Arg, Name
  <2>5. CASE j < i
    <3>1. Accounted(before[args[j]], fs, given, flags.decompress)
      BY <2>1, <2>2, <2>4, <2>5 DEF IInv, Done
    <3> QED  BY <1>0, <2>1, <2>3, <2>4, <3>1, AccountedStays
  <2>6. CASE ~(j < i)
    <3>1. Finish
      <4>1. i' # i
        BY <2>6
      <4>2. i' # i => Stream \/ Finish
        BY <1>2 DEF Next, Filter, Open, Stat, Create, Copy, Cleanup, CloseOutput, Kill, Goto,
                    OtherMakes
      <4>3. ~Stream
        BY <2>2 DEF IInv, Conversion, Stream
      <4> QED  BY <4>1, <4>2, <4>3
    <3>2. pc = "finish" /\ i' = i + 1 /\ i \in 1..Len(args)
      BY <3>1, AtHand DEF Finish, NextArg, Writing
    <3>3. j = i
      BY <2>4, <2>6, <3>2
    <3>4. args[j] = Input /\ fs[Output] = Converted(fs[Input])
      BY <3>2, <3>3 DEF Input, IInv, Conversion
    <3>5. Output \in Name /\ FileOK(fs[Input])
      BY <3>2, AtHand DEF Writing
    <3>6. Accounted(fs[Input], fs, given, flags.decompress)
      BY <1>0, <3>4, <3>5, ConvertedFurther
    <3>7. Accounted(before[args[j]], fs, given, flags.decompress)
      BY <2>1, <2>4, <3>4, <3>6 DEF IInv, Kept, Preserves
    <3> QED  BY <1>0, <2>1, <2>3, <2>4, <3>7, AccountedStays
  <2> QED  BY <2>5, <2>6
<1>3. CASE UNCHANGED vars
  <2>1. UNCHANGED <<fs, flags, args, i, pc, before, given, Streams>>
    BY <1>3 DEF vars, Streams
  <2> QED  BY <2>1 DEF IInv, Done
<1> QED  BY <1>1, <1>2, <1>3

-----------------------------------------------------------------------------
(* The invariant, and what follows from it. *)

\* The first files and the idle command satisfy it.
LEMMA InitInv == Init => IInv
<1> SUFFICES ASSUME Init PROVE IInv
  OBVIOUS
<1>1. DOMAIN fs = Name /\ before = fs
  BY DEF Init
<1>2. \A k \in Name : FileOK(fs[k])
  <2>1. PICK f \in [Name -> {Absent} \cup {Data(k, z) : k \in Name, z \in {0, 1}}] :
           fs = f /\ \A k \in Name : f[k] # Absent => k \in Arg /\ f[k].of = k
    BY DEF Init
  <2> QED  BY <2>1, Kinds DEF FileOK, Origin
<1>3. leftBehind \in BOOLEAN /\ unseen \in BOOLEAN
  BY DEF Init
<1>4. flags \in Flags /\ args = << >> /\ i = 1 /\ pc = "exit0" /\ given = {}
  BY DEF Init, Flags
<1>5. args \in Seq(Arg) /\ Len(args) = 0
  BY <1>4
<1>6. TypeOK
  BY <1>1, <1>2, <1>3, <1>4, <1>5 DEF TypeOK, FileOK, Ended
<1>7. Placed
  BY <1>4, <1>5 DEF Placed, Writing
<1>8. Conversion
  BY <1>4 DEF Conversion, Writing
<1>9. Leftovers /\ Kept
  BY <1>1 DEF Leftovers, Kept, Preserves
<1>10. Done
  BY <1>5 DEF Done
<1>11. DOMAIN before = Name /\ \A k \in Name : FileOK(before[k])
  BY <1>1, <1>2
<1> QED  BY <1>3, <1>6, <1>7, <1>8, <1>9, <1>10, <1>11 DEF IInv

\* Every step keeps it.
LEMMA NextInv == IInv /\ [Next]_vars => IInv'
<1> SUFFICES ASSUME IInv, [Next]_vars PROVE IInv'
  OBVIOUS
<1> QED
  BY TypeStep, PlacedStep, ConversionStep, LeftoversStep, KeptStep, DoneStep DEF IInv

\* The inductive invariant holds throughout.
THEOREM Invariance == Spec => []IInv
<1> QED  BY InitInv, NextInv, PTL DEF Spec

\* The files, the flags and the place in the program are what their types say, for any
\* number of arguments and invocations (main.go:23-232).
THEOREM TypeCorrect == Spec => []TypeOK
<1>1. IInv => TypeOK
  BY DEF IInv
<1> QED  BY <1>1, Invariance, PTL

\* The conversion that fails leaves no torn file, unless closing or removing it failed,
\* however many files were converted before it (main.go:153-157, 214-218).
THEOREM NoTornFile == Spec => []NoLeftover
<1>1. IInv => NoLeftover
  BY DEF IInv, Leftovers, NoLeftover
<1> QED  BY <1>1, Invariance, PTL

\* After exit status 0 the data of every argument is in a complete file with a layer
\* more, or less, than it had, or it was written over - whichever arguments are given
\* twice or are each other's outputs (main.go:97-110).
THEOREM ExitStatus == Spec => []SuccessMeansConverted
<1>1. ASSUME IInv PROVE SuccessMeansConverted
  <2> SUFFICES ASSUME pc = "exit0", ~flags.test, ~flags.stdout, NEW j \in DOMAIN args
               PROVE  Accounted(before[args[j]], fs, given, flags.decompress)
    BY DEF SuccessMeansConverted, Accounted, Further
  <2>1. Len(args) \in Nat /\ j \in 1..Len(args) /\ i = Len(args) + 1
    BY <1>1 DEF IInv, TypeOK, Placed
  <2>2. j < i
    BY <2>1
  <2> QED  BY <1>1, <2>1, <2>2 DEF IInv, Done, Streams
<1> QED  BY <1>1, Invariance, PTL

\* Where every file's data has a place afterwards, no origin is lost.
LEMMA OriginsStay ==
    ASSUME NEW f, NEW g,
           \A k \in Name : IsData(f[k]) =>
              \E m \in Name : IsData(g[m]) /\ g[m].of = f[k].of
    PROVE  Origins(f) \subseteq Origins(g)
  BY DEF Origins

\* Whichever call fails, Stat too, whenever the process is killed and whatever files another
\* process makes, data stays in a complete file - but for the one output that is written
\* over with -f, or without it because Stat failed on it or it was made after Stat had
\* looked; and of that one only what was in it is lost (main.go:142-180, 203-230).
THEOREM DataIsSafe == Spec => DataSafe
<1>1. ASSUME IInv, [Next]_vars
      PROVE  Origins(fs) \ GivenUp \subseteq Origins(fs')
  <2>0. TypeOK /\ Conversion
    BY <1>1 DEF IInv
  <2>a. CASE fs' = fs
    BY <2>a DEF Origins
  <2>b. ASSUME NEW at \in Name, ~IsData(fs[at]),
               \A k \in Name : k # at => fs'[k] = fs[k]
        PROVE  Origins(fs) \subseteq Origins(fs')
    BY <2>b, OriginsStay
  <2>c. ASSUME NEW at \in Name, NEW keeper \in Name, keeper # at,
               fs[keeper].of = fs[at].of, fs[keeper].kind = "data",
               \A k \in Name : k # at => fs'[k] = fs[k]
        PROVE  Origins(fs) \subseteq Origins(fs')
    <3>1. \A k \in Name : IsData(fs[k]) =>
             \E m \in Name : IsData(fs'[m]) /\ fs'[m].of = fs[k].of
      BY <2>c DEF IsData
    <3> QED  BY <3>1, OriginsStay
  <2>1. CASE Start \/ Filter \/ Open \/ Stream \/ Stat \/ Kill
    BY <2>1, <2>a DEF Start, Filter, Open, Stream, Stat, Kill, fileVars
  <2>2. CASE Create
    <3>1. /\ pc = "create" /\ Output \in Name /\ DOMAIN fs = Name
          /\ flags.force \/ unseen \/ fs[Output] = Absent
      BY <1>1, <2>0, <2>2, AtHand DEF Create, Conversion, Writing
    <3>2. fs' = fs \/ fs' = [fs EXCEPT ![Output] = Torn]
      BY <2>2 DEF Create, fileVars
    <3>3. CASE fs' = fs
      BY <2>a, <3>3
    <3>4. CASE fs' = [fs EXCEPT ![Output] = Torn] /\ ~IsData(fs[Output])
      <4>1. \A k \in Name : k # Output => fs'[k] = fs[k]
        BY <3>1, <3>4
      <4> QED  BY <2>b, <3>1, <3>4, <4>1
    <3>5. CASE fs' = [fs EXCEPT ![Output] = Torn] /\ IsData(fs[Output])
      <4>1. flags.force \/ unseen
        BY <3>1, <3>5, Kinds
      <4>2. GivenUp = {fs[Output].of}
        BY <3>1, <3>5, <4>1 DEF GivenUp, Holds, IsData
      <4>3. \A k \in Name : k # Output => fs'[k] = fs[k]
        BY <3>1, <3>5
      <4> QED  BY <3>1, <4>2, <4>3 DEF Origins
    <3> QED  BY <3>2, <3>3, <3>4, <3>5
  <2>3. CASE Copy \/ Cleanup
    <3>1. fs[Output] = Torn /\ Output \in Name /\ DOMAIN fs = Name
      BY <1>1, <2>0, <2>3, AtHand DEF Copy, Cleanup, Conversion, Writing
    <3>2. \A k \in Name : k # Output => fs'[k] = fs[k]
      BY <2>3, <3>1 DEF Copy, Cleanup
    <3> QED  BY <2>b, <3>1, <3>2, Kinds
  <2>4. CASE CloseOutput \/ Finish
    <3>1. /\ fs[Output] = Converted(fs[Input]) /\ fs[Input] # Absent
          /\ Input \in Name /\ Output \in Name /\ Input # Output /\ FileOK(fs[Input])
          /\ DOMAIN fs = Name
      BY <1>1, <2>0, <2>4, AtHand DEF CloseOutput, Finish, Conversion, Writing
    <3>2. fs[Output].kind = "data"
      BY <3>1, Kinds DEF Converted
    <3>3. fs[Output].of = IF fs[Input] = Torn THEN Worthless ELSE fs[Input].of
      BY <3>1, Kinds DEF Converted
    <3>4. CASE fs[Input] = Torn /\ CloseOutput
      <4>1. ~IsData(fs[Output])
        BY <3>3, <3>4 DEF IsData
      <4>2. \A k \in Name : k # Output => fs'[k] = fs[k]
        BY <3>1, <3>4 DEF CloseOutput
      <4> QED  BY <2>b, <3>1, <4>1, <4>2
    <3>5. CASE fs[Input] = Torn /\ Finish
      <4>1. \A k \in Name : k # Input => fs'[k] = fs[k]
        BY <3>1, <3>5 DEF Finish
      <4> QED  BY <2>b, <3>1, <3>5, <4>1, Kinds
    <3>6. CASE fs[Input] # Torn /\ CloseOutput
      <4>1. fs[Input].kind = "data" /\ fs[Input].of = fs[Output].of
        BY <3>1, <3>3, <3>6 DEF FileOK
      <4>2. \A k \in Name : k # Output => fs'[k] = fs[k]
        BY <3>1, <3>6 DEF CloseOutput
      <4> QED  BY <2>c, <3>1, <4>1, <4>2
    <3>7. CASE fs[Input] # Torn /\ Finish
      <4>1. fs[Input].of = fs[Output].of
        BY <3>3, <3>7
      <4>2. \A k \in Name : k # Input => fs'[k] = fs[k]
        BY <3>1, <3>7 DEF Finish
      <4> QED  BY <2>c, <3>1, <3>2, <4>1, <4>2
    <3> QED  BY <2>4, <3>4, <3>5, <3>6, <3>7
  <2>5. CASE OtherMakes
    <3>1. PICK m \in Name : fs[m] = Absent /\ \A k \in Name : k # m => fs'[k] = fs[k]
      BY <1>1, <2>5, OneMore
    <3> QED  BY <2>b, <3>1, Kinds
  <2>6. CASE UNCHANGED vars
    BY <2>6, <2>a DEF vars
  <2> QED  BY <1>1, <2>1, <2>2, <2>3, <2>4, <2>5, <2>6 DEF Next
<1>2. IInv /\ [Next]_vars => [Origins(fs) \ GivenUp \subseteq Origins(fs')]_vars
  BY <1>1
<1> QED  BY <1>2, Invariance, PTL DEF Spec, DataSafe

\* When Stat does not fail on a file that is there and no other process makes files, only
\* -f loses data: those two are all that stands against the message that an output file
\* already exists (main.go:142-146, 203-207).
THEOREM OnlyForce ==
    ASSUME ~StatMayFail, ~OthersMayMake
    PROVE  Spec => OnlyForceOverwrites
<1>1. Init => ~unseen
  BY DEF Init
<1>2. ~unseen /\ [Next]_vars => ~unseen'
  <2> SUFFICES ASSUME ~unseen, [Next]_vars PROVE ~unseen'
    OBVIOUS
  <2>1. CASE Stat
    BY <2>1 DEF Stat, StatOutcomes
  <2>2. CASE UNCHANGED vars
    BY <2>2 DEF vars
  <2> QED
    BY <2>1, <2>2 DEF Next, Start, Filter, Open, Stream, Create, Copy, Cleanup, CloseOutput,
                      Finish, Kill, OtherMakes, fileVars
<1>3. [Origins(fs) \ GivenUp \subseteq Origins(fs')]_vars /\ ~unseen
      => [~flags.force => Origins(fs) \subseteq Origins(fs')]_vars
  BY DEF GivenUp
<1>4. Spec => []~unseen
  BY <1>1, <1>2, PTL DEF Spec
<1> QED  BY <1>3, <1>4, DataIsSafe, PTL DEF DataSafe, OnlyForceOverwrites
=============================================================================
