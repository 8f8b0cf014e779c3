---------------------------------- MODULE Cli ----------------------------------
(***************************************************************************)
(* The command gobzip2 (cmd/gobzip2/main.go) on the files of a directory:  *)
(* every file argument is replaced by its converted file, through a chain  *)
(* of system calls each of which may fail, in a process that may be killed *)
(* between any two of them and started again, while another process makes  *)
(* files in the directory.                                                 *)
(*                                                                         *)
(* A name is the number of ".bz2" suffixes it ends in; -1 is the name      *)
(* ending in ".out" that a name without the suffix is decompressed to.     *)
(* Contents are complete - whose data they hold, and compressed how many   *)
(* times - or the torn result of a conversion that was cut short.  The     *)
(* command without arguments is a filter and touches no file.              *)
(***************************************************************************)
EXTENDS Integers, Sequences

CONSTANTS MaxSuffix,    \* arguments end in at most so many suffixes
          MaxArgs,      \* bound: arguments of an invocation
          MaxRuns,      \* bound: invocations
          StatMayFail,  \* whether Stat may fail on a file that is there
          OthersMayMake \* whether another process may make files

ASSUME CliAssumption ==
    /\ MaxSuffix \in Nat /\ MaxArgs \in Nat \ {0} /\ MaxRuns \in Nat
    /\ StatMayFail \in BOOLEAN /\ OthersMayMake \in BOOLEAN

Arg == 0..MaxSuffix
Name == -1..MaxSuffix + 1
Worthless == -2         \* the origin of the data of a torn file
Foreign == -3           \* the origin of the data of a file another process made
Origin == Arg \cup {Worthless, Foreign}

Absent == [kind |-> "absent"]
Torn == [kind |-> "torn"]
Data(origin, layers) == [kind |-> "data", of |-> origin, layers |-> layers]

VARIABLES
    fs,                 \* the files
    flags,              \* -d, -t, -c, -f, -k of this invocation
    args, i,            \* its arguments, and the one at hand
    pc,                 \* where it stands; "exit0", "exit1" or "killed" at the end
    runs,               \* invocations so far
    before,             \* history: the files when this invocation began
    given,              \* history: the origins of files truncated by Create
    leftBehind,         \* history: a Close or Remove of an output failed in this run
    unseen              \* history: there is an output that Stat did not report, because
                        \* it failed or the file was made afterwards

fileVars == <<fs, given, leftBehind, unseen>>
runVars == <<flags, args, runs, before>>
vars == <<fs, flags, args, i, pc, runs, before, given, leftBehind, unseen>>

\* -t turns decompression on.
Flags == {f \in [decompress : BOOLEAN, test : BOOLEAN, stdout : BOOLEAN,
                 force : BOOLEAN, keep : BOOLEAN] : f.test => f.decompress}

Ended == {"exit0", "exit1", "killed"}

Input == args[i]
\* name + ".bz2"; without the suffix, or name + ".out" where there is none.
Output == IF flags.decompress THEN Input - 1 ELSE Input + 1

\* What a stored file becomes; a torn one is data, of no worth, to the compressor.
Layers(file) == file.layers + (IF flags.decompress THEN -1 ELSE 1)
Converted(file) ==
    IF file = Torn THEN Data(Worthless, 1) ELSE Data(file.of, Layers(file))

\* The reader finds no bzip2 data in a plain file and the end too early in a torn one.
ConvertsAny(file) == file # Torn
Converts(file) == flags.decompress => file # Torn /\ file.layers > 0

Init ==
    /\ fs \in {f \in [Name -> {Absent} \cup {Data(k, z) : k \in Name, z \in {0, 1}}] :
                 \A k \in Name : f[k] # Absent => k \in Arg /\ f[k].of = k}
    /\ flags = [decompress |-> FALSE, test |-> FALSE, stdout |-> FALSE,
                force |-> FALSE, keep |-> FALSE]
    /\ args = << >> /\ i = 1
    /\ pc = "exit0"
    /\ runs = 0
    /\ before = fs
    /\ given = {}
    /\ leftBehind = FALSE /\ unseen = FALSE

\* The command is started.
Start ==
    /\ pc \in Ended
    /\ runs < MaxRuns
    /\ runs' = runs + 1
    /\ flags' \in Flags
    /\ \E n \in 0..MaxArgs : args' \in [1..n -> Arg]
    /\ i' = 1
    /\ pc' = IF args' = << >> THEN "filter" ELSE "open"
    /\ before' = fs
    /\ leftBehind' = FALSE /\ unseen' = FALSE
    /\ UNCHANGED <<fs, given>>

Goto(where) == pc' = where /\ UNCHANGED <<i, runVars>>
NextArg ==
    /\ i' = i + 1
    /\ pc' = IF i = Len(args) THEN "exit0" ELSE "open"
    /\ UNCHANGED runVars

\* Modes that write no file: -t discards what it decodes, -c sends it to stdout.
Streams == flags.test \/ flags.stdout

\* Without arguments: from stdin to stdout.
Filter ==
    /\ pc = "filter"
    /\ Goto("exit0") \/ Goto("exit1")
    /\ UNCHANGED fileVars

Open ==
    /\ pc = "open"
    /\ \/ Goto("exit1")                 \* absent, or not to be opened
       \/ /\ fs[Input] # Absent
          /\ Goto(IF Streams THEN "stream" ELSE IF flags.force THEN "create" ELSE "stat")
    /\ UNCHANGED fileVars

Stream ==
    /\ pc = "stream"
    /\ \/ Converts(fs[Input]) /\ NextArg
       \/ Goto("exit1")
    /\ UNCHANGED fileVars

StatOutcomes == IF StatMayFail THEN BOOLEAN ELSE {FALSE}

\* "output file already exists": only if Stat succeeds.  Any error of it counts as absence.
RefusesNever(failed) == FALSE
Refuses(failed) == ~failed /\ fs[Output] # Absent

Stat ==
    /\ pc = "stat"
    /\ \E failed \in StatOutcomes :
         /\ Goto(IF Refuses(failed) THEN "exit1" ELSE "create")
         /\ unseen' = (failed /\ fs[Output] # Absent)
    /\ UNCHANGED <<fs, given, leftBehind>>

\* The origin of what is in a file, if anything is.
Holds(n) == IF fs[n].kind = "data" THEN {fs[n].of} ELSE {}

\* os.Create truncates what is there.
Create ==
    /\ pc = "create"
    /\ \/ Goto("exit1") /\ UNCHANGED fileVars
       \/ /\ fs' = [fs EXCEPT ![Output] = Torn]
          /\ given' = given \cup Holds(Output)
          /\ Goto("copy")
          /\ unseen' = FALSE
          /\ UNCHANGED leftBehind

Copy ==
    /\ pc = "copy"
    /\ \/ /\ Converts(fs[Input])
          /\ fs' = [fs EXCEPT ![Output] = Converted(fs[Input])]
          /\ Goto("close")
       \/ Goto("cleanup") /\ UNCHANGED fs
    /\ UNCHANGED <<given, leftBehind, unseen>>

\* After a failed conversion the output goes and the command ends.
AfterCleanupGoOn == "finish"
AfterCleanup == "exit1"
CleanedNot == Torn
Cleaned == Absent

Cleanup ==
    /\ pc = "cleanup"
    /\ Goto(AfterCleanup)
    /\ \/ fs' = [fs EXCEPT ![Output] = Cleaned] /\ UNCHANGED leftBehind
       \/ leftBehind' = TRUE /\ UNCHANGED fs
    /\ UNCHANGED <<given, unseen>>

\* A Close that fails may have lost what was written; the output stays.
AfterCloseErrorGoOn == "finish"
AfterCloseError == "exit1"

CloseOutput ==
    /\ pc = "close"
    /\ \/ Goto("finish") /\ UNCHANGED <<fs, leftBehind>>
       \/ /\ Goto(AfterCloseError)
          /\ fs' \in {fs, [fs EXCEPT ![Output] = Torn]}
          /\ leftBehind' = TRUE
    /\ UNCHANGED <<given, unseen>>

\* The input is removed; an error of Remove is ignored.
Finish ==
    /\ pc = "finish"
    /\ NextArg
    /\ \/ UNCHANGED fs
       \/ ~flags.keep /\ fs' = [fs EXCEPT ![Input] = Absent]
    /\ UNCHANGED <<given, leftBehind, unseen>>

\* The process is killed.
Kill ==
    /\ pc \notin Ended
    /\ Goto("killed")
    /\ UNCHANGED fileVars

\* At any moment another process makes a file where there is none; one file of its data
\* at a time.
OtherMakes ==
    /\ OthersMayMake
    /\ \A n \in Name : fs[n].kind = "data" => fs[n].of # Foreign
    /\ \E n \in Name :
         /\ fs[n] = Absent
         /\ fs' = [fs EXCEPT ![n] = Data(Foreign, 0)]
         /\ unseen' = (unseen \/ (pc = "create" /\ n = Output))
    /\ UNCHANGED <<runVars, i, pc, given, leftBehind>>

Next ==
    \/ Start \/ Filter \/ Open \/ Stream \/ Stat \/ Create \/ Copy \/ Cleanup \/ CloseOutput
    \/ Finish \/ Kill \/ OtherMakes

Spec == Init /\ [][Next]_vars

-----------------------------------------------------------------------------
IsData(file) == file.kind = "data" /\ file.of # Worthless
Origins(files) == {files[k].of : k \in {n \in Name : IsData(files[n])}}

TypeOK ==
    /\ DOMAIN fs = Name
    /\ \A k \in Name : \/ fs[k] \in {Absent, Torn}
                       \/ /\ fs[k].kind = "data"
                          /\ fs[k].of \in Origin
                          /\ fs[k].layers \in Nat
    /\ flags \in Flags
    /\ args \in Seq(Arg) /\ i \in 1..Len(args) + 1
    /\ pc \in Ended \cup {"filter", "open", "stream",
                     "stat", "create", "copy", "cleanup", "close", "finish"}
    /\ given \subseteq Origin
    /\ unseen \in BOOLEAN

\* The one step that may lose data: Create, where -f was given or the file in its way
\* was not seen; and it loses what was in that file, nothing else.
GivenUp == IF pc = "create" /\ (flags.force \/ unseen) THEN Holds(Output) ELSE {}

\* Whichever call fails, whenever the process is killed and whatever files others make,
\* data that was there stays there, plain or compressed, in a complete file - but for the
\* one output that -f has written over, or that is written over because Stat failed on it
\* or another process made it after Stat had looked (main.go:142-180, 203-230).
DataSafe == [][Origins(fs) \ GivenUp \subseteq Origins(fs')]_vars

\* Without -f no data is lost (main.go:37: "force overwrite"; main.go:144, 205: "output
\* file %s already exists").
OnlyForceOverwrites == [][~flags.force => Origins(fs) \subseteq Origins(fs')]_vars

\* Exit status 0 means that every argument was converted: its data is in a complete
\* file with a layer more, or less, than it had (main.go:97-110).
SuccessMeansConverted ==
    pc = "exit0" /\ ~flags.test /\ ~flags.stdout =>
      \A j \in DOMAIN args :
        LET old == before[args[j]]
        IN  IsData(old) =>
              \/ old.of \in given
              \/ \E n \in Name :
                   /\ IsData(fs[n]) /\ fs[n].of = old.of
                   /\ IF flags.decompress THEN fs[n].layers < old.layers
                                          ELSE fs[n].layers > old.layers

\* A conversion that fails leaves no torn file, unless closing or removing it failed
\* (main.go:153-157, 214-218).
NoLeftover ==
    pc \in {"exit0", "exit1"} /\ ~leftBehind =>
      \A n \in Name : fs[n] = Torn => before[n] = Torn
=============================================================================
