---------------------------- MODULE SelfBuildProofs ----------------------------
(***************************************************************************)
(* Proofs about SelfBuild, for any number of processes of either binding,  *)
(* of sources and of processes that are stopped.                           *)
(***************************************************************************)
EXTENDS SelfBuild, TLAPS

Beginning == {"check", "clear", "rmdir", "create"}

\* Before its first source a process is at that source and has missed none.
StartInv == \A p \in Procs : pc[p] \in Beginning => k[p] = 1 /\ p \notin missed

\* What a process that builds alone has done so far is still there.
Lone(p) ==
    /\ \A q \in Procs \ {p} : pc[q] \in Over
    /\ pc[p] \notin {"check", "failed"}
    /\ pc[p] = "rmdir" => Empty
    /\ pc[p] = "create" => ~ dir
    /\ pc[p] \in {"open", "write", "compile", "link"} => dir
    /\ pc[p] \in {"open", "write"} => p \notin missed /\ \A f \in 1 .. k[p] - 1 : files[f] = Whole
    /\ pc[p] = "write" => files[k[p]] = Half(p)
    /\ pc[p] = "compile" => \A f \in 1 .. NFiles : files[f] = Whole
    /\ pc[p] \in {"compile", "link"} => seen[p] = gen
    /\ pc[p] = "fetch" => artifact
    /\ pc[p] = "copying" => lib = Half(p)
    /\ pc[p] = "done" => got[p] = "whole" \/ (got[p] = "half" /\ pc[lib.by] = "dead")

Inv == TypeOK /\ StartInv /\ HalfOnlyFromCopy /\ \A p \in alone : Lone(p)

-----------------------------------------------------------------------------
\* What the states of a file are: told apart by both of their parts.
LEMMA FileFacts ==
  /\ None # Whole
  /\ \A p \in Procs : /\ Half(p) # None /\ Half(p) # Whole
                      /\ Half(p).by = p /\ Half(p).st = "half"
                      /\ Written(Half(p), p) = Whole
  /\ \A f \in File, p \in Procs : Written(f, p) \in File
  /\ None \in File /\ Whole \in File /\ \A p \in Procs : Half(p) \in File
  /\ \A f \in File : /\ f.st \in {"none", "half", "whole"}
                     /\ f # None /\ f # Whole => f.st = "half" /\ f.by \in Procs /\ f = Half(f.by)
                     /\ f = Whole => f.st = "whole"
<1>1. None.st = "none" /\ Whole.st = "whole"
  BY DEF None, Whole
<1>2. None # Whole
  BY <1>1
<1>3. \A p \in Procs : Half(p).by = p /\ Half(p).st = "half"
  BY DEF Half
<1>4. \A p \in Procs : Half(p) # None /\ Half(p) # Whole
  BY <1>1, <1>3
<1>5. None \in File /\ Whole \in File /\ \A p \in Procs : Half(p) \in File
  BY DEF File
<1>6. \A f \in File : f = None \/ f = Whole \/ \E p \in Procs : f = Half(p)
  BY DEF File
<1>7. \A p \in Procs : Written(Half(p), p) = Whole
  BY DEF Written
<1>8. \A f \in File, p \in Procs : Written(f, p) \in File
  BY <1>5 DEF Written
<1>9. ASSUME NEW f \in File
      PROVE  /\ f.st \in {"none", "half", "whole"}
             /\ f # None /\ f # Whole => f.st = "half" /\ f.by \in Procs /\ f = Half(f.by)
             /\ f = Whole => f.st = "whole"
  <2>1. CASE f = None
    BY <2>1, <1>1, <1>2
  <2>2. CASE f = Whole
    BY <2>2, <1>1, <1>2
  <2>3. ASSUME NEW p \in Procs, f = Half(p) PROVE f.st = "half" /\ f.by = p
    BY <2>3, <1>3
  <2> QED
    BY <2>1, <2>2, <2>3, <1>4, <1>6
<1> QED
  BY <1>2, <1>3, <1>4, <1>5, <1>7, <1>8, <1>9

LEMMA InitInv == Init => Inv
<1> SUFFICES ASSUME Init PROVE Inv
  OBVIOUS
<1>1. TypeOK
  <2>1. files \in [1 .. NFiles -> File] /\ lib \in File
    BY FileFacts DEF Init
  <2>2. 1 \in 1 .. NFiles /\ 0 \in 0 .. MaxCrashes
    BY BuildAssumption
  <2>3. k \in [Procs -> 1 .. NFiles] /\ pc \in [Procs -> Stages]
    BY <2>2 DEF Init, Stages
  <2>4. dir \in BOOLEAN /\ artifact \in BOOLEAN
    BY Zenon DEF Init
  <2>5. /\ missed \subseteq Procs /\ seen \in [Procs -> Nat] /\ gen \in Nat
        /\ got \in [Procs -> {"none", "half", "whole"}] /\ alone \subseteq Procs
    BY DEF Init
  <2>6. crashes \in 0 .. MaxCrashes
    BY <2>2 DEF Init
  <2> QED
    BY <2>1, <2>3, <2>4, <2>5, <2>6 DEF TypeOK
<1>2. StartInv /\ HalfOnlyFromCopy /\ \A p \in alone : Lone(p)
  BY DEF Init, StartInv, HalfOnlyFromCopy
<1> QED
  BY <1>1, <1>2 DEF Inv

\* The step of a process p leaves every other process where it is, so what is
\* known of a process alone concerns p itself.
LEMMA OnlyOneMoves ==
  ASSUME Inv, NEW p \in Procs, pc[p] \notin Over, NEW q \in alone
  PROVE  q = p
BY DEF Inv, Lone, TypeOK

-----------------------------------------------------------------------------
LEMMA CheckStep ==
  ASSUME Inv, NEW p \in Procs, Check(p)
  PROVE  Inv'
<1>1. TypeOK'
  BY FileFacts DEF Inv, TypeOK, Check, At, Goto, Return, tree, Stages
<1>2. StartInv'
  BY DEF Inv, TypeOK, StartInv, Check, At, Goto, Return, Beginning
<1>3. HalfOnlyFromCopy'
  BY FileFacts DEF Inv, TypeOK, HalfOnlyFromCopy, Check, At, Goto, Return
<1>4. ASSUME NEW q \in alone' PROVE Lone(q)'
  <2>1. q = p /\ \A r \in Procs \ {p} : pc[r] \in Over
    BY OnlyOneMoves DEF Inv, TypeOK, Check, At, Over
  <2>2. CASE lib = None
    BY <2>1, <2>2 DEF Inv, TypeOK, Check, At, Goto, Lone, Over
  <2>3. CASE lib # None
    <3>1. pc' = [pc EXCEPT ![p] = "done"] /\ got' = [got EXCEPT ![p] = lib.st] /\ lib' = lib
      BY <2>3 DEF Check, Return, Goto
    <3>2. lib.st = "whole" \/ (lib.st = "half" /\ pc'[lib.by] = "dead")
      BY <2>1, <2>3, <3>1, FileFacts
        DEF Inv, TypeOK, HalfOnlyFromCopy, Check, At, Over
    <3> QED
      BY <2>1, <3>1, <3>2 DEF Inv, TypeOK, Lone, Over
  <2> QED
    BY <2>2, <2>3
<1> QED
  BY <1>1, <1>2, <1>3, <1>4 DEF Inv

LEMMA ClearStep ==
  ASSUME Inv, NEW p \in Procs, Clear(p)
  PROVE  Inv'
<1>1. TypeOK'
  <2>1. dir' \in BOOLEAN /\ artifact' \in BOOLEAN
    BY Zenon DEF Inv, TypeOK, Clear
  <2>2. files' \in [1 .. NFiles -> File]
    BY FileFacts DEF Clear
  <2> QED
    BY <2>1, <2>2 DEF Inv, TypeOK, Clear, At, Goto, Stages
<1>2. StartInv'
  BY DEF Inv, TypeOK, StartInv, Clear, At, Goto, Beginning
<1>3. HalfOnlyFromCopy'
  BY FileFacts DEF Inv, TypeOK, HalfOnlyFromCopy, Clear, At, Goto
<1>4. ASSUME NEW q \in alone' PROVE Lone(q)'
  <2>1. q = p /\ q \in alone /\ Lone(p)
    BY OnlyOneMoves DEF Inv, TypeOK, Clear, At, Over
  <2> QED
    BY <2>1 DEF Inv, TypeOK, Lone, Clear, At, Goto, Over, Empty
<1> QED
  BY <1>1, <1>2, <1>3, <1>4 DEF Inv

LEMMA RemoveDirStep ==
  ASSUME Inv, NEW p \in Procs, RemoveDir(p)
  PROVE  Inv'
<1>1. TypeOK'
  BY FileFacts DEF Inv, TypeOK, RemoveDir, At, Goto, Stages
<1>2. StartInv'
  BY DEF Inv, TypeOK, StartInv, RemoveDir, At, Goto, Beginning
<1>3. HalfOnlyFromCopy'
  BY FileFacts DEF Inv, TypeOK, HalfOnlyFromCopy, RemoveDir, At, Goto
<1>4. ASSUME NEW q \in alone' PROVE Lone(q)'
  <2>1. q = p /\ q \in alone /\ Lone(p)
    BY OnlyOneMoves DEF Inv, TypeOK, RemoveDir, At, Over
  <2> QED
    BY <2>1 DEF Inv, TypeOK, Lone, RemoveDir, At, Goto, Over
<1> QED
  BY <1>1, <1>2, <1>3, <1>4 DEF Inv

LEMMA CreateStep ==
  ASSUME Inv, NEW p \in Procs, Create(p)
  PROVE  Inv'
<1>1. TypeOK'
  BY FileFacts DEF Inv, TypeOK, Create, At, Goto, Stages
<1>2. StartInv'
  BY DEF Inv, TypeOK, StartInv, Create, At, Goto, Beginning
<1>3. HalfOnlyFromCopy'
  BY FileFacts DEF Inv, TypeOK, HalfOnlyFromCopy, Create, At, Goto
<1>4. ASSUME NEW q \in alone' PROVE Lone(q)'
  <2>1. q = p /\ q \in alone /\ Lone(p) /\ k[p] = 1 /\ p \notin missed
    BY OnlyOneMoves DEF Inv, TypeOK, StartInv, Create, At, Over, Beginning
  <2> QED
    BY <2>1 DEF Inv, TypeOK, Lone, Create, At, Goto, Over
<1> QED
  BY <1>1, <1>2, <1>3, <1>4 DEF Inv

LEMMA OpenStep ==
  ASSUME Inv, NEW p \in Procs, Open(p)
  PROVE  Inv'
<1>1. TypeOK'
  <2>1. k' \in [Procs -> 1 .. NFiles]
    BY BuildAssumption DEF Inv, TypeOK, Open, NextFile
  <2>2. files' \in [1 .. NFiles -> File]
    BY FileFacts DEF Inv, TypeOK, Open, NextFile
  <2>3. dir' \in BOOLEAN /\ artifact' \in BOOLEAN
    BY Zenon DEF Inv, TypeOK, Open, tree
  <2>4. pc' \in [Procs -> Stages]
    BY DEF Inv, TypeOK, Open, NextFile, Goto, Stages
  <2> QED
    BY <2>1, <2>2, <2>3, <2>4 DEF Inv, TypeOK, Open, NextFile
<1>2. StartInv'
  BY DEF Inv, TypeOK, StartInv, Open, NextFile, At, Goto, Beginning
<1>3. HalfOnlyFromCopy'
  BY FileFacts DEF Inv, TypeOK, HalfOnlyFromCopy, Open, NextFile, At, Goto
<1>4. ASSUME NEW q \in alone' PROVE Lone(q)'
  <2>1. q = p /\ q \in alone /\ Lone(p)
    BY OnlyOneMoves DEF Inv, TypeOK, Open, At, Over
  <2>2. dir /\ files' = [files EXCEPT ![k[p]] = Half(p)] /\ pc' = [pc EXCEPT ![p] = "write"]
        /\ UNCHANGED <<k, missed, seen, dir, gen, artifact, lib, got>>
    BY <2>1 DEF Lone, Open, At, Goto
  <2>3. k[p] \in 1 .. NFiles /\ files'[k[p]] = Half(p)
        /\ \A f \in 1 .. k[p] - 1 : files'[f] = files[f]
    BY <2>2, BuildAssumption DEF Inv, TypeOK
  <2>4. p \notin missed /\ \A f \in 1 .. k[p] - 1 : files[f] = Whole
    BY <2>1 DEF Lone, Open, At
  <2> QED
    BY <2>1, <2>2, <2>3, <2>4 DEF Inv, TypeOK, Lone, Over
<1> QED
  BY <1>1, <1>2, <1>3, <1>4 DEF Inv

LEMMA WriteStep ==
  ASSUME Inv, NEW p \in Procs, Write(p)
  PROVE  Inv'
<1>1. TypeOK'
  <2>1. k' \in [Procs -> 1 .. NFiles]
    <3>1. \/ k[p] < NFiles /\ k' = [k EXCEPT ![p] = k[p] + 1]
          \/ k' = [k EXCEPT ![p] = 1]
      BY DEF Write, NextFile
    <3>2. k[p] < NFiles => k[p] + 1 \in 1 .. NFiles
      BY BuildAssumption DEF Inv, TypeOK
    <3> QED
      BY <3>1, <3>2, BuildAssumption DEF Inv, TypeOK
  <2>2. files' \in [1 .. NFiles -> File]
    BY FileFacts DEF Inv, TypeOK, Write, NextFile
  <2>3. dir' \in BOOLEAN /\ artifact' \in BOOLEAN
    BY Zenon DEF Inv, TypeOK, Write, tree
  <2>4. pc' \in [Procs -> Stages]
    BY DEF Inv, TypeOK, Write, NextFile, Goto, Stages
  <2> QED
    BY <2>1, <2>2, <2>3, <2>4 DEF Inv, TypeOK, Write, NextFile
<1>2. StartInv'
  BY DEF Inv, TypeOK, StartInv, Write, NextFile, At, Goto, Beginning
<1>3. HalfOnlyFromCopy'
  BY FileFacts DEF Inv, TypeOK, HalfOnlyFromCopy, Write, NextFile, At, Goto
<1>4. ASSUME NEW q \in alone' PROVE Lone(q)'
  <2>1. q = p /\ q \in alone /\ Lone(p)
    BY OnlyOneMoves DEF Inv, TypeOK, Write, At, Over
  <2>2. /\ dir /\ p \notin missed /\ files[k[p]] = Half(p)
        /\ \A f \in 1 .. k[p] - 1 : files[f] = Whole
        /\ k[p] \in 1 .. NFiles /\ missed' = missed
        /\ \A r \in Procs \ {p} : pc[r] \in Over
    BY <2>1 DEF Inv, TypeOK, Lone, Write, At
  <2>3. files' = [files EXCEPT ![k[p]] = Whole]
    BY <2>2, FileFacts DEF Write
  <2>4. \A f \in 1 .. k[p] : files'[f] = Whole
    BY <2>2, <2>3, BuildAssumption DEF Inv, TypeOK
  <2>5. CASE k[p] < NFiles
    <3>1. pc' = [pc EXCEPT ![p] = "open"] /\ k' = [k EXCEPT ![p] = k[p] + 1]
      BY <2>5 DEF Write, NextFile, Goto
    <3>2. k'[p] - 1 = k[p] /\ pc'[p] = "open" /\ \A r \in Procs \ {p} : pc'[r] = pc[r]
      BY <3>1, <2>2, BuildAssumption DEF Inv, TypeOK
    <3> QED
      BY <2>1, <2>2, <2>4, <3>2 DEF Lone, Write, Over
  <2>6. CASE ~ (k[p] < NFiles)
    <3>1. pc' = [pc EXCEPT ![p] = "compile"] /\ seen' = [seen EXCEPT ![p] = gen]
      BY <2>2, <2>6 DEF Write, NextFile, Goto
    <3>2. k[p] = NFiles
      BY <2>2, <2>6, BuildAssumption
    <3>3. \A f \in 1 .. NFiles : files'[f] = Whole
      BY <2>4, <3>2
    <3>4. pc'[p] = "compile" /\ seen'[p] = gen /\ \A r \in Procs \ {p} : pc'[r] = pc[r]
      BY <3>1 DEF Inv, TypeOK
    <3> QED
      BY <2>1, <2>2, <3>3, <3>4 DEF Lone, Write, Over
  <2> QED
    BY <2>5, <2>6
<1> QED
  BY <1>1, <1>2, <1>3, <1>4 DEF Inv

LEMMA CompileStep ==
  ASSUME Inv, NEW p \in Procs, Compile(p)
  PROVE  Inv'
<1>1. TypeOK'
  <2>1. k' \in [Procs -> 1 .. NFiles]
    BY BuildAssumption DEF Inv, TypeOK, Compile
  <2>2. files' \in [1 .. NFiles -> File]
    BY FileFacts DEF Inv, TypeOK, Compile, tree
  <2>3. dir' \in BOOLEAN /\ artifact' \in BOOLEAN
    BY Zenon DEF Inv, TypeOK, Compile, tree
  <2>4. pc' \in [Procs -> Stages]
    BY DEF Inv, TypeOK, Compile, tree, Goto, Stages
  <2> QED
    BY <2>1, <2>2, <2>3, <2>4 DEF Inv, TypeOK, Compile, tree
<1>2. StartInv'
  BY DEF Inv, TypeOK, StartInv, Compile, tree, At, Goto, Beginning
<1>3. HalfOnlyFromCopy'
  BY FileFacts DEF Inv, TypeOK, HalfOnlyFromCopy, Compile, tree, At, Goto
<1>4. ASSUME NEW q \in alone' PROVE Lone(q)'
  <2>1. q = p /\ q \in alone /\ Lone(p)
    BY OnlyOneMoves DEF Inv, TypeOK, Compile, At, Over
  <2> QED
    BY <2>1, FileFacts DEF Inv, TypeOK, Lone, Compile, tree, At, Goto, Over
<1> QED
  BY <1>1, <1>2, <1>3, <1>4 DEF Inv

LEMMA LinkStep ==
  ASSUME Inv, NEW p \in Procs, Link(p)
  PROVE  Inv'
<1>1. TypeOK'
  <2>1. dir' \in BOOLEAN /\ artifact' \in BOOLEAN
    BY Zenon DEF Inv, TypeOK, Link
  <2> QED
    BY <2>1 DEF Inv, TypeOK, Link, Goto, Stages
<1>2. StartInv'
  BY DEF Inv, TypeOK, StartInv, Link, At, Goto, Beginning
<1>3. HalfOnlyFromCopy'
  BY FileFacts DEF Inv, TypeOK, HalfOnlyFromCopy, Link, At, Goto
<1>4. ASSUME NEW q \in alone' PROVE Lone(q)'
  <2>1. q = p /\ q \in alone /\ Lone(p)
    BY OnlyOneMoves DEF Inv, TypeOK, Link, At, Over
  <2> QED
    BY <2>1, FileFacts DEF Inv, TypeOK, Lone, Link, At, Goto, Over
<1> QED
  BY <1>1, <1>2, <1>3, <1>4 DEF Inv

LEMMA NoArtifactStep ==
  ASSUME Inv, NEW p \in Procs, NoArtifact(p)
  PROVE  Inv'
<1>1. TypeOK'
  BY FileFacts DEF Inv, TypeOK, NoArtifact, tree, At, Goto, Stages
<1>2. StartInv'
  BY DEF Inv, TypeOK, StartInv, NoArtifact, tree, At, Goto, Beginning
<1>3. HalfOnlyFromCopy'
  BY FileFacts DEF Inv, TypeOK, HalfOnlyFromCopy, NoArtifact, tree, At, Goto
<1>4. ASSUME NEW q \in alone' PROVE Lone(q)'
  <2>1. q = p /\ q \in alone /\ Lone(p)
    BY OnlyOneMoves DEF Inv, TypeOK, NoArtifact, At, Over
  <2> QED
    BY <2>1, FileFacts DEF Inv, TypeOK, Lone, NoArtifact, tree, At, Goto, Over
<1> QED
  BY <1>1, <1>2, <1>3, <1>4 DEF Inv

LEMMA MoveStep ==
  ASSUME Inv, NEW p \in Procs, Move(p)
  PROVE  Inv'
<1>1. TypeOK'
  BY FileFacts DEF Inv, TypeOK, Move, Return, At, Goto, Stages
<1>2. StartInv'
  BY DEF Inv, TypeOK, StartInv, Move, Return, At, Goto, Beginning
<1>3. HalfOnlyFromCopy'
  BY FileFacts DEF Inv, TypeOK, HalfOnlyFromCopy, Move, Return, At, Goto
<1>4. ASSUME NEW q \in alone' PROVE Lone(q)'
  <2>1. q = p /\ q \in alone /\ Lone(p)
    BY OnlyOneMoves DEF Inv, TypeOK, Move, At, Over
  <2> QED
    BY <2>1, FileFacts DEF Inv, TypeOK, Lone, Move, Return, At, Goto, Over
<1> QED
  BY <1>1, <1>2, <1>3, <1>4 DEF Inv

LEMMA BeginCopyStep ==
  ASSUME Inv, NEW p \in Procs, BeginCopy(p)
  PROVE  Inv'
<1>1. TypeOK'
  BY FileFacts DEF Inv, TypeOK, BeginCopy, tree, At, Goto, Stages
<1>2. StartInv'
  BY DEF Inv, TypeOK, StartInv, BeginCopy, tree, At, Goto, Beginning
<1>3. HalfOnlyFromCopy'
  BY FileFacts DEF Inv, TypeOK, HalfOnlyFromCopy, BeginCopy, tree, At, Goto, Procs
<1>4. ASSUME NEW q \in alone' PROVE Lone(q)'
  <2>1. q = p /\ q \in alone /\ Lone(p)
    BY OnlyOneMoves DEF Inv, TypeOK, BeginCopy, At, Over
  <2> QED
    BY <2>1, FileFacts DEF Inv, TypeOK, Lone, BeginCopy, tree, At, Goto, Over
<1> QED
  BY <1>1, <1>2, <1>3, <1>4 DEF Inv

LEMMA EndCopyStep ==
  ASSUME Inv, NEW p \in Procs, EndCopy(p)
  PROVE  Inv'
<1>1. TypeOK'
  BY FileFacts DEF Inv, TypeOK, EndCopy, tree, Return, At, Goto, Stages
<1>2. StartInv'
  BY DEF Inv, TypeOK, StartInv, EndCopy, tree, Return, At, Goto, Beginning
<1>3. HalfOnlyFromCopy'
  <2>1. CASE lib = Half(p)
    BY <2>1, FileFacts DEF HalfOnlyFromCopy, EndCopy, Written
  <2>2. CASE lib # Half(p)
    <3>1. lib' = lib /\ pc' = [pc EXCEPT ![p] = "done"]
      BY <2>2 DEF EndCopy, Written, Return, Goto
    <3>2. lib # None /\ lib # Whole => lib.by # p
      BY <2>2, FileFacts DEF Inv, TypeOK
    <3> QED
      BY <3>1, <3>2 DEF Inv, TypeOK, HalfOnlyFromCopy
  <2> QED
    BY <2>1, <2>2
<1>4. ASSUME NEW q \in alone' PROVE Lone(q)'
  <2>1. q = p /\ q \in alone /\ Lone(p)
    BY OnlyOneMoves DEF Inv, TypeOK, EndCopy, At, Over
  <2> QED
    BY <2>1, FileFacts DEF Inv, TypeOK, Lone, EndCopy, tree, Return, At, Goto, Over
<1> QED
  BY <1>1, <1>2, <1>3, <1>4 DEF Inv

LEMMA CrashStep ==
  ASSUME Inv, NEW p \in Procs, Crash(p)
  PROVE  Inv'
<1>1. TypeOK'
  <2>1. crashes' \in 0 .. MaxCrashes
    BY BuildAssumption DEF Inv, TypeOK, Crash
  <2> QED
    BY <2>1 DEF Inv, TypeOK, Crash, tree, Goto, Stages
<1>2. StartInv'
  BY DEF Inv, TypeOK, StartInv, Crash, tree, At, Goto, Beginning
<1>3. HalfOnlyFromCopy'
  BY FileFacts DEF Inv, TypeOK, HalfOnlyFromCopy, Crash, tree, At, Goto
<1>4. ASSUME NEW q \in alone' PROVE Lone(q)'
  <2>1. q = p /\ q \in alone /\ Lone(p)
    BY OnlyOneMoves DEF Inv, TypeOK, Crash, At, Over
  <2> QED
    BY <2>1, FileFacts DEF Inv, TypeOK, Lone, Crash, tree, At, Goto, Over
<1> QED
  BY <1>1, <1>2, <1>3, <1>4 DEF Inv

-----------------------------------------------------------------------------
LEMMA NextInv == Inv /\ [Next]_vars => Inv'
<1> SUFFICES ASSUME Inv, [Next]_vars PROVE Inv'
  OBVIOUS
<1>1. ASSUME NEW p \in Procs, Step(p) PROVE Inv'
  BY <1>1, CheckStep, ClearStep, RemoveDirStep, CreateStep, OpenStep, WriteStep,
     CompileStep, LinkStep, NoArtifactStep, MoveStep, BeginCopyStep, EndCopyStep DEF Step
<1>2. ASSUME NEW p \in Procs, Crash(p) PROVE Inv'
  BY <1>2, CrashStep
<1>3. CASE UNCHANGED vars
  BY <1>3 DEF Inv, TypeOK, StartInv, HalfOnlyFromCopy, Lone, Empty, vars
<1> QED
  BY <1>1, <1>2, <1>3 DEF Next, AllOver

LEMMA SpecInv == Spec => []Inv
BY InitInv, NextInv, PTL DEF Spec

\* Every variable keeps its type, whatever the processes of the two bindings do.
THEOREM SelfBuildTypes == Spec => []TypeOK
BY SpecInv, PTL DEF Inv

\* A library in the cache that is not whole is the copy of a Python process that
\* is still copying it or was stopped: the Go binding's rename never shows half.
THEOREM HalfLibraries == Spec => []HalfOnlyFromCopy
BY SpecInv, PTL DEF Inv

\* However many processes failed or were stopped before it, and whatever they
\* left in the directory, a process that builds alone succeeds.
THEOREM LoneBuilds == Spec => []LoneBuildSucceeds
<1>1. Inv => LoneBuildSucceeds
  BY DEF Inv, LoneBuildSucceeds, Lone
<1> QED
  BY <1>1, SpecInv, PTL
===============================================================================
