------------------------------- MODULE SelfBuild -------------------------------
(***************************************************************************)
(* The build on first use: selfBuildLibrary of the Go binding              *)
(* (src/bindings/go/selfbuild.go) and _auto_build_library of the Python    *)
(* one (src/bindings/python/temari/__init__.py).  Each process that finds  *)
(* no library in the cache clears a directory of sources, writes the       *)
(* sources, runs cargo there and puts the artifact into the cache.  On     *)
(* Linux both bindings use ~/.cache/temari/src and                         *)
(* ~/.cache/temari/lib/<platform>, so all processes of a user share one    *)
(* directory, without a lock; any of them may be stopped at any time.      *)
(*                                                                         *)
(* A file that was opened for writing is "half" until the last process that*)
(* truncated it has written it.  cargo is modelled by what it needs: every *)
(* source whole when it is read, and its target directory still there.     *)
(***************************************************************************)
EXTENDS Integers, FiniteSets

CONSTANTS
    Go, Py,         \* the processes of either binding
    NoProc,
    NFiles,         \* the sources, Cargo.toml among them
    MaxCrashes

Procs == Go \cup Py

ASSUME BuildAssumption ==
    /\ Go \cap Py = {} /\ NoProc \notin Procs
    /\ NFiles \in Nat \ {0} /\ MaxCrashes \in Nat

VARIABLES
    pc,
    k,          \* the source a process is at
    missed,     \* the processes that could not write a source (copytree goes on)
    seen,       \* the generation of the directory a build started in
    files, dir, gen, artifact,      \* the directory; gen counts its clearings
    lib,        \* the cached library
    got,        \* what a process returned: the state of the library it will load
    crashes,
    alone       \* history: the processes that began when all others were over

vars == <<pc, k, missed, seen, files, dir, gen, artifact, lib, got, crashes, alone>>
tree == <<files, dir, gen, artifact>>

None    == [st |-> "none", by |-> NoProc]
Whole   == [st |-> "whole", by |-> NoProc]
Half(p) == [st |-> "half", by |-> p]
File    == {None, Whole} \cup {Half(p) : p \in Procs}
Written(f, p) == IF f = Half(p) THEN Whole ELSE f

Stages == {"check", "clear", "rmdir", "create", "open", "write", "compile", "link",
           "fetch", "copying", "done", "failed", "dead"}
Over == {"done", "failed", "dead"}

TypeOK ==
    /\ pc \in [Procs -> Stages] /\ k \in [Procs -> 1 .. NFiles]
    /\ missed \subseteq Procs /\ seen \in [Procs -> Nat]
    /\ files \in [1 .. NFiles -> File] /\ dir \in BOOLEAN /\ gen \in Nat /\ artifact \in BOOLEAN
    /\ lib \in File /\ got \in [Procs -> {"none", "half", "whole"}] /\ crashes \in 0 .. MaxCrashes
    /\ alone \subseteq Procs

Init ==
    /\ pc = [p \in Procs |-> "check"] /\ k = [p \in Procs |-> 1]
    /\ missed = {} /\ seen = [p \in Procs |-> 0]
    /\ files = [f \in 1 .. NFiles |-> None] /\ dir = FALSE /\ gen = 0 /\ artifact = FALSE
    /\ lib = None /\ got = [p \in Procs |-> "none"] /\ crashes = 0
    /\ alone = {}

At(p, stage) == pc[p] = stage
Goto(p, stage) == pc' = [pc EXCEPT ![p] = stage]
Return(p, l) == Goto(p, "done") /\ got' = [got EXCEPT ![p] = l.st]

(* A library in the cache is used as it is.                                *)
Check(p) ==
    /\ At(p, "check")
    /\ IF lib # None THEN Return(p, lib) ELSE Goto(p, "clear") /\ UNCHANGED got
    /\ alone' = IF \A q \in Procs \ {p} : pc[q] \in Over THEN alone \cup {p} ELSE alone
    /\ UNCHANGED <<k, missed, seen, tree, lib, crashes>>

(* os.RemoveAll and shutil.rmtree: the contents, then the directory, which *)
(* stays when somebody has written into it: an error in Go, ignored in     *)
(* Python.                                                                 *)
Clear(p) ==
    /\ At(p, "clear") /\ Goto(p, "rmdir")
    /\ files' = [f \in 1 .. NFiles |-> None] /\ artifact' = FALSE /\ gen' = gen + 1
    /\ UNCHANGED <<k, missed, seen, dir, lib, got, crashes, alone>>

Empty == ~ artifact /\ \A f \in 1 .. NFiles : files[f] = None
\* mutant: only the sources are removed
KeepDir(p) ==
    /\ At(p, "rmdir") /\ Goto(p, "create")
    /\ UNCHANGED <<k, missed, seen, tree, lib, got, crashes, alone>>
RemoveDir(p) ==
    /\ At(p, "rmdir")
    /\ Goto(p, IF ~ Empty /\ p \in Go THEN "failed" ELSE "create")
    /\ dir' = (dir /\ ~ Empty)
    /\ UNCHANGED <<k, missed, seen, files, gen, artifact, lib, got, crashes, alone>>

(* os.MkdirAll takes a directory that is there, copytree does not.         *)
Create(p) ==
    /\ At(p, "create")
    /\ Goto(p, IF dir /\ p \in Py THEN "failed" ELSE "open")
    /\ dir' = TRUE
    /\ UNCHANGED <<k, missed, seen, files, gen, artifact, lib, got, crashes, alone>>

(* The next source, or the build; copytree reports what it missed here.    *)
NextFile(p) ==
    IF k[p] < NFiles
    THEN Goto(p, "open") /\ k' = [k EXCEPT ![p] = @ + 1] /\ UNCHANGED seen
    ELSE /\ Goto(p, IF p \in missed' THEN "failed" ELSE "compile")
         /\ k' = [k EXCEPT ![p] = 1] /\ seen' = [seen EXCEPT ![p] = gen]

(* A source is created or truncated, and then written.                     *)
Open(p) ==
    /\ At(p, "open")
    /\ IF dir
       THEN /\ files' = [files EXCEPT ![k[p]] = Half(p)] /\ Goto(p, "write")
            /\ UNCHANGED <<k, missed, seen>>
       ELSE /\ IF p \in Go
               THEN Goto(p, "failed") /\ UNCHANGED <<k, missed, seen>>
               ELSE missed' = missed \cup {p} /\ NextFile(p)
            /\ UNCHANGED files
    /\ UNCHANGED <<dir, gen, artifact, lib, got, crashes, alone>>

Write(p) ==
    /\ At(p, "write")
    /\ files' = [files EXCEPT ![k[p]] = Written(@, p)]
    /\ UNCHANGED missed /\ NextFile(p)
    /\ UNCHANGED <<dir, gen, artifact, lib, got, crashes, alone>>

(* cargo build: read the sources; link.                                    *)
Compile(p) ==
    /\ At(p, "compile")
    /\ IF files[k[p]] # Whole THEN Goto(p, "failed") /\ UNCHANGED k
       ELSE IF k[p] < NFiles THEN k' = [k EXCEPT ![p] = @ + 1] /\ UNCHANGED pc
       ELSE Goto(p, "link") /\ UNCHANGED k
    /\ UNCHANGED <<missed, seen, tree, lib, got, crashes, alone>>

Link(p) ==
    /\ At(p, "link")
    /\ \/ dir /\ artifact' = TRUE /\ Goto(p, "fetch")
       \/ gen # seen[p] /\ UNCHANGED artifact /\ Goto(p, "failed")
    /\ UNCHANGED <<k, missed, seen, files, dir, gen, lib, got, crashes, alone>>

(* No artifact: somebody cleared the directory, or took it.                *)
NoArtifact(p) ==
    /\ At(p, "fetch") /\ ~ artifact /\ Goto(p, "failed")
    /\ UNCHANGED <<k, missed, seen, tree, lib, got, crashes, alone>>

(* Go moves the artifact into the cache in one step ...                    *)
\* mutant: the artifact is opened, copied and removed
MoveInSteps(p) ==
    /\ At(p, "fetch") /\ p \in Go /\ artifact
    /\ lib' = Half(p) /\ artifact' = FALSE /\ Return(p, Half(p))
    /\ UNCHANGED <<k, missed, seen, files, dir, gen, crashes, alone>>
Move(p) ==
    /\ At(p, "fetch") /\ p \in Go /\ artifact
    /\ lib' = Whole /\ artifact' = FALSE /\ Return(p, Whole)
    /\ UNCHANGED <<k, missed, seen, files, dir, gen, crashes, alone>>

(* ... and Python copies it.                                               *)
BeginCopy(p) ==
    /\ At(p, "fetch") /\ p \in Py /\ artifact
    /\ lib' = Half(p) /\ Goto(p, "copying")
    /\ UNCHANGED <<k, missed, seen, tree, got, crashes, alone>>

EndCopy(p) ==
    /\ At(p, "copying")
    /\ lib' = Written(lib, p) /\ Return(p, lib')
    /\ UNCHANGED <<k, missed, seen, tree, crashes, alone>>

(* The process is stopped.                                                 *)
Crash(p) ==
    /\ pc[p] \notin Over /\ crashes < MaxCrashes
    /\ crashes' = crashes + 1 /\ Goto(p, "dead")
    /\ UNCHANGED <<k, missed, seen, tree, lib, got, alone>>

AllOver == (\A p \in Procs : pc[p] \in Over) /\ UNCHANGED vars

Step(p) == \/ Check(p) \/ Clear(p) \/ RemoveDir(p) \/ Create(p) \/ Open(p) \/ Write(p)
           \/ Compile(p) \/ Link(p) \/ NoArtifact(p) \/ Move(p) \/ BeginCopy(p) \/ EndCopy(p)
Next == (\E p \in Procs : Step(p) \/ Crash(p)) \/ AllOver

Spec == Init /\ [][Next]_vars

-------------------------------------------------------------------------------
(* Properties                                                              *)

(* A library in the cache that is not whole was left there by a Python     *)
(* process that is copying it, or was stopped while it did.                *)
HalfOnlyFromCopy ==
    lib # None /\ lib # Whole => lib.by \in Py /\ pc[lib.by] \in {"copying", "dead"}

(* Processes that build at the same time can all fail.  But whatever they, *)
(* or one that was stopped, leave in the directory, a process that then    *)
(* builds alone succeeds, unless a copy was cut off in the cache.          *)
LoneBuildSucceeds ==
    \A p \in alone :
        /\ pc[p] # "failed"
        /\ pc[p] = "done" => got[p] = "whole" \/ (got[p] = "half" /\ pc[lib.by] = "dead")
===============================================================================
