------------------------------ MODULE ScriptLoad ------------------------------
(***************************************************************************)
(* How a run finds and executes the files of its package (star/star.go,    *)
(* star/fs.go, service/service.go): the package is opened, and main's file *)
(* is executed together with the files it loads, depth first.              *)
(*                                                                         *)
(* The run has the names in the package only: whatever a load says, it is  *)
(* taken from the root, and ".." stops there.                              *)
(***************************************************************************)
EXTENDS Packaging

CONSTANT MaxDepth  \* bound: nesting of executed files

ASSUME ScriptLoadAssumption == MaxDepth \in Nat \ {0}

VARIABLES
  run,     \* "off", "on", or how it ended: "ok" or "failed"
  why,     \* why it failed
  frames   \* files being executed and the load each is at

rvars == <<run, why, frames>>
vars == <<pvars, rvars>>

-----------------------------------------------------------------------------
\* Variant, not the code's: files are named without their directory.
BaseKey(p) == SubSeq(p, Len(p), Len(p))

\* filepath.Rel from the root and path.Clean of the result: the name of a file
\* in the package.  A file next to the root keeps its directory's name.
Key(p) == IF Inside(p) THEN SubSeq(p, Len(Root) + 1, Len(p))
                       ELSE SubSeq(p, Len(Root), Len(p))

\* path.Clean("/" + path): the name a load asks for.
Asked(l) == l.path

Collision == \E p, q \in packed : p # q /\ Key(p) = Key(q)

\* ThreadLoad reads the file of that name.
Holds(k) == \E p \in packed : Key(p) = k
FileOf(k) == CHOOSE p \in packed : Key(p) = k

-----------------------------------------------------------------------------
Init ==
  /\ PackInit
  /\ run = "off" /\ why = "none" /\ frames = <<>>

Made == pkg \in {"packed", "dir"}

Fail(reason) ==
  /\ run' = "failed" /\ why' = reason /\ frames' = <<>>

\* star.NewTarFS: the names in the package must differ.
OpenTar ==
  /\ Made /\ run = "off"
  /\ IF Collision THEN Fail("collision")
     ELSE run' = "on" /\ frames' = <<[file |-> Top, next |-> 1]>> /\ UNCHANGED why
  /\ UNCHANGED pvars

Executed == frames[Len(frames)]
Callers == SubSeq(frames, 1, Len(frames) - 1)
Onward == Append(Callers, [Executed EXCEPT !.next = @ + 1])
AtLoadOfRun == run = "on" /\ Executed.next \in DOMAIN LoadsOf(Executed.file)
Wanted == LoadsOf(Executed.file)[Executed.next]
WantsFile == AtLoadOfRun /\ Wanted.from # "plugin"
Found == FileOf(Asked(Wanted))

\* The module of the worker's plugins, the only one there is.
LoadModule ==
  /\ AtLoadOfRun /\ Wanted.from = "plugin"
  /\ IF Wanted.path = <<>> THEN frames' = Onward /\ UNCHANGED <<run, why>>
     ELSE Fail("module-not-found")
  /\ UNCHANGED pvars

\* Variant, not the code's: the caller stays at its load.
ExecFileAgain ==
  /\ WantsFile /\ Holds(Asked(Wanted)) /\ Len(frames) < MaxDepth
  /\ tree[Found].kind \in {"star", "py"}
  /\ frames' = Append(frames, [file |-> Found, next |-> 1])
  /\ UNCHANGED <<pvars, run, why>>

\* A .star or .py file is executed, with the loads it starts with, each time
\* it is loaded.
ExecFile ==
  /\ WantsFile /\ Holds(Asked(Wanted)) /\ Len(frames) < MaxDepth
  /\ tree[Found].kind \in {"star", "py"}
  /\ frames' = Append(Onward, [file |-> Found, next |-> 1])
  /\ UNCHANGED <<pvars, run, why>>

\* loadDataFile: a .txt or .json file.
LoadData ==
  /\ WantsFile /\ Holds(Asked(Wanted)) /\ tree[Found].kind = "data"
  /\ frames' = Onward
  /\ UNCHANGED <<pvars, run, why>>

\* No such name, an extension that means nothing, a .star or .py file that does not parse,
\* a .json file with other text: the error ends main.
LoadFails ==
  /\ WantsFile
  /\ \/ ~Holds(Asked(Wanted)) /\ Fail("not-found")
     \/ /\ Holds(Asked(Wanted))
        /\ \/ tree[Found].kind = "odd" /\ Fail("unsupported")
           \/ tree[Found].kind \in {"broken", "brokenpy"} /\ Fail("syntax")
           \/ tree[Found].kind = "data" /\ Fail("not-json")
  /\ UNCHANGED pvars

\* The file's statements are executed.
FileDone ==
  /\ run = "on" /\ Len(frames) > 1 /\ Executed.next \notin DOMAIN LoadsOf(Executed.file)
  /\ frames' = Callers
  /\ UNCHANGED <<pvars, run, why>>

\* A statement of the file fails, or a name in it is not defined.
FileFails ==
  /\ run = "on" /\ Len(frames) > 1 /\ Fail("eval-error")
  /\ UNCHANGED pvars

\* star.Call: main's file is loaded, and defines the function or does not.
CallMain ==
  /\ run = "on" /\ Len(frames) = 1 /\ Executed.next \notin DOMAIN LoadsOf(Top)
  /\ \/ /\ tree[FileOf(Asked(entry))].kind \in {"star", "py"}
        /\ run' = "ok" /\ frames' = <<>> /\ UNCHANGED why
     \/ Fail("function-not-found")
     \/ Fail("eval-error")
  /\ UNCHANGED pvars

RunNext ==
  \/ OpenTar \/ LoadModule \/ ExecFile \/ LoadData \/ LoadFails
  \/ FileDone \/ FileFails \/ CallMain

Next == (PackNext /\ UNCHANGED rvars) \/ RunNext

Spec == Init /\ [][Next]_vars

\* The client and the workflow's code do not wait for anything here.
FairSpec == Spec /\ WF_vars(Next)

-----------------------------------------------------------------------------
(* Properties *)

TypeOK ==
  /\ PackTypeOK
  /\ run \in {"off", "on", "ok", "failed"}
  /\ why \in {"none", "collision", "module-not-found", "not-found", "unsupported",
              "syntax", "not-json", "eval-error", "function-not-found"}
  /\ ((why # "none") <=> (run = "failed"))
  /\ frames \in Seq(Frames) /\ ((frames # <<>>) <=> (run = "on"))
  /\ (run # "off" => Made)

\* A load that the client and the run take for the same file.
Aligned(l) == l.from = "plugin" \/ Resolve(l) = Root \o l.path

\* A .py file that does not parse is in the package.
Unparsed == \E f \in packed : tree[f].kind = "brokenpy"

\* The client packages what the run needs: if the client and the run agree on
\* the file of each load, and no .py file has loads, a run of the package does
\* not miss a file and the package opens, with whatever cycles; and it fails by a
\* file that does not parse only if that is a .py file, which the client does not parse.
AllAligned ==
  \A f \in packed \cup {Top} :
    /\ \A i \in DOMAIN LoadsOf(f) : Aligned(LoadsOf(f)[i])
    /\ f # Top /\ tree[f].kind = "py" => LoadsOf(f) = <<>>

PackageSuffices ==
  pkg = "packed" /\ AllAligned =>
    why \notin {"not-found", "collision"} /\ (why = "syntax" => Unparsed)

\* Names in the package differ unless the root has a neighbour whose name
\* begins with the root's: of a package made of files inside the root, all
\* files can be had by name.
InsideOpens ==
  Made /\ (\A p \in packed : Inside(p)) =>
    why # "collision" /\ \A p \in packed : FileOf(Key(p)) = p

\* What the proofs need of a run: it executes files of its package.
FramesInv ==
  \A i \in DOMAIN frames :
    \/ frames[i].file = Top
    \/ /\ frames[i].file \in packed
       /\ tree[frames[i].file].kind \in {"star", "py"}

RunInv == FramesInv /\ PackageSuffices /\ InsideOpens

\* A run ends unless it executes a file within its own execution.
Recurses == \E i, j \in DOMAIN frames : i # j /\ frames[i].file = frames[j].file
RunEnds == <>(pkg = "refused" \/ run \in {"ok", "failed"} \/ Recurses)
===============================================================================
