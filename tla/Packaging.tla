------------------------------ MODULE Packaging ------------------------------
(***************************************************************************)
(* How a client makes the package of a script (client/*/client.go,         *)
(* ext/tar.go): the script and, recursively, the files it loads; or, as    *)
(* the tests do, every file of a directory.                                *)
(*                                                                         *)
(* A path is the sequence of its names from the file system's root.  What  *)
(* a script writes in a load is "@module", "//a/b" (from the root of the   *)
(* package), "/a/b", or "../a/b" (from the working directory of the        *)
(* client), with any number of leading "..".                               *)
(***************************************************************************)
EXTENDS Integers, Sequences

CONSTANTS Names,   \* names of files and directories
          Root,    \* root directory of the package
          Longer,  \* names that have the name of the root as a proper prefix
          Trees,   \* file systems: a function from the paths of files
          Entries, \* scripts the client is asked to run, as loads
          Cwds     \* working directories of the client

Paths == Seq(Names)
Loads == [from : {"plugin", "root", "abs", "path"}, up : Nat, path : Paths]

\* What a file is to load and to the run, by its extension and its text: a .star or
\* .py file that parses, one that does not, a .txt or .json file, one of another
\* extension; and a file that cannot be read.
Kinds == {"star", "py", "broken", "brokenpy", "data", "odd", "locked"}
Files == [kind : Kinds, loads : Seq(Loads)]

\* The main file's frame: it is no file of its own.
Top == <<>>

IsTree(t) ==
  /\ DOMAIN t \subseteq Paths \ {Top, Root}
  /\ \A p \in DOMAIN t : t[p] \in Files

ASSUME PackagingAssumption ==
  /\ Root \in Paths /\ Root # Top
  /\ Longer \subseteq Names /\ Root[Len(Root)] \notin Longer
  /\ Cwds \subseteq Paths /\ Entries \subseteq Loads
  /\ \A t \in Trees : IsTree(t)

VARIABLES
  tree, entry, cwd,  \* the files, the script to run, the working directory
  pkg,     \* the package: "none", "packing", "refused", "packed" or "dir"
  error,   \* why it was refused
  stack,   \* recursion of load: the file of each call and its next load
  packed   \* the cache of load, which is also the files of the package

pvars == <<tree, entry, cwd, pkg, error, stack, packed>>

Frames == [file : Paths, next : Nat \ {0}]

LoadsOf(f) == IF f = Top THEN <<entry>> ELSE tree[f].loads

-----------------------------------------------------------------------------
\* filepath.Join and filepath.Abs: where a load leads in the client.
Base(l) == CASE l.from = "root" -> Root [] l.from = "path" -> cwd [] OTHER -> <<>>
Resolve(l) == SubSeq(Base(l), 1, Len(Base(l)) - l.up) \o l.path

\* strings.HasPrefix(path, root), on the text of both.
Under(p) ==
  /\ Len(p) >= Len(Root)
  /\ \A i \in 1..(Len(Root) - 1) : p[i] = Root[i]
  /\ p[Len(Root)] \in Longer \cup {Root[Len(Root)]}

\* Within the root as a directory.
Inside(p) == Len(p) > Len(Root) /\ SubSeq(p, 1, Len(Root)) = Root

\* The client reads the text of the file, and the loads of a .star file.
Readable(p) == p \in DOMAIN tree /\ tree[p].kind \notin {"broken", "locked"}

-----------------------------------------------------------------------------
PackInit ==
  /\ tree \in Trees /\ entry \in Entries /\ cwd \in Cwds
  /\ pkg = "none" /\ error = "none" /\ stack = <<>> /\ packed = {}

Below == {p \in DOMAIN tree : Inside(p)}

\* ext.DirToTar: every file below the directory, whatever its text; or none, if one
\* of them cannot be read.
DirToTar ==
  /\ pkg = "none"
  /\ \/ /\ \A p \in Below : tree[p].kind # "locked"
        /\ pkg' = "dir" /\ packed' = Below /\ UNCHANGED error
     \/ /\ \E p \in Below : tree[p].kind = "locked"
        /\ pkg' = "refused" /\ error' = "unreadable" /\ UNCHANGED packed
  /\ UNCHANGED <<tree, entry, cwd, stack>>

\* Variant, not the code's: all of the root is packed as well.
PackageRoot ==
  /\ pkg = "none"
  /\ pkg' = "packing"
  /\ stack' = <<[file |-> Top, next |-> 1]>>
  /\ packed' = Below
  /\ UNCHANGED <<tree, entry, cwd, error>>

\* Package: load of the script to run.
Package ==
  /\ pkg = "none"
  /\ pkg' = "packing"
  /\ stack' = <<[file |-> Top, next |-> 1]>>
  /\ UNCHANGED <<tree, entry, cwd, error, packed>>

\* The call of load at work, the load its loop is at, and where that leads.
Frame == stack[Len(stack)]
Outer == SubSeq(stack, 1, Len(stack) - 1)
Advanced == Append(Outer, [Frame EXCEPT !.next = @ + 1])
AtLoad == pkg = "packing" /\ Frame.next \in DOMAIN LoadsOf(Frame.file)
Current == LoadsOf(Frame.file)[Frame.next]
Target == Resolve(Current)
AtFile == AtLoad /\ Current.from # "plugin" /\ Under(Target)

\* A module of the worker, or a file packed before.
Skip ==
  /\ AtLoad
  /\ \/ Current.from = "plugin"
     \/ (AtFile /\ Target \in packed)
  /\ stack' = Advanced
  /\ UNCHANGED <<tree, entry, cwd, pkg, error, packed>>

\* A file out of the root, one that cannot be read or a .star file that does not
\* parse ends all the calls.
Refuse ==
  /\ AtLoad /\ Current.from # "plugin"
  /\ \/ ~Under(Target) /\ error' = "out-of-root"
     \/ Under(Target) /\ Target \notin packed /\ ~Readable(Target) /\ error' = "unreadable"
  /\ pkg' = "refused"
  /\ UNCHANGED <<tree, entry, cwd, stack, packed>>

\* Variant, not the code's: files the run cannot read are left out.
PackDataKnown ==
  /\ AtFile /\ Target \notin packed /\ Readable(Target)
  /\ tree[Target].kind # "star"
  /\ packed' = IF tree[Target].kind = "odd" THEN packed ELSE packed \cup {Target}
  /\ stack' = Advanced
  /\ UNCHANGED <<tree, entry, cwd, pkg, error>>

\* A file whose name does not end with .star: its text is all there is to it, and a
\* .py file is not parsed.
PackData ==
  /\ AtFile /\ Target \notin packed /\ Readable(Target)
  /\ tree[Target].kind # "star"
  /\ packed' = packed \cup {Target}
  /\ stack' = Advanced
  /\ UNCHANGED <<tree, entry, cwd, pkg, error>>

\* Variant, not the code's: a script is in the cache once its loads are.
PackScriptLast ==
  /\ AtFile /\ Target \notin packed /\ Readable(Target)
  /\ tree[Target].kind = "star"
  /\ stack' = Append(Advanced, [file |-> Target, next |-> 1])
  /\ packed' = IF tree[Target].loads = <<>> THEN packed \cup {Target} ELSE packed
  /\ UNCHANGED <<tree, entry, cwd, pkg, error>>

\* Variant, not the code's: the first load of a script is taken for its module.
PackScriptPastFirst ==
  /\ AtFile /\ Target \notin packed /\ Readable(Target)
  /\ tree[Target].kind = "star"
  /\ packed' = packed \cup {Target}
  /\ stack' = Append(Advanced, [file |-> Target, next |-> 2])
  /\ UNCHANGED <<tree, entry, cwd, pkg, error>>

\* A script: packed first, then its loads.
PackScript ==
  /\ AtFile /\ Target \notin packed /\ Readable(Target)
  /\ tree[Target].kind = "star"
  /\ packed' = packed \cup {Target}
  /\ stack' = Append(Advanced, [file |-> Target, next |-> 1])
  /\ UNCHANGED <<tree, entry, cwd, pkg, error>>

\* The loop over a script's loads is at its end.
Return ==
  /\ pkg = "packing" /\ Frame.next \notin DOMAIN LoadsOf(Frame.file)
  /\ stack' = Outer
  /\ pkg' = IF Outer = <<>> THEN "packed" ELSE pkg
  /\ UNCHANGED <<tree, entry, cwd, error, packed>>

PackNext == DirToTar \/ Package \/ Skip \/ Refuse \/ PackData \/ PackScript \/ Return

-----------------------------------------------------------------------------
(* Properties *)

PackTypeOK ==
  /\ IsTree(tree) /\ entry \in Entries /\ cwd \in Cwds
  /\ pkg \in {"none", "packing", "refused", "packed", "dir"}
  /\ error \in {"none", "out-of-root", "unreadable"}
  /\ ((error # "none") <=> (pkg = "refused"))
  /\ stack \in Seq(Frames)
  /\ (pkg = "packing" => stack # <<>>) /\ (stack # <<>> => pkg \in {"packing", "refused"})
  /\ packed \subseteq DOMAIN tree /\ (pkg = "none" => packed = {})

\* The first n loads of a file lead to modules or to files of the package.
Covered(f, n) ==
  \A i \in DOMAIN LoadsOf(f) :
    i <= n => \/ LoadsOf(f)[i].from = "plugin"
              \/ Resolve(LoadsOf(f)[i]) \in packed

\* A script of the package: one whose loads the packager follows.
Script(f) == f = Top \/ (f \in packed /\ tree[f].kind = "star")

\* A package that was made is closed: every load of every script in it leads
\* to a file in it, whatever cycles there are, where the client looks.
PackageIsClosed ==
  pkg = "packed" => \A f \in packed \cup {Top} : Script(f) => Covered(f, Len(LoadsOf(f)))

\* Nothing else is packed: a file is in a package because a script in it, or
\* the client, loads it.
IsLoaded(p) ==
  \E f \in packed \cup {Top} :
    /\ Script(f)
    /\ \E i \in DOMAIN LoadsOf(f) :
         LoadsOf(f)[i].from # "plugin" /\ Resolve(LoadsOf(f)[i]) = p

PackageIsMinimal == pkg = "packed" => \A p \in packed : IsLoaded(p)

\* The recursion is never inside the same script twice, so that a cycle of
\* loads ends: its depth is bounded by the number of scripts.
NestsOnce ==
  \A i, j \in DOMAIN stack : stack[i].file = stack[j].file => i = j

\* The inductive invariant of the packager.  Of each script the loads before
\* the one its call is at have been followed, and all of them once the call
\* has returned.
InCall(f) == \E i \in DOMAIN stack : stack[i].file = f

Followed(call) == Script(call.file) /\ Covered(call.file, call.next - 1)
CallsInv == \A i \in DOMAIN stack : Followed(stack[i])

FollowedInv ==
  pkg = "packing" =>
    \A f \in packed \cup {Top} :
      Script(f) => InCall(f) \/ Covered(f, Len(LoadsOf(f)))

LoadedInv ==
  pkg \in {"packing", "packed"} => \A p \in packed : Readable(p) /\ IsLoaded(p)

PackInv == CallsInv /\ FollowedInv /\ LoadedInv /\ PackageIsClosed /\ NestsOnce
=============================================================================
