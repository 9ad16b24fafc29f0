--------------------------- MODULE ScriptLoadProofs ---------------------------
(***************************************************************************)
(* Proofs about ScriptLoad: the package a client makes is closed under the *)
(* loads of its scripts, cycles included, and suffices for the run.        *)
(***************************************************************************)
EXTENDS ScriptLoad, SequenceTheorems, TLAPS

-----------------------------------------------------------------------------
(* The two stacks *)

\* A sequence without its last element.
LEMMA FrontProperties ==
  ASSUME NEW S, NEW s \in Seq(S), s # <<>>
  PROVE  LET o == SubSeq(s, 1, Len(s) - 1) IN
         /\ o \in Seq(S) /\ Len(o) = Len(s) - 1 /\ (o = <<>> <=> Len(s) = 1)
         /\ \A i \in 1..(Len(s) - 1) : o[i] = s[i]
  <1>. DEFINE n == Len(s) - 1
              o == SubSeq(s, 1, n)
  <1>1. n \in Nat /\ \A i \in 1..n : s[i] \in S
    <2>1. Len(s) \in Nat \ {0} /\ \A i \in 1..Len(s) : s[i] \in S
      BY EmptySeq, ElementOfSeq
    <2>. QED  BY <2>1
  <1>. HIDE DEF n
  <1>2. /\ o \in Seq(S)
        /\ Len(o) = IF 1 <= n THEN n - 1 + 1 ELSE 0
        /\ \A i \in 1..(n - 1 + 1) : o[i] = s[1 + i - 1]
    BY <1>1, SubSeqProperties
  <1>. HIDE DEF o
  <1>3. Len(o) = n /\ \A i \in 1..n : o[i] = s[i]
    BY <1>1, <1>2
  <1>4. o = <<>> <=> Len(o) = 0
    BY <1>2, EmptySeq
  <1>5. Len(s) = n + 1
    BY LenProperties DEF n
  <1>. QED  BY <1>1, <1>2, <1>3, <1>4, <1>5 DEF n, o

\* Moving the call on top to its next load changes nothing below it.
LEMMA AdvancedTop ==
  ASSUME NEW s \in Seq(Frames), s # <<>>
  PROVE  LET t == Append(SubSeq(s, 1, Len(s) - 1), [s[Len(s)] EXCEPT !.next = @ + 1]) IN
         /\ t \in Seq(Frames) /\ t # <<>> /\ Len(t) = Len(s)
         /\ \A i \in 1..(Len(s) - 1) : t[i] = s[i]
         /\ t[Len(s)].file = s[Len(s)].file
         /\ t[Len(s)].next = s[Len(s)].next + 1
  <1>. DEFINE o == SubSeq(s, 1, Len(s) - 1)
              f == [s[Len(s)] EXCEPT !.next = @ + 1]
              t == Append(o, f)
  <1>1. Len(s) \in Nat \ {0} /\ \A i \in 1..Len(s) : s[i] \in Frames
    BY EmptySeq, ElementOfSeq
  <1>2. /\ o \in Seq(Frames) /\ Len(o) = Len(s) - 1
        /\ \A i \in 1..(Len(s) - 1) : o[i] = s[i]
    BY FrontProperties
  <1>3. f \in Frames /\ f.file = s[Len(s)].file /\ f.next = s[Len(s)].next + 1
    BY <1>1 DEF Frames
  <1>4. /\ t \in Seq(Frames) /\ t # <<>> /\ Len(t) = Len(s)
        /\ \A i \in 1..(Len(s) - 1) : t[i] = s[i]
        /\ t[Len(s)] = f
    <2>. HIDE DEF f, o
    <2>. QED  BY <1>1, <1>2, <1>3, AppendProperties
  <1>. QED  BY <1>3, <1>4

\* A call pushed on top of it.
LEMMA PushedTop ==
  ASSUME NEW s \in Seq(Frames), NEW f \in Paths
  PROVE  LET t == Append(s, [file |-> f, next |-> 1]) IN
         /\ t \in Seq(Frames) /\ t # <<>> /\ Len(t) = Len(s) + 1
         /\ \A i \in 1..Len(s) : t[i] = s[i]
         /\ t[Len(t)].file = f /\ t[Len(t)].next = 1
  <1>1. [file |-> f, next |-> 1] \in Frames
    BY DEF Frames
  <1>2. Len(s) \in Nat
    BY LenProperties
  <1>. QED  BY <1>1, <1>2, AppendProperties

\* Every call stands for a frame.
LEMMA FrameAt ==
  ASSUME NEW s \in Seq(Frames), NEW i \in 1..Len(s)
  PROVE  s[i] \in Frames /\ s[i].file \in Paths /\ s[i].next \in Nat \ {0}
  <1>1. s[i] \in Frames
    BY ElementOfSeq
  <1>. QED  BY <1>1 DEF Frames

-----------------------------------------------------------------------------
(* Loads and where they lead *)

\* The loads of a script of the package, and of the main file's frame.
LEMMA LoadsOfScript ==
  ASSUME PackTypeOK, NEW f \in DOMAIN tree \cup {Top}
  PROVE  LoadsOf(f) \in Seq(Loads) /\ f \in Paths
  <1>1. <<entry>> \in Seq(Loads) /\ Top \in Paths
    BY PackagingAssumption DEF PackTypeOK, Top, Paths
  <1>. QED  BY <1>1 DEF PackTypeOK, IsTree, Files, LoadsOf

\* What the package is made from does not change.
SameInput == tree' = tree /\ entry' = entry /\ cwd' = cwd

LEMMA SameLoads ==
  ASSUME SameInput, NEW f
  PROVE  /\ LoadsOf(f)' = LoadsOf(f)
         /\ \A l : Resolve(l)' = Resolve(l)
  BY DEF SameInput, LoadsOf, Resolve, Base

\* More files cover more.
LEMMA CoveredGrows ==
  ASSUME SameInput, packed \subseteq packed', NEW f, NEW n, Covered(f, n)
  PROVE  Covered(f, n)'
  BY SameLoads DEF Covered

LEMMA StaysLoaded ==
  ASSUME SameInput, packed \subseteq packed', NEW f
  PROVE  /\ Script(f) => Script(f)'
         /\ IsLoaded(f) => IsLoaded(f)'
         /\ Readable(f)' <=> Readable(f)
  BY SameLoads DEF SameInput, Script, IsLoaded, Readable

-----------------------------------------------------------------------------
(* The packager *)

\* The call on top of the stack while the client is packing.
LEMMA TopCall ==
  ASSUME PackTypeOK, CallsInv, pkg = "packing"
  PROVE  /\ stack \in Seq(Frames) /\ stack # <<>>
         /\ Len(stack) \in Nat \ {0} /\ DOMAIN stack = 1..Len(stack)
         /\ Frame = stack[Len(stack)] /\ Script(Frame.file)
         /\ Frame.file \in DOMAIN tree \cup {Top} /\ Frame.next \in Nat \ {0}
         /\ LoadsOf(Frame.file) \in Seq(Loads)
         /\ Covered(Frame.file, Frame.next - 1)
  <1>1. /\ stack \in Seq(Frames) /\ stack # <<>>
        /\ Len(stack) \in Nat \ {0} /\ DOMAIN stack = 1..Len(stack)
    BY EmptySeq, LenProperties DEF PackTypeOK
  <1>2. Frame = stack[Len(stack)] /\ Frame.next \in Nat \ {0}
    BY <1>1, FrameAt DEF Frame
  <1>3. Script(Frame.file) /\ Covered(Frame.file, Frame.next - 1)
    BY <1>1, <1>2 DEF CallsInv, Followed
  <1>4. Frame.file \in DOMAIN tree \cup {Top}
    BY <1>3 DEF Script, PackTypeOK
  <1>. QED  BY <1>1, <1>2, <1>3, <1>4, LoadsOfScript

\* Following one more load covers one more.
LEMMA FollowedCovers ==
  ASSUME PackTypeOK, CallsInv, AtLoad, SameInput, packed \subseteq packed',
         Current.from = "plugin" \/ Target \in packed',
         NEW f, f = Frame.file, NEW n, n = Frame.next
  PROVE  Covered(f, n)'
  <1>1. n \in Nat \ {0} /\ Covered(f, n - 1) /\ LoadsOf(f) \in Seq(Loads)
    BY TopCall DEF AtLoad
  <1>2. Covered(f, n - 1)'
    BY <1>1, CoveredGrows
  <1>3. ASSUME NEW i \in DOMAIN LoadsOf(f), i <= n
        PROVE  LoadsOf(f)[i].from = "plugin" \/ Resolve(LoadsOf(f)[i]) \in packed'
    <2>1. CASE i = n
      BY <2>1 DEF Current, Target
    <2>2. CASE i # n
      <3>1. i \in Int /\ i <= n - 1
        BY <1>1, <1>3, <2>2, LenProperties
      <3>. QED  BY <1>2, <3>1, SameLoads DEF Covered
    <2>. QED  BY <2>1, <2>2
  <1>. QED  BY <1>3, SameLoads DEF Covered

\* What the load leads to is loaded by the script on top.
LEMMA TargetIsLoaded ==
  ASSUME PackTypeOK, CallsInv, AtFile, SameInput, packed \subseteq packed',
         NEW p, p = Target
  PROVE  IsLoaded(p)'
  <1>1. Script(Frame.file)
    BY TopCall DEF AtFile, AtLoad
  <1>2. IsLoaded(p)
    BY <1>1 DEF IsLoaded, Script, AtFile, AtLoad, Current, Target
  <1>. QED  BY <1>2, StaysLoaded

\* A step to the next load, with or without a file that is no script.
LEMMA AdvanceStep ==
  ASSUME PackTypeOK, PackInv, AtLoad, SameInput, stack' = Advanced,
         pkg' = pkg, error' = error,
         packed \subseteq packed',
         \A p \in packed' \ packed : AtFile /\ p = Target /\ Readable(p) /\ tree[p].kind # "star",
         Current.from = "plugin" \/ Target \in packed'
  PROVE  PackTypeOK' /\ PackInv'
  <1>1. /\ stack \in Seq(Frames) /\ stack # <<>>
        /\ Len(stack) \in Nat \ {0} /\ DOMAIN stack = 1..Len(stack)
        /\ Frame = stack[Len(stack)] /\ pkg = "packing"
    BY TopCall DEF AtLoad, PackInv
  <1>2. /\ stack' \in Seq(Frames) /\ stack' # <<>> /\ Len(stack') = Len(stack)
        /\ DOMAIN stack' = 1..Len(stack)
        /\ \A i \in 1..(Len(stack) - 1) : stack'[i] = stack[i]
        /\ stack'[Len(stack)].file = Frame.file
        /\ stack'[Len(stack)].next = Frame.next + 1
    <2>1. /\ stack' \in Seq(Frames) /\ stack' # <<>> /\ Len(stack') = Len(stack)
          /\ \A i \in 1..(Len(stack) - 1) : stack'[i] = stack[i]
          /\ stack'[Len(stack)].file = Frame.file
          /\ stack'[Len(stack)].next = Frame.next + 1
      BY <1>1, AdvancedTop DEF Advanced, Outer, Frame
    <2>. QED  BY <2>1, LenProperties
  <1>3. \A i \in 1..Len(stack) : stack'[i].file = stack[i].file
    BY <1>1, <1>2
  <1>4. PackTypeOK'
    <2>1. packed' \subseteq DOMAIN tree
      BY DEF PackTypeOK, Readable
    <2>. QED  BY <1>1, <1>2, <2>1 DEF PackTypeOK, SameInput, IsTree
  <1>5. CallsInv'
    <2>1. ASSUME NEW i \in 1..Len(stack), NEW c, c = stack'[i]
          PROVE  Followed(c)'
      <3>1. PICK b : b = stack[i]
        OBVIOUS
      <3>2. c.file = b.file /\ Followed(b)
        BY <1>1, <1>3, <2>1, <3>1 DEF CallsInv, PackInv
      <3>3. Script(c.file)'
        BY <3>2, StaysLoaded DEF Followed
      <3>4. CASE i = Len(stack)
        <4>1. PICK n : n = Frame.next
          OBVIOUS
        <4>2. Covered(b.file, n)'
          BY <1>1, <3>1, <3>4, <4>1, FollowedCovers DEF PackInv
        <4>3. n \in Nat \ {0} /\ c.next - 1 = n
          BY <1>1, <1>2, <2>1, <3>4, <4>1, FrameAt
        <4>. QED  BY <3>2, <3>3, <4>2, <4>3 DEF Followed
      <3>5. CASE i # Len(stack)
        <4>1. c = b
          <5>1. i \in 1..(Len(stack) - 1)
            <6>1. Len(stack) \in Nat
              BY <1>1
            <6>. QED  BY <2>1, <3>5, <6>1
          <5>. QED  BY <1>2, <2>1, <3>1, <5>1
        <4>. QED  BY <3>2, <3>3, <4>1, CoveredGrows DEF Followed
      <3>. QED  BY <3>4, <3>5
    <2>. QED  BY <1>2, <2>1 DEF CallsInv
  <1>6. FollowedInv'
    <2>. SUFFICES ASSUME NEW f \in packed' \cup {Top}, Script(f)'
                  PROVE  InCall(f)' \/ Covered(f, Len(LoadsOf(f)))'
      BY DEF FollowedInv
    <2>1. f \in packed \cup {Top} /\ Script(f)
      BY DEF Script, SameInput
    <2>2. InCall(f) \/ Covered(f, Len(LoadsOf(f)))
      BY <1>1, <2>1 DEF PackInv, FollowedInv
    <2>3. InCall(f) => InCall(f)'
      BY <1>1, <1>2, <1>3 DEF InCall
    <2>4. PICK n : n = Len(LoadsOf(f))
      OBVIOUS
    <2>5. Covered(f, n) => Covered(f, n)' /\ Len(LoadsOf(f))' = n
      BY <2>4, CoveredGrows, SameLoads
    <2>. QED  BY <2>2, <2>3, <2>4, <2>5
  <1>7. LoadedInv'
    <2>. SUFFICES ASSUME NEW p \in packed'
                  PROVE  Readable(p)' /\ IsLoaded(p)'
      BY DEF LoadedInv
    <2>1. CASE p \in packed
      BY <1>1, <2>1, StaysLoaded DEF PackInv, LoadedInv
    <2>2. CASE p \notin packed
      BY <2>2, TargetIsLoaded, StaysLoaded DEF PackInv
    <2>. QED  BY <2>1, <2>2
  <1>8. PackageIsClosed'
    BY <1>1 DEF PackageIsClosed
  <1>9. NestsOnce'
    BY <1>1, <1>2, <1>3 DEF PackInv, NestsOnce
  <1>. QED  BY <1>4, <1>5, <1>6, <1>7, <1>8, <1>9 DEF PackInv

\* A script is packed and its call pushed.
LEMMA PackScriptStep ==
  ASSUME PackTypeOK, PackInv, PackScript
  PROVE  PackTypeOK' /\ PackInv'
  <1>. USE DEF PackInv
  <1>0. /\ SameInput /\ packed \subseteq packed' /\ packed' = packed \cup {Target}
        /\ Target \notin packed /\ Target \in DOMAIN tree /\ Readable(Target)
        /\ tree[Target].kind = "star" /\ AtFile /\ AtLoad
        /\ pkg = "packing" /\ pkg' = pkg /\ error' = error
        /\ stack' = Append(Advanced, [file |-> Target, next |-> 1])
    BY DEF PackScript, AtFile, AtLoad, SameInput, Readable
  <1>a. Target \in Paths /\ Target # Top
    BY <1>0 DEF PackTypeOK, IsTree
  <1>1. /\ stack \in Seq(Frames) /\ stack # <<>>
        /\ Len(stack) \in Nat \ {0} /\ DOMAIN stack = 1..Len(stack)
        /\ Frame = stack[Len(stack)]
    BY <1>0, TopCall
  <1>n. Len(stack) \in Nat
    BY <1>1
  <1>2. /\ stack' \in Seq(Frames) /\ stack' # <<>> /\ Len(stack') = Len(stack) + 1
        /\ DOMAIN stack' = 1..(Len(stack) + 1)
        /\ \A i \in 1..(Len(stack) - 1) : stack'[i] = stack[i]
        /\ stack'[Len(stack)].file = Frame.file
        /\ stack'[Len(stack)].next = Frame.next + 1
        /\ stack'[Len(stack) + 1].file = Target
        /\ stack'[Len(stack) + 1].next = 1
    <2>1. /\ Advanced \in Seq(Frames) /\ Advanced # <<>> /\ Len(Advanced) = Len(stack)
          /\ \A i \in 1..(Len(stack) - 1) : Advanced[i] = stack[i]
          /\ Advanced[Len(stack)].file = Frame.file
          /\ Advanced[Len(stack)].next = Frame.next + 1
      BY <1>1, AdvancedTop DEF Advanced, Outer, Frame
    <2>2. /\ stack' \in Seq(Frames) /\ stack' # <<>> /\ Len(stack') = Len(Advanced) + 1
          /\ \A i \in 1..Len(Advanced) : stack'[i] = Advanced[i]
          /\ stack'[Len(stack')].file = Target /\ stack'[Len(stack')].next = 1
      BY <1>0, <1>a, <2>1, PushedTop
    <2>3. \A i \in 1..Len(stack) : stack'[i] = Advanced[i]
      BY <2>1, <2>2
    <2>4. DOMAIN stack' = 1..(Len(stack) + 1)
      BY <2>1, <2>2, LenProperties
    <2>. QED  BY <1>1, <2>1, <2>2, <2>3, <2>4
  <1>3. \A i \in 1..Len(stack) : stack'[i].file = stack[i].file
    BY <1>1, <1>2
  <1>4. PackTypeOK'
    BY <1>0, <1>2 DEF PackTypeOK, SameInput, IsTree
  <1>5. CallsInv'
    <2>1. ASSUME NEW i \in 1..(Len(stack) + 1), NEW c, c = stack'[i]
          PROVE  Followed(c)'
      <3>1. CASE i = Len(stack) + 1
        <4>1. c.file = Target /\ c.next - 1 = 0
          BY <1>2, <2>1, <3>1
        <4>2. Script(c.file)'
          BY <1>0, <4>1 DEF Script, SameInput
        <4>3. LoadsOf(c.file)' \in Seq(Loads)
          BY <1>0, <4>1, LoadsOfScript, SameLoads
        <4>4. Covered(c.file, 0)'
          BY <4>3, LenProperties DEF Covered
        <4>. QED  BY <4>1, <4>2, <4>4 DEF Followed
      <3>2. CASE i # Len(stack) + 1
        <4>0. i \in 1..Len(stack)
          BY <1>1, <2>1, <3>2
        <4>1. PICK b : b = stack[i]
          OBVIOUS
        <4>2. c.file = b.file /\ Followed(b)
          BY <1>1, <1>3, <2>1, <4>0, <4>1 DEF CallsInv
        <4>3. Script(c.file)'
          BY <1>0, <4>2, StaysLoaded DEF Followed
        <4>4. CASE i = Len(stack)
          <5>1. PICK n : n = Frame.next
            OBVIOUS
          <5>2. Covered(b.file, n)'
            BY <1>0, <1>1, <4>1, <4>4, <5>1, FollowedCovers
          <5>3. n \in Nat \ {0}
            BY <1>0, <5>1, TopCall
          <5>4. c.next = n + 1
            BY <1>2, <2>1, <4>4, <5>1
          <5>5. c.next - 1 = n
            BY <5>3, <5>4
          <5>. QED  BY <4>2, <4>3, <5>2, <5>5 DEF Followed
        <4>5. CASE i # Len(stack)
          <5>1. i \in 1..(Len(stack) - 1)
            BY <1>n, <4>0, <4>5
          <5>2. c = b
            BY <1>2, <2>1, <4>1, <5>1
          <5>. QED  BY <1>0, <4>2, <4>3, <5>2, CoveredGrows DEF Followed
        <4>. QED  BY <4>4, <4>5
      <3>. QED  BY <3>1, <3>2
    <2>. QED  BY <1>2, <2>1 DEF CallsInv
  <1>6. FollowedInv'
    <2>. SUFFICES ASSUME NEW f \in packed' \cup {Top}, Script(f)'
                  PROVE  InCall(f)' \/ Covered(f, Len(LoadsOf(f)))'
      BY DEF FollowedInv
    <2>1. CASE f = Target
      BY <1>1, <1>2, <2>1 DEF InCall
    <2>2. CASE f # Target
      <3>1. f \in packed \cup {Top} /\ Script(f)
        BY <1>0, <2>2 DEF Script, SameInput
      <3>2. InCall(f) \/ Covered(f, Len(LoadsOf(f)))
        BY <1>0, <3>1 DEF FollowedInv
      <3>3. InCall(f) => InCall(f)'
        <4>1. \A i \in 1..Len(stack) : i \in 1..(Len(stack) + 1)
          BY <1>1
        <4>. QED  BY <1>1, <1>2, <1>3, <4>1 DEF InCall
      <3>4. PICK n : n = Len(LoadsOf(f))
        OBVIOUS
      <3>5. Covered(f, n) => Covered(f, n)' /\ Len(LoadsOf(f))' = n
        BY <1>0, <3>4, CoveredGrows, SameLoads
      <3>. QED  BY <3>2, <3>3, <3>4, <3>5
    <2>. QED  BY <2>1, <2>2
  <1>7. LoadedInv'
    <2>. SUFFICES ASSUME NEW p \in packed'
                  PROVE  Readable(p)' /\ IsLoaded(p)'
      BY DEF LoadedInv
    <2>1. CASE p \in packed
      BY <1>0, <2>1, StaysLoaded DEF LoadedInv
    <2>2. CASE p \notin packed
      <3>1. p = Target
        BY <1>0, <2>2
      <3>. QED  BY <1>0, <3>1, TargetIsLoaded, StaysLoaded
    <2>. QED  BY <2>1, <2>2
  <1>8. PackageIsClosed'
    BY <1>0 DEF PackageIsClosed
  <1>9. NestsOnce'
    <2>1. \A i \in 1..Len(stack) : stack[i].file # Target
      <3>1. \A i \in 1..Len(stack) : Script(stack[i].file)
        BY <1>1 DEF CallsInv, Followed
      <3>. QED  BY <1>0, <1>a, <3>1 DEF Script
    <2>. SUFFICES ASSUME NEW i \in 1..(Len(stack) + 1), NEW k \in 1..(Len(stack) + 1),
                         stack'[i].file = stack'[k].file
                  PROVE  i = k
      BY <1>2 DEF NestsOnce
    <2>2. \A m \in 1..(Len(stack) + 1) : m # Len(stack) + 1 => m \in 1..Len(stack)
      BY <1>1
    <2>3. \A m \in 1..Len(stack) : stack'[m].file = stack[m].file
      BY <1>1, <1>2, <1>3
    <2>4. CASE i \in 1..Len(stack) /\ k \in 1..Len(stack)
      BY <2>3, <2>4 DEF NestsOnce
    <2>5. stack'[Len(stack) + 1].file = Target
      BY <1>1, <1>2, <1>3
    <2>. QED  BY <2>1, <2>2, <2>3, <2>4, <2>5
  <1>. QED  BY <1>4, <1>5, <1>6, <1>7, <1>8, <1>9

\* A call returns: all the loads of its script have been followed.
LEMMA ReturnStep ==
  ASSUME PackTypeOK, PackInv, Return
  PROVE  PackTypeOK' /\ PackInv'
  <1>. USE DEF PackInv
  <1>0. /\ SameInput /\ packed' = packed /\ error' = error
        /\ pkg = "packing" /\ pkg' = IF stack' = <<>> THEN "packed" ELSE pkg
        /\ stack' = Outer
        /\ Frame.next \notin DOMAIN LoadsOf(Frame.file)
    BY DEF Return, SameInput
  <1>1. /\ stack \in Seq(Frames) /\ stack # <<>>
        /\ Len(stack) \in Nat \ {0} /\ DOMAIN stack = 1..Len(stack)
        /\ Frame = stack[Len(stack)]
    BY <1>0, TopCall
  <1>n. Len(stack) \in Nat
    BY <1>1
  <1>2. /\ stack' \in Seq(Frames) /\ (stack' = <<>> <=> Len(stack) = 1)
        /\ DOMAIN stack' = 1..(Len(stack) - 1)
        /\ \A i \in 1..(Len(stack) - 1) : stack'[i] = stack[i]
    <2>1. /\ stack' \in Seq(Frames) /\ Len(stack') = Len(stack) - 1
          /\ (stack' = <<>> <=> Len(stack) = 1)
          /\ \A i \in 1..(Len(stack) - 1) : stack'[i] = stack[i]
      BY <1>0, <1>1, FrontProperties DEF Outer
    <2>. QED  BY <2>1, LenProperties
  <1>3. \A i \in 1..(Len(stack) - 1) : i \in 1..Len(stack)
    BY <1>1
  <1>4. PackTypeOK'
    BY <1>0, <1>2 DEF PackTypeOK, SameInput, IsTree
  <1>5. CallsInv'
    <2>1. ASSUME NEW i \in 1..(Len(stack) - 1), NEW c, c = stack'[i]
          PROVE  Followed(c)'
      <3>1. Followed(c)
        BY <1>1, <1>2, <1>3, <2>1 DEF CallsInv
      <3>. QED  BY <1>0, <3>1, StaysLoaded, CoveredGrows DEF Followed
    <2>. QED  BY <1>2, <2>1 DEF CallsInv
  <1>6. ASSUME NEW f \in packed \cup {Top}, Script(f)
        PROVE  InCall(f)' \/ Covered(f, Len(LoadsOf(f)))
    <2>1. CASE f = Frame.file
      <3>1. Covered(f, Frame.next - 1) /\ LoadsOf(f) \in Seq(Loads) /\ Frame.next \in Nat \ {0}
        BY <1>0, <2>1, TopCall
      <3>2. Len(LoadsOf(f)) \in Nat /\ DOMAIN LoadsOf(f) = 1..Len(LoadsOf(f))
        BY <3>1, LenProperties
      <3>3. Frame.next > Len(LoadsOf(f))
        BY <1>0, <2>1, <3>1, <3>2
      <3>4. \A i \in DOMAIN LoadsOf(f) : i <= Frame.next - 1
        BY <3>1, <3>2, <3>3
      <3>. QED  BY <3>1, <3>4 DEF Covered
    <2>2. CASE f # Frame.file /\ InCall(f)
      <3>1. PICK i \in 1..Len(stack) : stack[i].file = f
        BY <1>1, <2>2 DEF InCall
      <3>2. i # Len(stack)
        BY <1>1, <2>2, <3>1
      <3>3. i \in 1..(Len(stack) - 1)
        BY <1>n, <3>1, <3>2
      <3>. QED  BY <1>2, <3>1, <3>3 DEF InCall
    <2>3. CASE ~InCall(f)
      BY <1>0, <1>6, <2>3 DEF FollowedInv
    <2>. QED  BY <2>1, <2>2, <2>3
  <1>7. ASSUME NEW f \in packed' \cup {Top}, Script(f)'
        PROVE  InCall(f)' \/ Covered(f, Len(LoadsOf(f)))'
    <2>1. f \in packed \cup {Top} /\ Script(f)
      BY <1>0, <1>7 DEF Script, SameInput
    <2>2. PICK n : n = Len(LoadsOf(f))
      OBVIOUS
    <2>3. Covered(f, n) => Covered(f, n)' /\ Len(LoadsOf(f))' = n
      BY <1>0, <2>2, CoveredGrows, SameLoads
    <2>. QED  BY <1>6, <2>1, <2>2, <2>3
  <1>8. FollowedInv'
    BY <1>7 DEF FollowedInv
  <1>9. LoadedInv'
    BY <1>0, StaysLoaded DEF LoadedInv
  <1>10. PackageIsClosed'
    <2>1. pkg' = "packed" => stack' = <<>>
      BY <1>0
    <2>2. ASSUME pkg' = "packed", NEW f PROVE ~InCall(f)'
      BY <2>1, <2>2 DEF InCall
    <2>. QED  BY <1>7, <2>2 DEF PackageIsClosed
  <1>11. NestsOnce'
    BY <1>1, <1>2, <1>3 DEF NestsOnce
  <1>. QED  BY <1>4, <1>5, <1>8, <1>9, <1>10, <1>11

LEMMA PackInitOK ==
  ASSUME PackInit PROVE PackTypeOK /\ PackInv
  <1>1. PackTypeOK
    BY PackagingAssumption, EmptySeq DEF PackInit, PackTypeOK
  <1>2. PackInv
    BY DEF PackInit, PackInv, CallsInv, FollowedInv, LoadedInv, PackageIsClosed, NestsOnce
  <1>. QED  BY <1>1, <1>2

\* The package of a directory, and the main file's frame.
LEMMA StartStep ==
  ASSUME PackTypeOK, PackInv, DirToTar \/ Package
  PROVE  PackTypeOK' /\ PackInv'
  <1>0. SameInput /\ pkg = "none" /\ stack = <<>> /\ packed = {} /\ error = "none"
    BY DEF DirToTar, Package, SameInput, PackTypeOK
  <1>1. CASE DirToTar
    <2>1. /\ stack' = <<>> /\ packed' \subseteq DOMAIN tree
          /\ (pkg' = "dir" /\ error' = "none") \/ (pkg' = "refused" /\ error' = "unreadable")
      BY <1>0, <1>1 DEF DirToTar, Below
    <2>2. PackTypeOK'
      BY <1>0, <2>1 DEF PackTypeOK, SameInput, IsTree
    <2>3. PackInv'
      BY <2>1 DEF PackInv, CallsInv, FollowedInv, LoadedInv, PackageIsClosed, NestsOnce
    <2>. QED  BY <2>2, <2>3
  <1>2. CASE Package
    <2>. DEFINE top == [file |-> Top, next |-> 1]
    <2>1. pkg' = "packing" /\ stack' = <<top>> /\ packed' = {} /\ error' = "none"
      BY <1>0, <1>2 DEF Package
    <2>2. top \in Frames
      BY DEF Frames, Paths, Top
    <2>3. stack' \in Seq(Frames) /\ stack' # <<>> /\ DOMAIN stack' = {1} /\ stack'[1] = top
      BY <2>1, <2>2
    <2>4. PackTypeOK'
      BY <1>0, <2>1, <2>3 DEF PackTypeOK, SameInput, IsTree
    <2>5. CallsInv'
      <3>1. ASSUME NEW c, c = top PROVE Followed(c)'
        <4>1. LoadsOf(Top)' \in Seq(Loads)
          BY <1>0, LoadsOfScript, SameLoads
        <4>2. Covered(Top, 0)'
          BY <4>1, LenProperties DEF Covered
        <4>3. c.file = Top /\ c.next - 1 = 0
          BY <3>1
        <4>. QED  BY <4>2, <4>3 DEF Followed, Script
      <3>. QED  BY <2>3, <3>1 DEF CallsInv
    <2>6. FollowedInv' /\ LoadedInv' /\ PackageIsClosed' /\ NestsOnce'
      BY <2>1, <2>3 DEF FollowedInv, InCall, LoadedInv, PackageIsClosed, NestsOnce
    <2>. QED  BY <2>4, <2>5, <2>6 DEF PackInv
  <1>. QED  BY <1>1, <1>2

LEMMA PackStep ==
  ASSUME PackTypeOK, PackInv, PackNext
  PROVE  PackTypeOK' /\ PackInv'
  <1>1. CASE DirToTar \/ Package
    BY <1>1, StartStep
  <1>2. CASE Skip
    BY <1>2, AdvanceStep DEF Skip, SameInput
  <1>3. CASE Refuse
    <2>1. /\ SameInput /\ packed' = packed /\ stack' = stack /\ pkg' = "refused"
          /\ pkg = "packing" /\ error' \in {"out-of-root", "unreadable"}
      BY <1>3 DEF Refuse, AtLoad, SameInput
    <2>2. PackTypeOK'
      BY <2>1 DEF PackTypeOK, SameInput, IsTree
    <2>3. CallsInv'
      <3>1. ASSUME NEW i \in DOMAIN stack, NEW c, c = stack[i]
            PROVE  Followed(c)'
        <4>1. Followed(c)
          BY <3>1 DEF PackInv, CallsInv
        <4>. QED  BY <2>1, <4>1, StaysLoaded, CoveredGrows DEF Followed
      <3>. QED  BY <2>1, <3>1 DEF CallsInv
    <2>4. FollowedInv' /\ LoadedInv' /\ PackageIsClosed' /\ NestsOnce'
      BY <2>1 DEF PackInv, FollowedInv, LoadedInv, PackageIsClosed, NestsOnce
    <2>. QED  BY <2>2, <2>3, <2>4 DEF PackInv
  <1>4. CASE PackData
    BY <1>4, AdvanceStep DEF PackData, AtFile, SameInput
  <1>5. CASE PackScript
    BY <1>5, PackScriptStep
  <1>6. CASE Return
    BY <1>6, ReturnStep
  <1>. QED  BY <1>1, <1>2, <1>3, <1>4, <1>5, <1>6 DEF PackNext

LEMMA PackStutter ==
  ASSUME PackTypeOK, PackInv, UNCHANGED pvars
  PROVE  PackTypeOK' /\ PackInv'
  <1>. USE DEF pvars
  <1>1. PackTypeOK'
    BY DEF PackTypeOK, IsTree
  <1>2. SameInput /\ packed' = packed /\ stack' = stack /\ pkg' = pkg
    BY DEF SameInput
  <1>3. CallsInv'
    <2>1. ASSUME NEW i \in DOMAIN stack, NEW c, c = stack[i]
          PROVE  Followed(c)'
      <3>1. Followed(c)
        BY <2>1 DEF PackInv, CallsInv
      <3>. QED  BY <1>2, <3>1, StaysLoaded, CoveredGrows DEF Followed
    <2>. QED  BY <1>2, <2>1 DEF CallsInv
  <1>4. ASSUME NEW f, Script(f)'
        PROVE  /\ Script(f) /\ (InCall(f) => InCall(f)')
               /\ Covered(f, Len(LoadsOf(f))) => Covered(f, Len(LoadsOf(f)))'
    <2>1. PICK n : n = Len(LoadsOf(f))
      OBVIOUS
    <2>2. Covered(f, n) => Covered(f, n)' /\ Len(LoadsOf(f))' = n
      BY <1>2, <2>1, CoveredGrows, SameLoads
    <2>3. Script(f) /\ (InCall(f) => InCall(f)')
      BY <1>2, <1>4 DEF Script, InCall, SameInput
    <2>. QED  BY <2>1, <2>2, <2>3
  <1>5. FollowedInv' /\ PackageIsClosed'
    BY <1>2, <1>4 DEF PackInv, FollowedInv, PackageIsClosed
  <1>6. LoadedInv' /\ NestsOnce'
    BY <1>2, StaysLoaded DEF PackInv, LoadedInv, NestsOnce
  <1>. QED  BY <1>1, <1>3, <1>5, <1>6 DEF PackInv

-----------------------------------------------------------------------------
(* Names in the package *)

\* A name below the root, and back.
LEMMA KeyOfInside ==
  ASSUME NEW p \in Paths, Inside(p)
  PROVE  p = Root \o Key(p) /\ Key(p) \in Paths
  <1>0. Root \in Paths /\ Len(Root) \in Nat /\ Len(p) \in Nat /\ Len(p) > Len(Root)
    BY PackagingAssumption, LenProperties DEF Paths, Inside
  <1>1. Len(Root) \in Nat \ {0}
    BY <1>0, PackagingAssumption, EmptySeq DEF Paths, Top
  <1>2. SubSeq(p, 1, Len(Root)) \o SubSeq(p, Len(Root) + 1, Len(p)) = SubSeq(p, 1, Len(p))
    <2>1. /\ 1 \in 1..(Len(p) + 1) /\ Len(Root) \in (1 - 1)..Len(p)
          /\ Len(p) \in Len(Root)..Len(p)
      BY <1>0
    <2>. QED  BY <2>1, ConcatAdjacentSubSeq DEF Paths
  <1>3. SubSeq(p, 1, Len(p)) = p
    BY SubSeqFull DEF Paths
  <1>4. Key(p) \in Paths
    <2>1. \A i \in (Len(Root) + 1)..Len(p) : p[i] \in Names
      <3>1. \A i \in 1..Len(p) : p[i] \in Names
        BY ElementOfSeq DEF Paths
      <3>. QED  BY <1>0, <3>1
    <2>. QED  BY <1>0, <2>1, SubSeqProperties DEF Key, Paths
  <1>. QED  BY <1>2, <1>3, <1>4 DEF Key, Inside

LEMMA KeysDiffer ==
  ASSUME NEW p \in Paths, NEW q \in Paths, Inside(p), Inside(q), Key(p) = Key(q)
  PROVE  p = q
  BY KeyOfInside

\* A file whose path is the root's followed by a name goes by that name.
LEMMA InsideByName ==
  ASSUME PackTypeOK, NEW n \in Paths, Root \o n \in DOMAIN tree
  PROVE  Inside(Root \o n) /\ Key(Root \o n) = n
  <1>. DEFINE p == Root \o n
  <1>0. Root \in Paths /\ Len(Root) \in Nat /\ Len(n) \in Nat
    BY PackagingAssumption, LenProperties DEF Paths
  <1>1. p \in Paths /\ p # Root
    BY DEF PackTypeOK, IsTree
  <1>2. n # <<>>
    BY <1>0, <1>1, ConcatEmptySeq DEF Paths
  <1>3. Len(n) # 0 /\ Len(Root) # 0
    BY <1>0, <1>2, PackagingAssumption, EmptySeq DEF Paths, Top
  <1>4. Len(p) = Len(Root) + Len(n)
    BY <1>0, ConcatProperties DEF Paths
  <1>5. SubSeq(p, 1, Len(Root)) = Root
    <2>1. 1 \in 1..Len(Root) /\ Len(Root) \in 1..Len(Root)
      BY <1>0, <1>3
    <2>. QED  BY <1>0, <2>1, SubSeqOfConcat1, SubSeqFull DEF Paths
  <1>6. Inside(p)
    BY <1>0, <1>3, <1>4, <1>5 DEF Inside
  <1>7. Root \o Key(p) = Root \o n /\ Key(p) \in Paths
    BY <1>1, <1>6, KeyOfInside
  <1>8. Key(p) = n
    BY ONLY <1>0, <1>7, n \in Paths, ConcatSimplifications DEF Paths
  <1>. QED  BY <1>6, <1>8

\* Files inside the root have names of their own.
LEMMA InsideNames ==
  ASSUME PackTypeOK, \A p \in packed : Inside(p)
  PROVE  ~Collision /\ \A p \in packed : FileOf(Key(p)) = p
  <1>1. packed \subseteq Paths
    BY DEF PackTypeOK, IsTree
  <1>2. \A p, q \in packed : Key(p) = Key(q) => p = q
    BY <1>1, KeysDiffer
  <1>. QED  BY <1>2 DEF Collision, FileOf

\* All the files of a package whose loads are aligned are inside the root.
LEMMA AlignedInside ==
  ASSUME PackTypeOK, PackInv, pkg = "packed", AllAligned, NEW p \in packed
  PROVE  Inside(p)
  <1>0. PICK f \in packed \cup {Top} :
          \E i \in DOMAIN LoadsOf(f) :
            LoadsOf(f)[i].from # "plugin" /\ Resolve(LoadsOf(f)[i]) = p
    BY DEF PackInv, LoadedInv, IsLoaded
  <1>1. PICK i \in DOMAIN LoadsOf(f) :
          LoadsOf(f)[i].from # "plugin" /\ Resolve(LoadsOf(f)[i]) = p
    BY <1>0
  <1>2. PICK l : l = LoadsOf(f)[i]
    OBVIOUS
  <1>3. l \in Loads
    <2>1. LoadsOf(f) \in Seq(Loads)
      BY LoadsOfScript DEF PackTypeOK
    <2>. QED  BY <1>2, <2>1, LenProperties, ElementOfSeq
  <1>4. p = Root \o l.path /\ l.path \in Paths
    BY <1>1, <1>2, <1>3 DEF AllAligned, Aligned, Loads
  <1>. QED  BY <1>4, InsideByName DEF PackTypeOK

\* The run finds what such a package's scripts load.
LEMMA AlignedFound ==
  ASSUME PackTypeOK, PackInv, pkg = "packed", AllAligned,
         NEW f \in packed \cup {Top}, f = Top \/ tree[f].kind \in {"star", "py"},
         NEW i \in DOMAIN LoadsOf(f), LoadsOf(f)[i].from # "plugin"
  PROVE  Holds(Asked(LoadsOf(f)[i])) /\ FileOf(Asked(LoadsOf(f)[i])) \in packed
  <1>1. PICK l : l = LoadsOf(f)[i]
    OBVIOUS
  <1>2. LoadsOf(f) \in Seq(Loads)
    BY LoadsOfScript DEF PackTypeOK
  <1>3. l \in Loads
    BY <1>1, <1>2, LenProperties, ElementOfSeq
  <1>p. l.path \in Paths
    BY <1>3 DEF Loads
  <1>4. Script(f)
    <2>1. CASE f = Top
      BY <2>1 DEF Script
    <2>2. CASE f # Top /\ tree[f].kind = "py"
      <3>1. LoadsOf(f) = <<>>
        BY <2>2 DEF AllAligned
      <3>. QED  BY <3>1
    <2>. QED  BY <2>1, <2>2 DEF Script
  <1>5. Resolve(l) \in packed
    <2>1. Covered(f, Len(LoadsOf(f)))
      BY <1>4 DEF PackInv, PackageIsClosed
    <2>2. i <= Len(LoadsOf(f))
      BY <1>2, LenProperties
    <2>. QED  BY <1>1, <2>1, <2>2 DEF Covered
  <1>6. Resolve(l) = Root \o l.path
    BY <1>1 DEF AllAligned, Aligned
  <1>7. Key(Resolve(l)) = l.path
    BY <1>p, <1>5, <1>6, InsideByName DEF PackTypeOK
  <1>. QED  BY <1>1, <1>5, <1>7 DEF Holds, FileOf, Asked

-----------------------------------------------------------------------------
(* The run *)

Safe == TypeOK /\ PackInv /\ RunInv

LEMMA InitSafe == Init => Safe
  <1>. SUFFICES ASSUME Init PROVE Safe
    OBVIOUS
  <1>1. PackTypeOK /\ PackInv
    BY PackInitOK DEF Init
  <1>2. TypeOK
    BY <1>1, EmptySeq DEF Init, TypeOK
  <1>3. RunInv
    BY DEF Init, PackInit, RunInv, FramesInv, PackageSuffices, InsideOpens, Made
  <1>. QED  BY <1>1, <1>2, <1>3 DEF Safe

\* The file being executed and the load it is at.
LEMMA TopFrame ==
  ASSUME Safe, run = "on"
  PROVE  /\ frames \in Seq(Frames) /\ frames # <<>>
         /\ Len(frames) \in Nat \ {0} /\ DOMAIN frames = 1..Len(frames)
         /\ Executed = frames[Len(frames)]
         /\ Executed.file \in packed \cup {Top}
         /\ Executed.file = Top \/ tree[Executed.file].kind \in {"star", "py"}
  <1>1. /\ frames \in Seq(Frames) /\ frames # <<>>
        /\ Len(frames) \in Nat \ {0} /\ DOMAIN frames = 1..Len(frames)
    BY EmptySeq, LenProperties DEF Safe, TypeOK
  <1>2. Executed = frames[Len(frames)] /\ Len(frames) \in 1..Len(frames)
    BY <1>1 DEF Executed
  <1>. QED  BY <1>1, <1>2 DEF Safe, RunInv, FramesInv

\* A run that fails does so for a reason that the package gives.
LEMMA FailStep ==
  ASSUME Safe, UNCHANGED pvars, Made, NEW reason, Fail(reason),
         reason \in {"collision", "module-not-found", "not-found", "unsupported",
                     "syntax", "not-json", "eval-error", "function-not-found"},
         pkg = "packed" /\ AllAligned =>
           reason \notin {"not-found", "collision"} /\ (reason = "syntax" => Unparsed),
         reason = "collision" => Collision
  PROVE  Safe'
  <1>1. PackTypeOK' /\ PackInv'
    BY PackStutter DEF Safe, TypeOK
  <1>2. run' = "failed" /\ why' = reason /\ frames' = <<>> /\ Made'
    BY DEF Fail, Made, pvars
  <1>3. TypeOK'
    BY <1>1, <1>2, EmptySeq DEF TypeOK
  <1>4. FramesInv'
    BY <1>2 DEF FramesInv
  <1>5. PackageSuffices'
    <2>0. \A f : LoadsOf(f)' = LoadsOf(f) /\ \A l : Aligned(l)' <=> Aligned(l)
      BY SameLoads DEF Aligned, SameInput, pvars
    <2>1. AllAligned' <=> AllAligned
      BY <2>0 DEF AllAligned, pvars
    <2>2. Unparsed' <=> Unparsed
      BY DEF Unparsed, pvars
    <2>. QED  BY <1>2, <2>1, <2>2 DEF PackageSuffices, pvars
  <1>6. InsideOpens'
    <2>1. Collision' <=> Collision
      BY DEF Collision, pvars
    <2>2. (\A p \in packed : Inside(p)) =>
            ~Collision /\ \A p \in packed : FileOf(Key(p)) = p
      BY InsideNames DEF Safe, TypeOK
    <2>3. why' = "collision" => Collision
      BY <1>2
    <2>4. \A p \in packed : FileOf(Key(p))' = FileOf(Key(p))
      BY DEF FileOf, pvars
    <2>. QED  BY <2>2, <2>3, <2>4 DEF InsideOpens, pvars
  <1>. QED  BY <1>1, <1>3, <1>4, <1>5, <1>6 DEF Safe, RunInv

\* A run goes on: its stack holds files of the package.
LEMMA GoOnStep ==
  ASSUME Safe, UNCHANGED pvars, Made, why = "none", why' = why,
         \/ run' = "on" /\ frames' # <<>>
         \/ run' \in {"off", "ok"} /\ frames' = <<>>,
         frames' \in Seq(Frames), FramesInv'
  PROVE  Safe'
  <1>1. PackTypeOK' /\ PackInv'
    BY PackStutter DEF Safe, TypeOK
  <1>2. TypeOK'
    BY <1>1 DEF TypeOK, Made, pvars
  <1>3. PackageSuffices'
    BY DEF PackageSuffices
  <1>4. InsideOpens'
    <2>1. \A p \in packed : FileOf(Key(p))' = FileOf(Key(p))
      BY DEF FileOf, pvars
    <2>2. (\A p \in packed : Inside(p)) => \A p \in packed : FileOf(Key(p)) = p
      BY InsideNames DEF Safe, TypeOK
    <2>. QED  BY <2>1, <2>2 DEF InsideOpens, pvars
  <1>. QED  BY <1>1, <1>2, <1>3, <1>4 DEF Safe, RunInv

\* Moving to the next load keeps the files that are executed.
LEMMA OnwardFrames ==
  ASSUME Safe, run = "on"
  PROVE  /\ Onward \in Seq(Frames) /\ Onward # <<>> /\ DOMAIN Onward = DOMAIN frames
         /\ \A i \in DOMAIN frames : Onward[i].file = frames[i].file
  <1>1. /\ frames \in Seq(Frames) /\ frames # <<>>
        /\ Len(frames) \in Nat \ {0} /\ DOMAIN frames = 1..Len(frames)
    BY TopFrame
  <1>n. Len(frames) \in Nat
    BY <1>1
  <1>2. /\ Onward \in Seq(Frames) /\ Onward # <<>> /\ Len(Onward) = Len(frames)
        /\ \A i \in 1..(Len(frames) - 1) : Onward[i] = frames[i]
        /\ Onward[Len(frames)].file = frames[Len(frames)].file
    BY <1>1, AdvancedTop DEF Onward, Callers, Executed
  <1>3. DOMAIN Onward = 1..Len(frames)
    BY <1>2, LenProperties
  <1>4. \A i \in 1..Len(frames) : i # Len(frames) => i \in 1..(Len(frames) - 1)
    BY <1>n
  <1>. QED  BY <1>1, <1>2, <1>3, <1>4

LEMMA OnwardStep ==
  ASSUME Safe, run = "on", UNCHANGED pvars, UNCHANGED <<run, why>>, frames' = Onward
  PROVE  Safe'
  <1>1. Made /\ why = "none"
    BY DEF Safe, TypeOK
  <1>2. FramesInv'
    BY OnwardFrames DEF Safe, RunInv, FramesInv, pvars
  <1>. QED  BY <1>1, <1>2, OnwardFrames, GoOnStep

LEMMA ExecFileStep ==
  ASSUME Safe, ExecFile
  PROVE  Safe'
  <1>1. /\ run = "on" /\ UNCHANGED pvars /\ UNCHANGED <<run, why>>
        /\ frames' = Append(Onward, [file |-> Found, next |-> 1])
        /\ Found \in packed /\ tree[Found].kind \in {"star", "py"}
    BY DEF ExecFile, WantsFile, AtLoadOfRun, Holds, Found, FileOf
  <1>2. Made /\ why = "none" /\ Found \in Paths
    BY <1>1 DEF Safe, TypeOK, PackTypeOK, IsTree
  <1>3. /\ Onward \in Seq(Frames) /\ DOMAIN Onward = DOMAIN frames
        /\ \A i \in DOMAIN frames : Onward[i].file = frames[i].file
    BY <1>1, OnwardFrames
  <1>4. /\ frames' \in Seq(Frames) /\ frames' # <<>> /\ Len(frames') = Len(Onward) + 1
        /\ \A i \in 1..Len(Onward) : frames'[i] = Onward[i]
        /\ frames'[Len(frames')].file = Found
    BY <1>1, <1>2, <1>3, PushedTop
  <1>5. DOMAIN frames' = 1..Len(frames') /\ DOMAIN Onward = 1..Len(Onward) /\ Len(Onward) \in Nat
    BY <1>3, <1>4, LenProperties
  <1>6. FramesInv'
    <2>1. ASSUME NEW i \in DOMAIN frames'
          PROVE  \/ frames'[i].file = Top
                 \/ frames'[i].file \in packed' /\ tree'[frames'[i].file].kind \in {"star", "py"}
      <3>1. CASE i = Len(frames')
        BY <1>1, <1>4, <3>1 DEF pvars
      <3>2. CASE i # Len(frames')
        <4>1. i \in 1..Len(Onward)
          BY <1>4, <1>5, <3>2
        <4>2. frames'[i].file = frames[i].file /\ i \in DOMAIN frames
          BY <1>3, <1>4, <1>5, <4>1
        <4>. QED  BY <1>1, <4>2 DEF Safe, RunInv, FramesInv, pvars
      <3>. QED  BY <3>1, <3>2
    <2>. QED  BY <2>1 DEF FramesInv
  <1>. QED  BY <1>1, <1>2, <1>4, <1>6, GoOnStep

LEMMA FileDoneStep ==
  ASSUME Safe, FileDone
  PROVE  Safe'
  <1>1. /\ run = "on" /\ UNCHANGED pvars /\ UNCHANGED <<run, why>>
        /\ frames' = Callers /\ Len(frames) > 1
    BY DEF FileDone
  <1>2. Made /\ why = "none"
    BY <1>1 DEF Safe, TypeOK
  <1>3. frames \in Seq(Frames) /\ frames # <<>> /\ Len(frames) \in Nat \ {0} /\ DOMAIN frames = 1..Len(frames)
    BY <1>1, TopFrame
  <1>4. /\ frames' \in Seq(Frames) /\ Len(frames') = Len(frames) - 1 /\ frames' # <<>>
        /\ \A i \in 1..(Len(frames) - 1) : frames'[i] = frames[i]
    BY <1>1, <1>3, FrontProperties DEF Callers
  <1>5. DOMAIN frames' = 1..(Len(frames) - 1)
    BY <1>4, LenProperties
  <1>6. \A i \in 1..(Len(frames) - 1) : i \in 1..Len(frames)
    <2>1. Len(frames) \in Nat
      BY <1>3
    <2>. QED  BY <2>1
  <1>7. FramesInv'
    BY <1>1, <1>3, <1>4, <1>5, <1>6 DEF Safe, RunInv, FramesInv, pvars
  <1>. QED  BY <1>1, <1>2, <1>4, <1>7, GoOnStep

LEMMA RunStep ==
  ASSUME Safe, RunNext
  PROVE  Safe'
  <1>1. CASE OpenTar
    <2>1. Made /\ UNCHANGED pvars /\ run = "off"
      BY <1>1 DEF OpenTar
    <2>2. CASE Collision
      <3>1. ~(pkg = "packed" /\ AllAligned)
        BY <2>2, AlignedInside, InsideNames DEF Safe, TypeOK
      <3>2. Fail("collision")
        BY <1>1, <2>2 DEF OpenTar
      <3>. QED  BY <2>1, <2>2, <3>1, <3>2, FailStep
    <2>3. CASE ~Collision
      <3>. DEFINE top == [file |-> Top, next |-> 1]
      <3>1. run' = "on" /\ frames' = <<top>> /\ why' = why
        BY <1>1, <2>3 DEF OpenTar
      <3>2. why = "none"
        BY <2>1 DEF Safe, TypeOK
      <3>3. top \in Frames
        BY DEF Frames, Paths, Top
      <3>4. frames' \in Seq(Frames) /\ frames' # <<>> /\ DOMAIN frames' = {1} /\ frames'[1] = top
        BY <3>1, <3>3
      <3>5. FramesInv'
        BY <3>4 DEF FramesInv
      <3>. QED  BY <2>1, <3>1, <3>2, <3>4, <3>5, GoOnStep
    <2>. QED  BY <2>2, <2>3
  <1>2. CASE LoadModule
    <2>1. run = "on" /\ UNCHANGED pvars /\ Made
      BY <1>2 DEF LoadModule, AtLoadOfRun, Safe, TypeOK
    <2>2. CASE Wanted.path = <<>>
      BY <1>2, <2>1, <2>2, OnwardStep DEF LoadModule
    <2>3. CASE Wanted.path # <<>>
      <3>1. Fail("module-not-found")
        BY <1>2, <2>3 DEF LoadModule
      <3>. QED  BY <2>1, <3>1, FailStep
    <2>. QED  BY <2>2, <2>3
  <1>3. CASE ExecFile
    BY <1>3, ExecFileStep
  <1>4. CASE LoadData
    BY <1>4, OnwardStep DEF LoadData, WantsFile, AtLoadOfRun
  <1>5. CASE LoadFails
    <2>1. /\ run = "on" /\ UNCHANGED pvars /\ Made
          /\ Executed.next \in DOMAIN LoadsOf(Executed.file) /\ Wanted.from # "plugin"
      BY <1>5 DEF LoadFails, WantsFile, AtLoadOfRun, Safe, TypeOK
    <2>2. pkg = "packed" /\ AllAligned => Holds(Asked(Wanted)) /\ Found \in packed
      BY <2>1, TopFrame, AlignedFound DEF Safe, TypeOK, Wanted, Found
    <2>3. CASE ~Holds(Asked(Wanted)) /\ Fail("not-found")
      BY <2>1, <2>2, <2>3, FailStep
    <2>4. CASE tree[Found].kind = "odd" /\ Fail("unsupported")
      BY <2>1, <2>4, FailStep
    <2>5. CASE tree[Found].kind \in {"broken", "brokenpy"} /\ Fail("syntax")
      <3>1. pkg = "packed" /\ AllAligned => Unparsed
        BY <2>2, <2>5 DEF Safe, PackInv, LoadedInv, Readable, Unparsed
      <3>. QED  BY <2>1, <2>5, <3>1, FailStep
    <2>6. CASE Fail("not-json")
      BY <2>1, <2>6, FailStep
    <2>. QED  BY <1>5, <2>3, <2>4, <2>5, <2>6 DEF LoadFails
  <1>6. CASE FileDone
    BY <1>6, FileDoneStep
  <1>7. CASE CallMain
    <2>1. run = "on" /\ UNCHANGED pvars /\ Made /\ why = "none"
      BY <1>7 DEF CallMain, Safe, TypeOK
    <2>2. CASE run' = "ok" /\ frames' = <<>> /\ UNCHANGED why
      <3>1. FramesInv' /\ frames' \in Seq(Frames)
        BY <2>2, EmptySeq DEF FramesInv
      <3>. QED  BY <2>1, <2>2, <3>1, GoOnStep
    <2>3. CASE Fail("function-not-found")
      BY <2>1, <2>3, FailStep
    <2>4. CASE Fail("eval-error")
      BY <2>1, <2>4, FailStep
    <2>. QED  BY <1>7, <2>2, <2>3, <2>4 DEF CallMain
  <1>8. CASE FileFails
    <2>1. run = "on" /\ UNCHANGED pvars /\ Made /\ Fail("eval-error")
      BY <1>8 DEF FileFails, Safe, TypeOK
    <2>. QED  BY <2>1, FailStep
  <1>. QED  BY <1>1, <1>2, <1>3, <1>4, <1>5, <1>6, <1>7, <1>8 DEF RunNext

\* The client has packed before the run begins.
LEMMA ClientStep ==
  ASSUME Safe, PackNext, UNCHANGED rvars
  PROVE  Safe'
  <1>1. PackTypeOK' /\ PackInv'
    BY PackStep DEF Safe, TypeOK
  <1>2. pkg \in {"none", "packing"}
    BY DEF PackNext, DirToTar, Package, Skip, Refuse, PackData, PackScript, Return, AtFile, AtLoad
  <1>3. run = "off" /\ why = "none" /\ frames = <<>>
    BY <1>2 DEF Safe, TypeOK, Made
  <1>4. TypeOK'
    BY <1>1, <1>3, EmptySeq DEF TypeOK, rvars
  <1>5. FramesInv' /\ PackageSuffices'
    BY <1>3 DEF FramesInv, PackageSuffices, rvars
  <1>6. InsideOpens'
    <2>1. why' # "collision"
      BY <1>3 DEF rvars
    <2>2. ((\A p \in packed : Inside(p)) => \A p \in packed : FileOf(Key(p)) = p)'
      BY <1>1, InsideNames, PTL
    <2>. QED  BY <2>1, <2>2 DEF InsideOpens
  <1>. QED  BY <1>1, <1>4, <1>5, <1>6 DEF Safe, RunInv

\* Nothing happens.
LEMMA StutterStep ==
  ASSUME Safe, UNCHANGED vars
  PROVE  Safe'
  <1>0. UNCHANGED pvars /\ UNCHANGED rvars
    BY DEF vars
  <1>1. PackTypeOK' /\ PackInv'
    BY <1>0, PackStutter DEF Safe, TypeOK
  <1>2. TypeOK'
    BY <1>0, <1>1 DEF Safe, TypeOK, Made, pvars, rvars
  <1>3. FramesInv'
    BY <1>0 DEF Safe, RunInv, FramesInv, pvars, rvars
  <1>4. \A f : LoadsOf(f)' = LoadsOf(f) /\ \A l : Aligned(l)' <=> Aligned(l)
    BY <1>0, SameLoads DEF Aligned, SameInput, pvars
  <1>5. PackageSuffices'
    BY <1>0, <1>4 DEF Safe, RunInv, PackageSuffices, AllAligned, Unparsed, pvars, rvars
  <1>6. \A p : FileOf(Key(p))' = FileOf(Key(p))
    BY <1>0 DEF FileOf, pvars
  <1>7. InsideOpens'
    BY <1>0, <1>6 DEF Safe, RunInv, InsideOpens, Made, pvars, rvars
  <1>. QED  BY <1>1, <1>2, <1>3, <1>5, <1>7 DEF Safe, RunInv

\* The invariant of the client and the run, for every file system, working
\* directory and script.
THEOREM Invariance == Spec => []Safe
  <1>1. Safe /\ [Next]_vars => Safe'
    BY RunStep, ClientStep, StutterStep DEF Next
  <1>. QED  BY InitSafe, <1>1, PTL DEF Spec

\* Every reachable state is well typed.
THEOREM TypeCorrect == Spec => []TypeOK
  BY Invariance, PTL DEF Safe

\* A package holds every file its scripts load (client.go:89-117).
THEOREM Closed == Spec => []PackageIsClosed
  BY Invariance, PTL DEF Safe, PackInv

\* A package holds nothing that its scripts do not load.
THEOREM Minimal == Spec => []PackageIsMinimal
  <1>1. Safe => PackageIsMinimal
    BY DEF Safe, PackInv, LoadedInv, PackageIsMinimal
  <1>. QED  BY Invariance, <1>1, PTL

\* The packager is never inside the same script twice.
THEOREM NestedOnce == Spec => []NestsOnce
  BY Invariance, PTL DEF Safe, PackInv

\* If client and run agree on where the loads lead, the run misses no file.
THEOREM Suffices == Spec => []PackageSuffices
  BY Invariance, PTL DEF Safe, RunInv

\* A package of files inside the root opens, each file under its own name.
THEOREM Opens == Spec => []InsideOpens
  BY Invariance, PTL DEF Safe, RunInv

===============================================================================
