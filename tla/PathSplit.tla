----------------------------- MODULE PathSplit -----------------------------
(***************************************************************************)
(* path_split of path.c: how a path becomes the components that            *)
(* explain_path_error walks.  An absolute path is the sequence of the      *)
(* lengths of its names; pr_fs_virtual_path copies it into a buffer that   *)
(* holds Size bytes and cuts off what does not fit.                        *)
(***************************************************************************)
EXTENDS Integers, Sequences

CONSTANTS
  MaxNames,  \* bound: names in a path
  MaxName,   \* bound: the length of a name
  Size,      \* sizeof(buf)
  Left       \* bound: how many characters are left on the stack behind the buffer's text

ASSUME SplitAssumption ==
  /\ {MaxNames, MaxName, Left} \subseteq Nat
  /\ Size \in Nat /\ Size > 2

VARIABLES
  path,        \* the lengths of the names
  buf,         \* what is in the buffer: names, and whether a '/' ends them
  stray,       \* the lengths of the components that begin with an appended '.'
  components,  \* the array that is returned
  pc

vars == <<path, buf, stray, components, pc>>

Paths == UNION {[1 .. n -> 1 .. MaxName] : n \in 0 .. MaxNames}

Component(kind, len) == [kind |-> kind, len |-> len]
Root == Component("root", 1)

\* Components of these lengths.
Parts(kind, lens) == [k \in DOMAIN lens |-> Component(kind, lens[k])]

\* Taken(names)[k]: the characters of the first k names, with the '/' before each.
Taken(names) ==
  LET upto[k \in 0 .. Len(names)] == IF k = 0 THEN 0 ELSE upto[k-1] + names[k] + 1
  IN upto

(***************************************************************************)
(* What a '.' and at most Left characters behind it are split into: any of *)
(* them may be a '/', which splits it and is itself in no component.       *)
(***************************************************************************)
Strays ==
  {s \in UNION {[1 .. n -> 1 .. Left + 1] : n \in 1 .. Left + 1} :
     Taken(s)[Len(s)] - 1 <= Left + 1}

TypeOK ==
  /\ path \in Paths
  /\ buf \in [names : Paths, slash : BOOLEAN]
  /\ stray \in Strays \cup {<<>>}
  /\ \A k \in DOMAIN components :
       components[k] \in [kind : {"root", "name", "stray"}, len : 1 .. MaxName + Left + 1]
  /\ pc \in {"copy", "append", "split", "done"}

Init ==
  /\ path \in Paths
  /\ buf = [names |-> <<>>, slash |-> FALSE]
  /\ stray = <<>> /\ components = <<>>
  /\ pc = "copy"
-----------------------------------------------------------------------------
\* strlen of the buffer.
full_pathlen == Taken(buf.names)[Len(buf.names)] + (IF buf.slash THEN 1 ELSE 0)

\* Mutant of Cut: a cut right behind a '/' leaves a name without characters.
Cut_EmptyName(room) ==
  LET whole == {k \in 0 .. Len(path) : Taken(path)[k] <= room}
      k == CHOOSE m \in whole : \A h \in whole : h <= m
      rest == room - Taken(path)[k]
  IN IF k = Len(path)
     THEN [names |-> path, slash |-> path = <<>>]
     ELSE [names |-> SubSeq(path, 1, k) \o IF rest > 0 THEN <<rest - 1>> ELSE <<>>,
           slash |-> FALSE]

\* The first room characters of path; "/" is the path without a name.
Cut(room) ==
  LET whole == {k \in 0 .. Len(path) : Taken(path)[k] <= room}
      k == CHOOSE m \in whole : \A h \in whole : h <= m
      rest == room - Taken(path)[k]
  IN IF k = Len(path)
     THEN [names |-> path, slash |-> path = <<>>]
     ELSE [names |-> SubSeq(path, 1, k) \o IF rest > 1 THEN <<rest - 1>> ELSE <<>>,
           slash |-> rest = 1]

\* pr_fs_virtual_path is given sizeof(buf)-1 and ends its copy with a NUL.
CopyPath ==
  /\ pc = "copy" /\ pc' = "append"
  /\ buf' = Cut(Size - 2)
  /\ UNCHANGED <<path, stray, components>>

\* Mutant of AppendDot: the last character is not looked at.
AppendDot_Always ==
  /\ pc = "append" /\ pc' = "split"
  /\ IF full_pathlen < Size - 1 THEN stray' \in Strays ELSE stray' = <<>>
  /\ UNCHANGED <<path, buf, components>>

(***************************************************************************)
(* The '.' takes the place of the NUL, so the text goes on with what is    *)
(* left behind it, to the next NUL of the uninitialized stack.             *)
(***************************************************************************)
AppendDot ==
  /\ pc = "append" /\ pc' = "split"
  /\ IF buf.slash /\ full_pathlen < Size - 1 THEN stray' \in Strays ELSE stray' = <<>>
  /\ UNCHANGED <<path, buf, components>>

\* Mutant of Split: the path "/" is not returned early.
Split_NoReturn ==
  /\ pc = "split" /\ pc' = "done"
  /\ components' = <<Root>> \o (Parts("name", buf.names) \o Parts("stray", stray))
  /\ UNCHANGED <<path, buf, stray>>

\* full_pathlen is that of before the '.' was appended.
Split ==
  /\ pc = "split" /\ pc' = "done"
  /\ components' =
       IF full_pathlen = 1 THEN <<Root>>
       ELSE <<Root>> \o (Parts("name", buf.names) \o Parts("stray", stray))
  /\ UNCHANGED <<path, buf, stray>>

Next == CopyPath \/ AppendDot \/ Split

Spec == Init /\ [][Next]_vars
-----------------------------------------------------------------------------
(***************************************************************************)
(* Properties.                                                             *)
(***************************************************************************)

\* A path that fits into the buffer is split into "/" and its names, whatever
\* is left on the stack behind it; "/" itself is one component (path.c:61-66).
SplitExact ==
  pc = "done" /\ Taken(path)[Len(path)] <= Size - 2 =>
    components = <<Root>> \o Parts("name", path)

\* The buffer cuts the path right behind the '/' that follows its first n names.
CutAtSlash(n) == n < Len(path) /\ Taken(path)[n] + 1 = Size - 2

\* What a path that does not fit loses, it loses at its end (path.c:49-68):
\* "/" comes first and each name of the path at its place, whole unless it is
\* the last component.  Components that are none of the path's come only where
\* the path is cut right behind a '/', all of them behind it, however much is
\* left on the stack and wherever a '/' is in that.
LeadingIntact ==
  pc = "done" =>
    /\ components[1] = Root
    /\ \A k \in 2 .. Len(components) :
         IF \E n \in 0 .. Len(path) : n < k - 1 /\ CutAtSlash(n)
         THEN components[k].kind = "stray"
         ELSE /\ components[k].kind = "name" /\ k - 1 \in DOMAIN path
              /\ components[k].len <= path[k-1]
              /\ k < Len(components) => components[k].len = path[k-1]
=============================================================================
