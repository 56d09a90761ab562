----------------------------- MODULE InputProofs -----------------------------
(***************************************************************************)
(* A replayed input script is the session it was recorded from, whatever   *)
(* the keys, the frames, the lengths of the instructions and the scripts   *)
(* are.  The argument has two halves that meet in the file.  Of the live   *)
(* session: no edge falls inside a frame, so every step saw the keys that  *)
(* the recorded edges make at any time from its frame's start to its own   *)
(* end (SeenKeys), the steps hang together by their clocks (Chained) and   *)
(* the disk is told by the first recorded swap (SeenDisks).  Of the        *)
(* player: it has passed exactly the events that are due, although it      *)
(* stops at the first late one (Player); and its clock and frame are those *)
(* the session had after as many steps (Following).                        *)
(***************************************************************************)
EXTENDS InputReplay, SequenceTheorems, FiniteSetTheorems, WellFoundedInduction, TLAPS

\* A set of numbers that is not empty has a least one.
LEMMA LeastOf ==
  ASSUME NEW S, S \subseteq Nat, S # {}
  PROVE  Min(S) \in S /\ \A y \in S : Min(S) <= y
<1> DEFINE R == {p \in Nat \X Nat : p[1] < p[2]}
<1>0. IsWellFoundedOn(R, Nat)
  BY NatLessThanWellFounded, Zenon DEF OpToRel
<1>1. \E x \in S : \A y \in S : ~(<<y, x>> \in R)
  BY <1>0, WFMin
<1>2. PICK x \in S : \A y \in S : ~(<<y, x>> \in R)  BY <1>1
<1>3. \A y \in S : x <= y
  <2>1. TAKE y \in S
  <2>2. ~(y < x)
    BY <1>2
  <2> QED BY <2>2
<1> QED BY <1>3 DEF Min

(***************************************************************************)
(* Scripts as data.                                                        *)
(***************************************************************************)
\* The lines of a recorded file behind its tag.
Script(f) == SubSeq(f, 2, Len(f))

\* Every place below the end of a file holds a line of it.
LEMMA BodyLines ==
  ASSUME NEW f \in Seq(ScriptLines), f # << >>
  PROVE  Body(f) \in Seq(ScriptLines)
<1> DEFINE I == {i \in 1 .. Len(f) : f[i].kind = "end"}
<1> DEFINE e == IF I # {} THEN Min(I) ELSE 0
<1>1. Len(f) \in Nat /\ \A i \in 1 .. Len(f) : f[i] \in ScriptLines  BY LenProperties, ElementOfSeq
<1>2. e \in 0 .. Len(f)
  <2>1. CASE I = {}  BY <2>1, <1>1
  <2>2. CASE I # {}
    <3>1. I \subseteq Nat  OBVIOUS
    <3>2. Min(I) \in I  BY <3>1, <2>2, LeastOf
    <3> QED BY <3>2, <2>2
  <2> QED BY <2>1, <2>2
<1> DEFINE last == IF e = 0 THEN Len(f) ELSE e - 1
<1>3. last \in Int /\ last <= Len(f)  BY <1>1, <1>2
<1>4. Body(f) = SubSeq(f, 2, last)  BY DEF Body, SelectInSeq
<1> HIDE DEF last
<1>5. \A i \in 2 .. last : f[i] \in ScriptLines  BY <1>1, <1>3
<1> QED BY <1>3, <1>4, <1>5, SubSeqProperties

\* How many lines are behind the tag.
LEMMA RestLength ==
  ASSUME NEW n \in Nat, n >= 1
  PROVE  (IF 2 <= n THEN n - 2 + 1 ELSE 0) = n - 1
  OBVIOUS

\* What the body of a script is, by the place of its end.
LEMMA BodyIs ==
  ASSUME NEW f, NEW e,
         (IF {i \in 1 .. Len(f) : f[i].kind = "end"} # {}
          THEN Min({i \in 1 .. Len(f) : f[i].kind = "end"}) ELSE 0) = e
  PROVE  Body(f) = SubSeq(f, 2, IF e = 0 THEN Len(f) ELSE e - 1)
  BY DEF Body, SelectInSeq

\* A recorded file, closed or cut off, has its lines as its body.
LEMMA BodyRecorded ==
  ASSUME NEW f \in Seq(ScriptLines), f # << >>, \A n \in 1 .. Len(f) : f[n].kind # "end"
  PROVE  Body(f) = Script(f) /\ Body(Append(f, End)) = Script(f)
<1> DEFINE g == Append(f, End)
<1>1. Len(f) \in Nat /\ Len(f) >= 1  BY LenProperties, EmptySeq
<1>2. g \in Seq(ScriptLines) /\ Len(g) = Len(f) + 1 /\ g[Len(f) + 1] = End
      /\ \A n \in 1 .. Len(f) : g[n] = f[n]
  <2>1. End \in ScriptLines  BY DEF End, Line, ScriptLines, Names
  <2> QED BY <2>1, AppendProperties
<1>3. Body(f) = Script(f)
  <2>1. {i \in 1 .. Len(f) : f[i].kind = "end"} = {}  OBVIOUS
  <2> QED BY <2>1 DEF Body, SelectInSeq, Script
<1>4. Body(g) = SubSeq(g, 2, Len(f))
  <2> DEFINE I == {i \in 1 .. Len(g) : g[i].kind = "end"}
  <2>1. End.kind = "end"  BY DEF End, Line
  <2>2. I = {Len(f) + 1}  BY <1>1, <1>2, <2>1
  <2>3. Min(I) = Len(f) + 1
    <3>1. I \subseteq Nat /\ I # {}  BY <2>2, <1>1
    <3>2. Min(I) \in I  BY <3>1, LeastOf
    <3> QED BY <3>2, <2>2
  <2>4. (IF I # {} THEN Min(I) ELSE 0) = Len(f) + 1  BY <2>2, <2>3
  <2>5. Body(g) = SubSeq(g, 2, IF Len(f) + 1 = 0 THEN Len(g) ELSE Len(f) + 1 - 1)
    <3> DEFINE e == Len(f) + 1
    <3>1. (IF {i \in 1 .. Len(g) : g[i].kind = "end"} # {}
           THEN Min({i \in 1 .. Len(g) : g[i].kind = "end"}) ELSE 0) = e
      BY <2>4
    <3>2. Body(g) = SubSeq(g, 2, IF e = 0 THEN Len(g) ELSE e - 1)
      <4> HIDE DEF g, e
      <4> QED BY <3>1, BodyIs
    <3> QED BY <3>2
  <2> QED BY <2>5, <1>1
<1>5. SubSeq(g, 2, Len(f)) = SubSeq(f, 2, Len(f))
  <2>1. \A i \in 2 .. Len(f) : g[i] \in ScriptLines /\ f[i] \in ScriptLines
    BY <1>1, <1>2, ElementOfSeq
  <2>2. /\ SubSeq(g, 2, Len(f)) \in Seq(ScriptLines) /\ SubSeq(f, 2, Len(f)) \in Seq(ScriptLines)
        /\ Len(SubSeq(g, 2, Len(f))) = Len(SubSeq(f, 2, Len(f)))
        /\ Len(SubSeq(f, 2, Len(f))) = Len(f) - 1
        /\ \A i \in 1 .. Len(f) - 2 + 1 : SubSeq(g, 2, Len(f))[i] = g[2 + i - 1]
                                       /\ SubSeq(f, 2, Len(f))[i] = f[2 + i - 1]
    <3>1. /\ SubSeq(g, 2, Len(f)) \in Seq(ScriptLines)
          /\ Len(SubSeq(g, 2, Len(f))) = IF 2 <= Len(f) THEN Len(f) - 2 + 1 ELSE 0
          /\ \A i \in 1 .. Len(f) - 2 + 1 : SubSeq(g, 2, Len(f))[i] = g[2 + i - 1]
      BY <1>1, <2>1, SubSeqProperties
    <3>2. /\ SubSeq(f, 2, Len(f)) \in Seq(ScriptLines)
          /\ Len(SubSeq(f, 2, Len(f))) = IF 2 <= Len(f) THEN Len(f) - 2 + 1 ELSE 0
          /\ \A i \in 1 .. Len(f) - 2 + 1 : SubSeq(f, 2, Len(f))[i] = f[2 + i - 1]
      BY <1>1, <2>1, SubSeqProperties
    <3>3. (IF 2 <= Len(f) THEN Len(f) - 2 + 1 ELSE 0) = Len(f) - 1  BY <1>1, RestLength
    <3> QED BY <3>1, <3>2, <3>3
  <2>3. \A i \in 1 .. Len(SubSeq(f, 2, Len(f))) :
          SubSeq(g, 2, Len(f))[i] = SubSeq(f, 2, Len(f))[i]
    <3>1. TAKE i \in 1 .. Len(SubSeq(f, 2, Len(f)))
    <3>2. i \in 1 .. Len(f) - 2 + 1 /\ 2 + i - 1 \in 1 .. Len(f)  BY <2>2, <1>1
    <3> QED BY <3>2, <2>2, <1>2
  <2> QED BY <2>2, <2>3, SeqEqual
<1> QED BY <1>3, <1>4, <1>5 DEF Script

\* The script of a file that gets one more line.
LEMMA ScriptGrows ==
  ASSUME NEW f \in Seq(ScriptLines), f # << >>, NEW l \in ScriptLines
  PROVE  /\ Script(f) \in Seq(ScriptLines) /\ Len(Script(f)) = Len(f) - 1
         /\ \A i \in 1 .. Len(f) - 1 : Script(f)[i] = f[i + 1]
         /\ Script(Append(f, l)) = Append(Script(f), l)
<1> DEFINE g == Append(f, l)  s == Script(f)
<1>1. Len(f) \in Nat /\ Len(f) >= 1  BY LenProperties, EmptySeq
<1>2. /\ g \in Seq(ScriptLines) /\ Len(g) = Len(f) + 1 /\ g[Len(f) + 1] = l
      /\ \A n \in 1 .. Len(f) : g[n] = f[n]
  BY AppendProperties
<1>3. s \in Seq(ScriptLines) /\ Len(s) = Len(f) - 1 /\ \A i \in 1 .. Len(f) - 1 : s[i] = f[i + 1]
  <2>1. \A i \in 2 .. Len(f) : f[i] \in ScriptLines  BY <1>1, ElementOfSeq
  <2>2. /\ s \in Seq(ScriptLines) /\ Len(s) = IF 2 <= Len(f) THEN Len(f) - 2 + 1 ELSE 0
        /\ \A i \in 1 .. Len(f) - 2 + 1 : s[i] = f[2 + i - 1]
    BY <1>1, <2>1, SubSeqProperties DEF Script
  <2>3. \A i \in 1 .. Len(f) - 1 : i \in 1 .. Len(f) - 2 + 1 /\ 2 + i - 1 = i + 1  BY <1>1
  <2>4. (IF 2 <= Len(f) THEN Len(f) - 2 + 1 ELSE 0) = Len(f) - 1  BY <1>1, RestLength
  <2>5. Len(s) = Len(f) - 1  BY <2>2, <2>4
  <2>6. \A i \in 1 .. Len(f) - 1 : s[i] = f[i + 1]
    <3>1. TAKE i \in 1 .. Len(f) - 1
    <3>2. s[i] = f[2 + i - 1]  BY <2>2, <2>3
    <3> QED BY <3>2, <2>3
  <2> QED BY <2>2, <2>5, <2>6
<1>4. Script(g) = Append(s, l)
  <2> DEFINE a == Script(g)  b == Append(s, l)
  <2>1. \A i \in 2 .. Len(f) + 1 : g[i] \in ScriptLines  BY <1>1, <1>2, ElementOfSeq
  <2>2. /\ a \in Seq(ScriptLines) /\ Len(a) = IF 2 <= Len(f) + 1 THEN Len(f) + 1 - 2 + 1 ELSE 0
        /\ \A i \in 1 .. Len(f) + 1 - 2 + 1 : a[i] = g[2 + i - 1]
    BY <1>1, <1>2, <2>1, SubSeqProperties DEF Script
  <2> HIDE DEF s
  <2>3. b \in Seq(ScriptLines) /\ Len(b) = Len(f) /\ b[Len(f)] = l
        /\ \A i \in 1 .. Len(f) - 1 : b[i] = f[i + 1]
    <3>1. b \in Seq(ScriptLines) /\ Len(b) = Len(s) + 1 /\ b[Len(s) + 1] = l
          /\ \A i \in 1 .. Len(s) : b[i] = s[i]
      BY <1>3, AppendProperties
    <3> QED BY <3>1, <1>1, <1>3
  <2>4. \A i \in 1 .. Len(f) : a[i] = b[i]
    <3>1. TAKE i \in 1 .. Len(f)
    <3>2. a[i] = g[i + 1]
      <4>1. i \in 1 .. Len(f) + 1 - 2 + 1 /\ 2 + i - 1 = i + 1  BY <1>1
      <4> QED BY <4>1, <2>2
    <3>3. CASE i = Len(f)  BY <3>2, <3>3, <2>3, <1>2
    <3>4. CASE i # Len(f)
      <4>1. i \in 1 .. Len(f) - 1 /\ i + 1 \in 1 .. Len(f)  BY <3>4, <1>1
      <4> QED BY <4>1, <3>2, <2>3, <1>2
    <3> QED BY <3>3, <3>4
  <2>5. Len(a) = Len(f)  BY <2>2, <1>1
  <2> HIDE DEF a, b
  <2> QED BY <2>2, <2>3, <2>4, <2>5, SeqEqual DEF a, b
<1> QED BY <1>3, <1>4

(***************************************************************************)
(* What is pressed after some events.                                      *)
(***************************************************************************)
Naming(s, places, kind, k) == {n \in places : s[n].kind = kind /\ s[n].name = k}

\* A key is down if the last event that names it presses it, or if it was and
\* no event names it.
LEMMA SettledHas ==
  ASSUME NEW set, NEW s, NEW places, NEW kind, NEW k
  PROVE  k \in Settled(set, s, places, kind) <=>
           \/ \E n \in Naming(s, places, kind, k) :
                s[n].down /\ \A m \in Naming(s, places, kind, k) : m <= n
           \/ k \in set /\ Naming(s, places, kind, k) = {}
  BY DEF Settled, Naming

\* Only the lines of the kind count, and what they say.
LEMMA SettledSame ==
  ASSUME NEW set, NEW s, NEW t, NEW kind, NEW P, NEW Q,
         \A n \in P \cup Q : /\ s[n].kind = t[n].kind /\ s[n].name = t[n].name
                             /\ s[n].down = t[n].down,
         \A n \in P \cup Q : s[n].kind = kind => (n \in P <=> n \in Q)
  PROVE  Settled(set, s, P, kind) = Settled(set, t, Q, kind)
<1>1. \A k : Naming(s, P, kind, k) = Naming(t, Q, kind, k)  BY DEF Naming
<1>2. \A k : \A n \in Naming(s, P, kind, k) : s[n].down = t[n].down  BY DEF Naming
<1>3. \A k : k \in Settled(set, s, P, kind) <=> k \in Settled(set, t, Q, kind)
  BY <1>1, <1>2, SettledHas
<1> QED BY <1>3

\* Events, and then later ones.
Before(P, Q) == P \subseteq Int /\ Q \subseteq Int /\ \A p \in P, q \in Q : p < q

\* Applying some events and then later ones is applying them all at once:
\* the player may take the script in any number of goes (apply_due).
LEMMA SettledTwice ==
  ASSUME NEW set, NEW s, NEW kind, NEW P, NEW Q, NEW R, Before(P, Q), R = P \cup Q
  PROVE  Settled(Settled(set, s, P, kind), s, Q, kind) = Settled(set, s, R, kind)
<1>0. P \subseteq Int /\ Q \subseteq Int /\ \A p \in P, q \in Q : p < q  BY DEF Before
<1> DEFINE A(k) == Naming(s, P, kind, k)
           B(k) == Naming(s, Q, kind, k)
           C(k) == Naming(s, R, kind, k)
           first == Settled(set, s, P, kind)
<1>1. ASSUME NEW k
      PROVE  k \in Settled(first, s, Q, kind) <=> k \in Settled(set, s, R, kind)
  <2>1. C(k) = A(k) \cup B(k) /\ A(k) \subseteq P /\ B(k) \subseteq Q  BY DEF Naming
  <2>2. k \in first <=>
          \/ \E n \in A(k) : s[n].down /\ \A m \in A(k) : m <= n
          \/ k \in set /\ A(k) = {}
    BY SettledHas
  <2>3. k \in Settled(first, s, Q, kind) <=>
          \/ \E n \in B(k) : s[n].down /\ \A m \in B(k) : m <= n
          \/ k \in first /\ B(k) = {}
    BY SettledHas
  <2>4. k \in Settled(set, s, R, kind) <=>
          \/ \E n \in C(k) : s[n].down /\ \A m \in C(k) : m <= n
          \/ k \in set /\ C(k) = {}
    BY SettledHas
  <2> HIDE DEF A, B, C, first
  <2>5. CASE B(k) = {}  BY <2>1, <2>2, <2>3, <2>4, <2>5
  <2>6. CASE B(k) # {}
    <3>1. \A n \in C(k) : (\A m \in C(k) : m <= n) => n \in B(k)
      <4>1. TAKE n \in C(k)
      <4>2. HAVE \A m \in C(k) : m <= n
      <4>3. PICK q \in B(k) : TRUE  BY <2>6
      <4>4. q <= n  BY <4>2, <4>3, <2>1
      <4>5. CASE n \in A(k)
        <5>1. n < q /\ n \in Int /\ q \in Int  BY <4>3, <4>5, <2>1, <1>0
        <5> QED BY <5>1, <4>4
      <4> QED BY <4>5, <2>1
    <3>2. \A n \in B(k) : (\A m \in B(k) : m <= n) => \A m \in C(k) : m <= n
      <4>1. TAKE n \in B(k)
      <4>2. HAVE \A m \in B(k) : m <= n
      <4>3. TAKE m \in C(k)
      <4>4. CASE m \in A(k)
        <5>1. m < n /\ m \in Int /\ n \in Int  BY <4>1, <4>4, <2>1, <1>0
        <5> QED BY <5>1
      <4> QED BY <4>2, <4>4, <2>1
    <3>3. (\E n \in B(k) : s[n].down /\ \A m \in B(k) : m <= n)
          <=> (\E n \in C(k) : s[n].down /\ \A m \in C(k) : m <= n)
      BY <3>1, <3>2, <2>1
    <3> QED BY <3>3, <2>3, <2>4, <2>6, <2>1
  <2> QED BY <2>5, <2>6
<1> QED BY <1>1

\* One more event.
Says(line, kind, name, down) == line.kind = kind /\ line.name = name /\ line.down = down
OneMore(P, n, R) == Before(P, {n}) /\ R = P \cup {n}
Changed(after, before, name, down) ==
  after = IF down THEN before \cup {name} ELSE before \ {name}
\* One later event presses or releases what it names.
LEMMA SettledOne ==
  ASSUME NEW set, NEW s, NEW P, NEW n, NEW R, OneMore(P, n, R),
         NEW kind, NEW name, NEW down, Says(s[n], kind, name, down)
  PROVE  Changed(Settled(set, s, R, kind), Settled(set, s, P, kind), name, down)
<1> DEFINE first == Settled(set, s, P, kind)
           Q == {n}
<1>00. Before(P, Q) /\ R = P \cup Q  BY DEF OneMore
<1>0. \A k : Naming(s, Q, kind, k) = IF name = k THEN {n} ELSE {}  BY DEF Naming, Says
<1>1. n \in Int  BY <1>00 DEF Before
<1> HIDE DEF Q
<1>2. Settled(first, s, Q, kind) = Settled(set, s, R, kind)  BY <1>00, SettledTwice
<1> HIDE DEF first
<1>3. \A k : k \in Settled(first, s, Q, kind) <=>
               \/ name = k /\ s[n].down
               \/ k \in first /\ name # k
  <2>1. TAKE k
  <2> DEFINE N == Naming(s, Q, kind, k)
  <2>2. k \in Settled(first, s, Q, kind) <=>
            \/ \E m \in N : s[m].down /\ \A j \in N : j <= m
            \/ k \in first /\ N = {}
    BY SettledHas
  <2>3. N = IF name = k THEN {n} ELSE {}  BY <1>0
  <2> HIDE DEF N
  <2>4. n <= n  BY <1>1
  <2> QED BY <2>2, <2>3, <2>4
<1>4. Settled(first, s, Q, kind) = IF down THEN first \cup {name} ELSE first \ {name}
  BY <1>3 DEF Says
<1> QED BY <1>2, <1>4 DEF first, Changed

(***************************************************************************)
(* The invariant of a session and of its replay.                           *)
(***************************************************************************)
\* A step the session took, and a state of either run.
Sights == [length : StepLengths, keys : SUBSET Names, disk : Nat, cycles : Nat, start : Nat,
           frame : Nat]
Sessions ==
  [phase : {"live", "replay", "refused"}, cycles : Nat, start : Nat, frame : Nat,
   in_frame : BOOLEAN, halted : BOOLEAN, keys : SUBSET Names, joys : SUBSET Names, disk : Nat,
   held : SUBSET KeyNames, menu : BOOLEAN, file : Seq(ScriptLines), told : BOOLEAN,
   seen : Seq(Sights), events : Seq(ScriptLines), cursor : Nat, applied : Nat,
   shown : SUBSET Names, shown_disk : Nat, done : Nat, recorded : BOOLEAN, options : Options,
   swap_frame : Nat]

\* The events of a script up to some time, and those a player has passed.
UpTo(s, now) == {n \in EventsOf(s) : s[n].at <= now}
Passed(s, cursor) == {n \in EventsOf(s) : n < cursor}

\* The clock and the frame after the first n steps of a session.
Reached(seen, n) == IF n = 0 THEN 0 ELSE seen[n].cycles + seen[n].length
Closes(r) == r.cycles + r.length - r.start >= FrameTarget
Inside(seen, n) == n # 0 /\ ~Closes(seen[n])
FrameAfter(seen, n) ==
  IF n = 0 THEN 0 ELSE IF Closes(seen[n]) THEN seen[n].frame + 1 ELSE seen[n].frame
Clocked(i, seen, n) ==
  /\ i.cycles = Reached(seen, n) /\ i.frame = FrameAfter(seen, n) /\ i.in_frame = Inside(seen, n)
  /\ i.in_frame => i.start = seen[n].start
Chained(seen) ==
  \A n \in 1 .. Len(seen) :
    /\ seen[n].cycles = Reached(seen, n - 1) /\ seen[n].frame = FrameAfter(seen, n - 1)
    /\ seen[n].start = IF Inside(seen, n - 1) THEN seen[n - 1].start ELSE Reached(seen, n - 1)
    /\ seen[n].start <= seen[n].cycles

\* What a step saw are the keys of the script at any time from the start of
\* its frame until it ends: no edge falls inside a frame.
SeenKeys(s, seen) ==
  \A n \in 1 .. Len(seen) :
    \A now \in seen[n].start .. (seen[n].cycles + seen[n].length - 1) :
      seen[n].keys = Settled({}, s, UpTo(s, now), "key")

\* And the disk that the swaps up to its frame put in.
OneSwap(file) == \A m, n \in SwapsOf(file) : m = n
SeenDisks(file, seen) ==
  \A n \in 1 .. Len(seen) :
    seen[n].disk = IF \E m \in SwapsOf(file) : file[m].at <= seen[n].frame THEN 1 ELSE 0

Recording(f) == f # << >> /\ \A n \in 1 .. Len(f) : f[n].kind # "end"

LiveTold(i) ==
  LET s == Script(i.file)
  IN  /\ Chained(i.seen) /\ Clocked(i, i.seen, Len(i.seen)) /\ i.frame <= Len(i.seen)
      /\ i.in_frame => i.start <= i.cycles
      /\ \A n \in 1 .. Len(i.seen) :
           /\ i.seen[n].cycles + i.seen[n].length <= i.cycles
           /\ i.seen[n].frame <= i.frame /\ (~i.in_frame => i.seen[n].frame < i.frame)
      /\ i.keys = Settled({}, s, EventsOf(s), "key")
      /\ \A m \in EventsOf(s) : s[m].at <= IF i.in_frame THEN i.start ELSE i.cycles
      /\ SeenKeys(s, i.seen)
      /\ SwapsOf(i.file) # {} => Disks > 1
      /\ \A m \in SwapsOf(i.file) : i.file[m].at <= i.frame
      /\ OneSwap(i.file) =>
           /\ i.disk = IF SwapsOf(i.file) = {} THEN 0 ELSE 1
           /\ SeenDisks(i.file, i.seen)

\* The swap is made at the start of its frame.
DiskBefore(swap_frame, frame) == IF Disks > 1 /\ swap_frame < frame THEN 1 ELSE 0
DiskIn(swap_frame, frame) == IF Disks > 1 /\ swap_frame <= frame THEN 1 ELSE 0

\* What the file of a session says to its replay.
ToldBy(file, seen, swap_frame) ==
  /\ Chained(seen) /\ SeenKeys(Body(file), seen)
  /\ \A n \in 1 .. Len(seen) : seen[n].frame <= MaxSteps
  /\ OneSwap(file) =>
       \A n \in 1 .. Len(seen) :
         seen[n].disk = DiskIn(swap_frame, seen[n].frame)

\* The events of a script, delayed.
EventsAre(ev, s, shift) ==
  /\ EventsOf(ev) = EventsOf(s)
  /\ \A n \in EventsOf(s) :
       /\ ev[n].kind = s[n].kind /\ ev[n].name = s[n].name /\ ev[n].down = s[n].down
       /\ ev[n].at = s[n].at + shift

\* The player's own state.
PlayerIs(ev, cursor, keys, joys, attached) ==
  /\ Ordered(ev) /\ cursor \in 1 .. Len(ev) + 1
  /\ keys = Settled({}, ev, Passed(ev, cursor), "key")
  /\ joys = IF attached THEN Settled({}, ev, Passed(ev, cursor), "joy") ELSE {}

\* It has passed what was due, if it was asked at all.
Begun(i) == i.done > 0 \/ (i.options.frame_start /\ i.in_frame)
Player(i) ==
  /\ Body(i.file) \in Seq(ScriptLines) /\ EventsAre(i.events, Body(i.file), i.options.shift)
  /\ PlayerIs(i.events, i.cursor, i.keys, i.joys, JoystickAttached(i))
  /\ i.applied <= i.cycles
  /\ IF Begun(i) THEN Passed(i.events, i.cursor) = UpTo(i.events, i.applied) ELSE i.cursor = 1

Replaying(i) ==
  /\ Player(i)
  /\ i.done > 0 /\ ~i.options.frame_start => i.applied = i.cycles
  /\ i.in_frame /\ i.options.frame_start => i.applied = i.start
  /\ i.in_frame => i.options.program # "steps"
  /\ i.halted => i.options.program # "window" /\ ~i.in_frame
  /\ i.options.program # "steps" =>
       i.disk = IF i.in_frame THEN DiskIn(i.swap_frame, i.frame)
                ELSE DiskBefore(i.swap_frame, i.frame)

Following(i) ==
  i.recorded /\ i.told =>
    /\ ToldBy(i.file, i.seen, i.swap_frame) /\ i.options.shift = 0
    /\ i.done <= Len(i.seen) /\ i.cycles = Reached(i.seen, i.done)
    /\ i.options.program # "steps" /\ ~i.halted => Clocked(i, i.seen, i.done)
    /\ i.done > 0 =>
         /\ i.done > 1 \/ i.options.frame_start => i.shown = i.seen[i.done].keys
         /\ OneSwap(i.file) /\ i.options.program # "steps" =>
              i.shown_disk = i.seen[i.done].disk

SessionInv(i) ==
  /\ i \in Sessions /\ Len(i.seen) <= MaxSteps
  /\ i.phase = "live" => Recording(i.file) /\ (i.told => LiveTold(i))
  /\ i.phase = "replay" => Replaying(i) /\ Following(i)

InputInv == SessionInv(inp)

\* The lines the player goes past at some time: up to the first event that is
\* not due.
LEMMA DueLinesAre ==
  ASSUME NEW i \in Sessions, NEW now \in Nat, NEW c, c = i.cursor, NEW len, len = Len(i.events),
         c \in 1 .. len + 1
  PROVE  \E d \in c .. len + 1 :
           /\ DueLines(i, now) = c .. d - 1
           /\ \A n \in c .. d - 1 : n \in EventsOf(i.events) => i.events[n].at <= now
           /\ d <= len => d \in EventsOf(i.events) /\ i.events[d].at > now
<1>1. i.events \in Seq(ScriptLines) /\ DOMAIN i.events = 1 .. len /\ len \in Nat
  <2>1. i.events \in Seq(ScriptLines)  BY DEF Sessions
  <2> QED BY <2>1, LenProperties
<1> DEFINE I == {n \in c .. len : IsEvent(i.events[n]) /\ i.events[n].at > now}
           late == IF I # {} THEN Min(I) ELSE 0
<1>2. DueLines(i, now) = c .. (IF late = 0 THEN len ELSE late - 1)
  BY DEF DueLines, SelectInSubSeq
<1>3. \A n \in 1 .. len : i.events[n].at \in Nat
  <2> DEFINE ev == i.events
  <2>1. ev \in Seq(ScriptLines) /\ len = Len(ev)  BY <1>1
  <2> HIDE DEF ev
  <2>2. \A n \in 1 .. len : ev[n] \in ScriptLines  BY <2>1, ElementOfSeq
  <2>3. \A n \in 1 .. len : ev[n].at \in Nat  BY <2>2 DEF ScriptLines
  <2> QED BY <2>3 DEF ev
<1>4. CASE I = {}
  <2>1. DueLines(i, now) = c .. (len + 1) - 1  BY <1>1, <1>2, <1>4
  <2>2. \A n \in c .. (len + 1) - 1 : n \in EventsOf(i.events) => i.events[n].at <= now
    BY <1>1, <1>3, <1>4 DEF EventsOf
  <2> QED BY <2>1, <2>2, <1>1
<1>5. CASE I # {}
  <2>1. I \subseteq Nat  BY <1>1
  <2>2. Min(I) \in I /\ \A y \in I : Min(I) <= y  BY <2>1, <1>5, LeastOf
  <2>3. late = Min(I) /\ late \in c .. len /\ late \in Nat \ {0}  BY <2>2, <1>5
  <2>4. IsEvent(i.events[late]) /\ i.events[late].at > now  BY <2>2, <2>3
  <2>5. \A y \in I : late <= y  BY <2>2, <2>3
  <2>6. DueLines(i, now) = c .. late - 1
    <3> HIDE DEF late
    <3> QED BY <1>2, <2>3
  <2> HIDE DEF late
  <2>7. late \in EventsOf(i.events)  BY <2>3, <2>4, <1>1 DEF EventsOf
  <2>8. \A n \in c .. late - 1 : n \in EventsOf(i.events) => i.events[n].at <= now
    <3>1. TAKE n \in c .. late - 1
    <3>2. HAVE n \in EventsOf(i.events)
    <3>3. n \in c .. len /\ n \in 1 .. len /\ ~(late <= n)  BY <2>3, <1>1
    <3>4. n \notin I  BY <3>3, <2>5
    <3> QED BY <3>2, <3>3, <3>4, <1>3 DEF EventsOf
  <2>9. late \in c .. len + 1  BY <2>3, <1>1
  <2> QED BY <2>9, <2>4, <2>6, <2>7, <2>8
<1> QED BY <1>4, <1>5

\* After them it has passed the events up to that time, if it had passed no
\* later one before, and the keys are what these make them.
LEMMA PassedAll ==
  ASSUME NEW ev \in Seq(ScriptLines), Ordered(ev), NEW now \in Nat, NEW len, len = Len(ev),
         NEW c \in 1 .. len + 1, NEW d \in c .. len + 1,
         Passed(ev, c) \subseteq UpTo(ev, now),
         \A n \in c .. d - 1 : n \in EventsOf(ev) => ev[n].at <= now,
         d <= len => d \in EventsOf(ev) /\ ev[d].at > now
  PROVE  Passed(ev, d) = UpTo(ev, now)
<1>1. len \in Nat /\ DOMAIN ev = 1 .. len  BY LenProperties
<1>2. EventsOf(ev) \subseteq 1 .. len  BY <1>1 DEF EventsOf
<1>3. \A n \in EventsOf(ev) : ev[n].at \in Nat
  <2>1. \A n \in 1 .. len : ev[n] \in ScriptLines  BY ElementOfSeq
  <2> QED BY <2>1, <1>2 DEF ScriptLines
<1>4. \A n \in EventsOf(ev) : n < d => ev[n].at <= now
  <2>1. TAKE n \in EventsOf(ev)
  <2>2. HAVE n < d
  <2>3. CASE n < c  BY <2>3 DEF Passed, UpTo
  <2>4. CASE ~(n < c)
    <3>1. n \in c .. d - 1  BY <2>2, <2>4, <1>1, <1>2
    <3> QED BY <3>1
  <2> QED BY <2>3, <2>4
<1>5. \A n \in EventsOf(ev) : ~(n < d) => ev[n].at > now
  <2>1. TAKE n \in EventsOf(ev)
  <2>2. HAVE ~(n < d)
  <2>3. d <= len /\ d <= n  BY <2>2, <1>1, <1>2
  <2>4. d \in EventsOf(ev) /\ ev[d].at > now  BY <2>3
  <2>5. ev[d].at <= ev[n].at  BY <2>1, <2>3, <2>4 DEF Ordered
  <2>6. ev[d].at \in Nat /\ ev[n].at \in Nat  BY <2>1, <2>4, <1>3
  <2> QED BY <2>4, <2>5, <2>6
<1> QED BY <1>3, <1>4, <1>5 DEF Passed, UpTo

\* The lines the cursor goes past settle, on top of what it has passed, what
\* all of them settle.
LEMMA SettledPassed ==
  ASSUME NEW ev \in Seq(ScriptLines), NEW len, len = Len(ev),
         NEW c \in 1 .. len + 1, NEW d \in c .. len + 1, NEW kind \in {"key", "joy"},
         NEW Q, Q = c .. d - 1, NEW P, P = Passed(ev, c), NEW S, S = Passed(ev, d)
  PROVE  Settled(Settled({}, ev, P, kind), ev, Q, kind) = Settled({}, ev, S, kind)
<1> DEFINE R == P \cup Q
<1>1. len \in Nat /\ DOMAIN ev = 1 .. len  BY LenProperties
<1>2. EventsOf(ev) \subseteq 1 .. len  BY <1>1 DEF EventsOf
<1>3. Before(P, Q)  BY <1>1, <1>2 DEF Before, Passed
<1>4. \A n \in R \cup S : ev[n].kind = kind => (n \in R <=> n \in S)
  <2>1. \A n \in 1 .. len : ev[n].kind = kind => n \in EventsOf(ev)
    BY <1>1 DEF EventsOf, IsEvent
  <2>2. P \subseteq S /\ S \subseteq R  BY <1>1, <1>2 DEF Passed
  <2>3. \A n \in Q : n \in 1 .. len /\ n < d  BY <1>1
  <2>4. \A n \in Q : ev[n].kind = kind => n \in S  BY <2>1, <2>3 DEF Passed
  <2> QED BY <2>2, <2>4
<1>5. R = P \cup Q  OBVIOUS
<1> DEFINE first == Settled({}, ev, P, kind)
<1> HIDE DEF R
<1>6. Settled(Settled({}, ev, P, kind), ev, Q, kind) = Settled({}, ev, R, kind)
  BY <1>3, <1>5, SettledTwice
<1>7. Settled({}, ev, R, kind) = Settled({}, ev, S, kind)
  BY <1>4, SettledSame
<1> QED BY <1>6, <1>7

\* Only names of the script are pressed.
LEMMA SettledNames ==
  ASSUME NEW ev \in Seq(ScriptLines), NEW places, places \subseteq 1 .. Len(ev), NEW kind
  PROVE  Settled({}, ev, places, kind) \subseteq Names
<1>1. \A n \in 1 .. Len(ev) : ev[n] \in ScriptLines  BY ElementOfSeq
<1>2. \A n \in places : ev[n].name \in Names  BY <1>1 DEF ScriptLines
<1> QED BY <1>2 DEF Settled

\* What no step of a replay changes.
Carried(r, i) ==
  /\ r.phase = i.phase /\ r.file = i.file /\ r.told = i.told /\ r.seen = i.seen
  /\ r.events = i.events /\ r.recorded = i.recorded /\ r.options = i.options
  /\ r.swap_frame = i.swap_frame

\* apply_due brings the player up to the time it is asked for.
LEMMA AppliedDueIs ==
  ASSUME NEW i \in Sessions, NEW now \in Nat, NEW r, r = AppliedDue(i, now),
         PlayerIs(i.events, i.cursor, i.keys, i.joys, JoystickAttached(i)),
         Passed(i.events, i.cursor) \subseteq UpTo(i.events, now)
  PROVE  /\ r \in Sessions /\ Carried(r, i)
         /\ PlayerIs(r.events, r.cursor, r.keys, r.joys, JoystickAttached(r))
         /\ Passed(r.events, r.cursor) = UpTo(r.events, now) /\ r.applied = now
         /\ r.cycles = i.cycles /\ r.start = i.start /\ r.frame = i.frame
         /\ r.in_frame = i.in_frame /\ r.halted = i.halted /\ r.disk = i.disk
         /\ r.shown = i.shown /\ r.shown_disk = i.shown_disk /\ r.done = i.done
<1> DEFINE ev == i.events
           c == i.cursor
           len == Len(i.events)
<1>1. ev \in Seq(ScriptLines) /\ len = Len(ev) /\ len \in Nat /\ c \in 1 .. len + 1
      /\ DOMAIN ev = 1 .. len
  <2>1. ev \in Seq(ScriptLines)  BY DEF Sessions
  <2> QED BY <2>1, LenProperties DEF PlayerIs
<1>2. PICK d \in c .. len + 1 :
        /\ DueLines(i, now) = c .. d - 1
        /\ \A n \in c .. d - 1 : n \in EventsOf(ev) => ev[n].at <= now
        /\ d <= len => d \in EventsOf(ev) /\ ev[d].at > now
  BY <1>1, DueLinesAre
<1>3. Passed(ev, d) = UpTo(ev, now)
  <2>1. Ordered(ev) /\ Passed(ev, c) \subseteq UpTo(ev, now)  BY DEF PlayerIs
  <2> HIDE DEF ev, c, len
  <2> QED BY <1>1, <1>2, <2>1, PassedAll
<1>4. c + Cardinality(DueLines(i, now)) = d
  <2>1. c \in Int /\ d - 1 \in Int /\ d \in Int /\ c <= d  BY <1>1, <1>2
  <2>2. Cardinality(c .. d - 1) = IF c > d - 1 THEN 0 ELSE d - 1 - c + 1  BY <2>1, FS_Interval
  <2> QED BY <1>2, <2>1, <2>2
<1> DEFINE Q == DueLines(i, now)
           P == Passed(ev, c)
           S == Passed(ev, d)
<1>5. \A kind \in {"key", "joy"} :
        Settled(Settled({}, ev, P, kind), ev, Q, kind) = Settled({}, ev, S, kind)
  <2>1. TAKE kind \in {"key", "joy"}
  <2>2. Q = c .. d - 1  BY <1>2
  <2> HIDE DEF ev, c, len, Q, P, S
  <2> QED BY <1>1, <1>2, <2>2, SettledPassed DEF P, S
<1>6. Settled(i.keys, ev, Q, "key") = Settled({}, ev, S, "key")
      /\ (JoystickAttached(i) => Settled(i.joys, ev, Q, "joy") = Settled({}, ev, S, "joy"))
  BY <1>5 DEF PlayerIs
<1> DEFINE keys == Settled({}, ev, S, "key")
           joys == IF JoystickAttached(i) THEN Settled({}, ev, S, "joy") ELSE {}
<1>7. r = [i EXCEPT !.cursor = d, !.applied = now, !.keys = keys, !.joys = joys]
  <2>1. (IF JoystickAttached(i) THEN Settled(i.joys, ev, Q, "joy") ELSE i.joys) = joys
    BY <1>6 DEF PlayerIs
  <2>2. r = [i EXCEPT !.cursor = c + Cardinality(Q), !.applied = now,
                      !.keys = Settled(i.keys, ev, Q, "key"),
                      !.joys = IF JoystickAttached(i) THEN Settled(i.joys, ev, Q, "joy")
                               ELSE i.joys]
    BY DEF AppliedDue
  <2> QED BY <1>4, <1>6, <2>1, <2>2
<1>8. keys \subseteq Names /\ joys \subseteq Names
  <2>1. S \subseteq 1 .. Len(ev)  BY <1>1 DEF Passed, EventsOf
  <2> HIDE DEF S, ev
  <2> QED BY <1>1, <2>1, SettledNames
<1>9. d \in Nat /\ d \in 1 .. len + 1  BY <1>1, <1>2
<1> HIDE DEF keys, joys
<1>10. /\ r.cursor = d /\ r.applied = now /\ r.keys = keys /\ r.joys = joys
       /\ r.cycles = i.cycles /\ r.start = i.start /\ r.frame = i.frame
       /\ r.in_frame = i.in_frame /\ r.halted = i.halted /\ r.disk = i.disk
       /\ r.shown = i.shown /\ r.shown_disk = i.shown_disk /\ r.done = i.done
       /\ Carried(r, i)
  BY <1>7 DEF Sessions, Carried
<1>11. r \in Sessions  BY <1>7, <1>8, <1>9 DEF Sessions
<1>12. JoystickAttached(r) = JoystickAttached(i) /\ r.events = ev  BY <1>10 DEF Carried, JoystickAttached
<1>13. PlayerIs(r.events, r.cursor, r.keys, r.joys, JoystickAttached(r))
  BY <1>9, <1>10, <1>12 DEF PlayerIs, keys, joys
<1> QED BY <1>3, <1>10, <1>11, <1>12, <1>13

\* What an instruction of a replay changes.
LEMMA RanIs ==
  ASSUME NEW i \in Sessions, NEW length \in StepLengths, NEW r, r = Ran(i, length)
  PROVE  /\ r \in Sessions /\ Carried(r, i)
         /\ r.cycles = i.cycles + length /\ r.done = i.done + 1
         /\ r.shown = i.keys /\ r.shown_disk = i.disk
         /\ r.start = i.start /\ r.frame = i.frame /\ r.in_frame = i.in_frame
         /\ r.halted = i.halted /\ r.keys = i.keys /\ r.joys = i.joys /\ r.disk = i.disk
         /\ r.cursor = i.cursor /\ r.applied = i.applied
<1>1. length \in Nat /\ i.cycles + length \in Nat /\ i.done + 1 \in Nat
  BY InputAssumption DEF Sessions
<1>2. r = [[i EXCEPT !.shown = i.keys, !.shown_disk = i.disk, !.done = i.done + 1]
             EXCEPT !.cycles = i.cycles + length]
  BY DEF Ran, InstructionRun, Sessions
<1>3. r = [i EXCEPT !.shown = i.keys, !.shown_disk = i.disk, !.done = i.done + 1,
                    !.cycles = i.cycles + length]
  BY <1>2
<1> DEFINE cycles == i.cycles + length
           done == i.done + 1
<1> HIDE DEF cycles, done
<1>4. r = [i EXCEPT !.shown = i.keys, !.shown_disk = i.disk, !.done = done, !.cycles = cycles]
  BY <1>3 DEF cycles, done
<1>5. cycles \in Nat /\ done \in Nat  BY <1>1 DEF cycles, done
<1>6. r \in Sessions  BY <1>4, <1>5 DEF Sessions
<1>7. /\ r.cycles = cycles /\ r.done = done
      /\ r.shown = i.keys /\ r.shown_disk = i.disk
      /\ r.start = i.start /\ r.frame = i.frame /\ r.in_frame = i.in_frame
      /\ r.halted = i.halted /\ r.keys = i.keys /\ r.joys = i.joys /\ r.disk = i.disk
      /\ r.cursor = i.cursor /\ r.applied = i.applied /\ Carried(r, i)
  BY <1>4 DEF Sessions, Carried
<1> QED BY <1>6, <1>7 DEF cycles, done

\* What the end of a frame changes.
LEMMA FrameEndedIs ==
  ASSUME NEW i \in Sessions, NEW r, r = FrameEnded(i)
  PROVE  /\ r \in Sessions /\ Carried(r, i)
         /\ r.in_frame = FALSE /\ r.frame = i.frame + 1
         /\ r.cycles = i.cycles /\ r.done = i.done /\ r.shown = i.shown
         /\ r.shown_disk = i.shown_disk /\ r.start = i.start
         /\ r.halted = i.halted /\ r.keys = i.keys /\ r.joys = i.joys /\ r.disk = i.disk
         /\ r.cursor = i.cursor /\ r.applied = i.applied
<1> DEFINE frame == i.frame + 1
<1>1. frame \in Nat  BY DEF Sessions
<1>2. r = [i EXCEPT !.in_frame = FALSE, !.frame = frame]  BY DEF FrameEnded
<1> HIDE DEF frame
<1>3. r \in Sessions  BY <1>1, <1>2 DEF Sessions
<1>4. /\ r.in_frame = FALSE /\ r.frame = frame
      /\ r.cycles = i.cycles /\ r.done = i.done /\ r.shown = i.shown
      /\ r.shown_disk = i.shown_disk /\ r.start = i.start
      /\ r.halted = i.halted /\ r.keys = i.keys /\ r.joys = i.joys /\ r.disk = i.disk
      /\ r.cursor = i.cursor /\ r.applied = i.applied /\ Carried(r, i)
  BY <1>2 DEF Sessions, Carried
<1> QED BY <1>3, <1>4 DEF frame

\* The end of the loop, reached or not.
LEMMA FrameClosedIs ==
  ASSUME NEW i \in Sessions, NEW r, r = FrameClosed(i), i.in_frame
  PROVE  /\ r \in Sessions /\ Carried(r, i)
         /\ r.in_frame = ~(i.cycles - i.start >= FrameTarget)
         /\ r.frame = IF i.cycles - i.start >= FrameTarget THEN i.frame + 1 ELSE i.frame
         /\ r.cycles = i.cycles /\ r.done = i.done /\ r.shown = i.shown
         /\ r.shown_disk = i.shown_disk /\ r.start = i.start
         /\ r.halted = i.halted /\ r.keys = i.keys /\ r.joys = i.joys /\ r.disk = i.disk
         /\ r.cursor = i.cursor /\ r.applied = i.applied
<1>1. CASE i.cycles - i.start >= FrameTarget
  <2>1. r = FrameEnded(i)  BY <1>1 DEF FrameClosed
  <2> QED BY <2>1, <1>1, FrameEndedIs
<1>2. CASE ~(i.cycles - i.start >= FrameTarget)
  <2>1. r = i  BY <1>2 DEF FrameClosed
  <2> QED BY <2>1, <1>2 DEF Carried, Sessions
<1> QED BY <1>1, <1>2

\* A HALT changes nothing else.
LEMMA HaltedIs ==
  ASSUME NEW i \in Sessions, NEW halted \in BOOLEAN, NEW r, r = [i EXCEPT !.halted = halted]
  PROVE  /\ r \in Sessions /\ Carried(r, i) /\ r.halted = halted
         /\ r.in_frame = i.in_frame /\ r.frame = i.frame
         /\ r.cycles = i.cycles /\ r.done = i.done /\ r.shown = i.shown
         /\ r.shown_disk = i.shown_disk /\ r.start = i.start
         /\ r.keys = i.keys /\ r.joys = i.joys /\ r.disk = i.disk
         /\ r.cursor = i.cursor /\ r.applied = i.applied
<1>1. r \in Sessions  BY DEF Sessions
<1>2. /\ r.halted = halted
      /\ r.in_frame = i.in_frame /\ r.frame = i.frame
      /\ r.cycles = i.cycles /\ r.done = i.done /\ r.shown = i.shown
      /\ r.shown_disk = i.shown_disk /\ r.start = i.start
      /\ r.keys = i.keys /\ r.joys = i.joys /\ r.disk = i.disk
      /\ r.cursor = i.cursor /\ r.applied = i.applied /\ Carried(r, i)
  BY DEF Sessions, Carried
<1> QED BY <1>1, <1>2

\* The first swap puts the second disk in.
LEMMA SecondDisk ==
  ASSUME Disks > 1
  PROVE  (0 + 1) % Disks = 1
  BY InputAssumption

\* The start of a frame makes the swap that is due.
LEMMA FrameStartIs ==
  ASSUME NEW i \in Sessions, ~i.in_frame, NEW r, r = FrameBegun(DiskSwapped(i)),
         i.disk = DiskBefore(i.swap_frame, i.frame)
  PROVE  /\ r \in Sessions /\ Carried(r, i)
         /\ r.in_frame = TRUE /\ r.start = i.cycles
         /\ r.disk = DiskIn(i.swap_frame, i.frame)
         /\ r.frame = i.frame /\ r.cycles = i.cycles /\ r.done = i.done /\ r.shown = i.shown
         /\ r.shown_disk = i.shown_disk /\ r.halted = i.halted
         /\ r.keys = i.keys /\ r.joys = i.joys
         /\ r.cursor = i.cursor /\ r.applied = i.applied
<1> DEFINE disk == DiskIn(i.swap_frame, i.frame)
           d == DiskSwapped(i)
<1>1. i.swap_frame \in Nat /\ i.frame \in Nat /\ Disks \in Nat
  BY InputAssumption DEF Sessions
<1>2. d = [i EXCEPT !.disk = disk]
  <2>1. CASE SwapDue(i)
    <3>1. i.disk = 0 /\ disk = 1 /\ Disks > 1  BY <2>1, <1>1 DEF SwapDue, DiskBefore, DiskIn
    <3>2. d = [i EXCEPT !.disk = (i.disk + 1) % Disks]  BY <2>1 DEF DiskSwapped, DiskSwapHotkey
    <3>3. (i.disk + 1) % Disks = disk  BY <3>1, SecondDisk
    <3> QED BY <3>2, <3>3
  <2>2. CASE ~SwapDue(i)
    <3>1. i.disk = disk  BY <2>2, <1>1 DEF SwapDue, DiskBefore, DiskIn
    <3>2. d = i  BY <2>2 DEF DiskSwapped
    <3>3. i = [i EXCEPT !.disk = i.disk]  BY DEF Sessions
    <3> QED BY <3>1, <3>2, <3>3
  <2> QED BY <2>1, <2>2
<1>3. r = [d EXCEPT !.in_frame = TRUE, !.start = d.cycles]  BY DEF FrameBegun
<1>4. disk \in Nat  BY DEF DiskIn
<1> HIDE DEF disk, d
<1>5. d.cycles = i.cycles  BY <1>2 DEF Sessions
<1>6. r = [i EXCEPT !.disk = disk, !.in_frame = TRUE, !.start = i.cycles]
  BY <1>2, <1>3, <1>5
<1>7. r \in Sessions  BY <1>4, <1>6 DEF Sessions
<1>8. /\ r.in_frame = TRUE /\ r.start = i.cycles /\ r.disk = disk
      /\ r.frame = i.frame /\ r.cycles = i.cycles /\ r.done = i.done /\ r.shown = i.shown
      /\ r.shown_disk = i.shown_disk /\ r.halted = i.halted
      /\ r.keys = i.keys /\ r.joys = i.joys
      /\ r.cursor = i.cursor /\ r.applied = i.applied /\ Carried(r, i)
  BY <1>6 DEF Sessions, Carried
<1> QED BY <1>7, <1>8 DEF disk

\* The next step of the session starts where the clock of the run stands.
LEMMA NextClock ==
  ASSUME NEW seen \in Seq(Sights), Chained(seen), NEW n \in Nat, n < Len(seen),
         NEW l, l = seen[n + 1].length, NEW cycles, cycles = Reached(seen, n)
  PROVE  /\ seen[n + 1].cycles = cycles /\ Reached(seen, n + 1) = cycles + l
         /\ seen[n + 1] \in Sights /\ seen[n + 1].start <= cycles
<1>1. Len(seen) \in Nat /\ n + 1 \in 1 .. Len(seen) /\ (n + 1) - 1 = n /\ n + 1 # 0
  BY LenProperties
<1>2. seen[n + 1] \in Sights  BY <1>1, ElementOfSeq
<1> DEFINE m == n + 1
<1> HIDE DEF m
<1>3. m \in 1 .. Len(seen) /\ m - 1 = n /\ m # 0  BY <1>1 DEF m
<1>4. seen[m].cycles = Reached(seen, m - 1) /\ seen[m].start <= seen[m].cycles
  BY <1>3 DEF Chained
<1>5. seen[m].cycles = cycles /\ seen[m].start <= cycles  BY <1>3, <1>4
<1>6. Reached(seen, m) = cycles + seen[m].length  BY <1>3, <1>5 DEF Reached
<1> QED BY <1>2, <1>5, <1>6 DEF m

\* A replay that is in step with the session begins and ends its frames
\* where the session did.
LEMMA NextFrame ==
  ASSUME NEW seen \in Seq(Sights), Chained(seen), NEW n \in Nat, n < Len(seen),
         NEW i, Clocked(i, seen, n), i.cycles \in Nat,
         NEW start, start = IF i.in_frame THEN i.start ELSE i.cycles,
         NEW l, l = seen[n + 1].length
  PROVE  /\ seen[n + 1].start = start /\ seen[n + 1].frame = i.frame
         /\ Inside(seen, n + 1) = ~(i.cycles + l - start >= FrameTarget)
         /\ FrameAfter(seen, n + 1) =
              IF i.cycles + l - start >= FrameTarget THEN i.frame + 1 ELSE i.frame
<1>1. Len(seen) \in Nat /\ n + 1 \in 1 .. Len(seen) /\ (n + 1) - 1 = n /\ n + 1 # 0
  BY LenProperties
<1> DEFINE m == n + 1
<1> HIDE DEF m
<1>3. m \in 1 .. Len(seen) /\ m - 1 = n /\ m # 0 /\ l = seen[m].length  BY <1>1 DEF m
<1>4. /\ seen[m].cycles = Reached(seen, n) /\ seen[m].frame = FrameAfter(seen, n)
      /\ seen[m].start = IF Inside(seen, n) THEN seen[n].start ELSE Reached(seen, n)
  BY <1>3 DEF Chained
<1>5. seen[m].cycles = i.cycles /\ seen[m].frame = i.frame /\ seen[m].start = start
  BY <1>4 DEF Clocked
<1>6. Closes(seen[m]) <=> i.cycles + l - start >= FrameTarget  BY <1>3, <1>5 DEF Closes
<1>7. Inside(seen, m) = ~(i.cycles + l - start >= FrameTarget)  BY <1>3, <1>6 DEF Inside
<1>8. FrameAfter(seen, m) = IF i.cycles + l - start >= FrameTarget THEN i.frame + 1 ELSE i.frame
  BY <1>3, <1>5, <1>6 DEF FrameAfter
<1> QED BY <1>5, <1>7, <1>8 DEF m

\* The delayed events settle what those of the script do.
LEMMA SettledDelayed ==
  ASSUME NEW s, NEW ev, NEW shift \in Nat, EventsAre(ev, s, shift), NEW now \in Nat, NEW kind,
         NEW due, due = {n \in EventsOf(s) : s[n].at + shift <= now}
  PROVE  Settled({}, ev, UpTo(ev, now), kind) = Settled({}, s, due, kind)
<1> DEFINE U == UpTo(ev, now)
<1>1. U = due  BY DEF EventsAre, UpTo
<1>2. \A n \in U \cup due : ev[n].kind = s[n].kind /\ ev[n].name = s[n].name
                            /\ ev[n].down = s[n].down
  BY <1>1 DEF EventsAre
<1> HIDE DEF U
<1>3. Settled({}, ev, U, kind) = Settled({}, s, due, kind)
  BY <1>1, <1>2, SettledSame
<1> QED BY <1>3 DEF U

\* So the keys of a replay are those the step of the session saw.
LEMMA ShownKeys ==
  ASSUME NEW seen \in Seq(Sights), NEW s \in Seq(ScriptLines), SeenKeys(s, seen),
         NEW ev, EventsAre(ev, s, 0),
         NEW n \in 1 .. Len(seen), NEW now \in Nat,
         seen[n].start <= now, now <= seen[n].cycles,
         NEW keys, keys = Settled({}, ev, UpTo(ev, now), "key")
  PROVE  keys = seen[n].keys
<1> DEFINE due == {m \in EventsOf(s) : s[m].at + 0 <= now}
<1>1. \A m \in EventsOf(s) : s[m].at \in Nat
  <2>1. EventsOf(s) \subseteq 1 .. Len(s)  BY LenProperties DEF EventsOf
  <2>2. \A m \in 1 .. Len(s) : s[m] \in ScriptLines  BY ElementOfSeq
  <2> QED BY <2>1, <2>2 DEF ScriptLines
<1>2. due = UpTo(s, now)  BY <1>1 DEF UpTo
<1> HIDE DEF due
<1>3. Settled({}, ev, UpTo(ev, now), "key") = Settled({}, s, due, "key")
  BY SettledDelayed DEF due
<1>4. seen[n] \in Sights  BY ElementOfSeq
<1>5. now \in seen[n].start .. (seen[n].cycles + seen[n].length - 1)
  <2>1. seen[n].start \in Nat /\ seen[n].cycles \in Nat /\ seen[n].length \in StepLengths
    BY <1>4 DEF Sights
  <2>2. seen[n].length \in Nat \ {0}  BY <2>1, InputAssumption
  <2> QED BY <2>1, <2>2
<1>6. seen[n].keys = Settled({}, s, UpTo(s, now), "key")  BY <1>5 DEF SeenKeys
<1> QED BY <1>2, <1>3, <1>6

(***************************************************************************)
(* A step of a replay.                                                     *)
(***************************************************************************)
\* A run with the frame of its next instruction begun, where it has frames.
Ready(i, b) ==
  /\ b \in Sessions /\ Carried(b, i)
  /\ b.cycles = i.cycles /\ b.frame = i.frame /\ b.done = i.done
  /\ PlayerIs(b.events, b.cursor, b.keys, b.joys, JoystickAttached(b))
  /\ b.applied <= b.cycles
  /\ Passed(b.events, b.cursor) \subseteq UpTo(b.events, b.cycles)
  /\ b.done > 0 \/ b.options.frame_start =>
       Passed(b.events, b.cursor) = UpTo(b.events, b.applied)
  /\ b.options.frame_start => b.applied = b.start
  /\ ~b.options.frame_start /\ b.done > 0 => b.applied = b.cycles

\* The frames of the window program and of the headless one.
FrameReady(i, b) ==
  /\ b.in_frame /\ b.start = IF i.in_frame THEN i.start ELSE i.cycles
  /\ b.disk = DiskIn(i.swap_frame, i.frame)

\* The state after an instruction and the player's turn.
Played(b, a, length) ==
  /\ a \in Sessions /\ Carried(a, b)
  /\ a.cycles = b.cycles + length /\ a.done = b.done + 1
  /\ a.shown = b.keys /\ a.shown_disk = b.disk
  /\ a.start = b.start /\ a.frame = b.frame /\ a.in_frame = b.in_frame /\ a.disk = b.disk
  /\ PlayerIs(a.events, a.cursor, a.keys, a.joys, JoystickAttached(a))
  /\ a.applied = IF a.options.frame_start THEN a.start ELSE a.cycles
  /\ a.applied <= a.cycles
  /\ Passed(a.events, a.cursor) = UpTo(a.events, a.applied)

\* No event is taken back.
LEMMA UpToGrows ==
  ASSUME NEW ev \in Seq(ScriptLines), NEW x \in Nat, NEW y \in Nat, x <= y
  PROVE  UpTo(ev, x) \subseteq UpTo(ev, y)
<1>1. EventsOf(ev) \subseteq 1 .. Len(ev)  BY LenProperties DEF EventsOf
<1>2. \A m \in 1 .. Len(ev) : ev[m] \in ScriptLines  BY ElementOfSeq
<1>3. \A m \in EventsOf(ev) : ev[m].at \in Nat  BY <1>1, <1>2 DEF ScriptLines
<1> QED BY <1>3 DEF UpTo

\* Before it was asked, it has passed nothing.
LEMMA NothingPassed ==
  ASSUME NEW ev \in Seq(ScriptLines)
  PROVE  Passed(ev, 1) = {}
<1>1. EventsOf(ev) \subseteq 1 .. Len(ev)  BY LenProperties DEF EventsOf
<1>2. Len(ev) \in Nat  BY LenProperties
<1> QED BY <1>1, <1>2 DEF Passed

\* The player's turn, after an instruction or at the start of a frame.
Turned(i, r) ==
  /\ r \in Sessions /\ Carried(r, i)
  /\ PlayerIs(r.events, r.cursor, r.keys, r.joys, JoystickAttached(r))
  /\ Passed(r.events, r.cursor) = UpTo(r.events, r.cycles) /\ r.applied = r.cycles
  /\ r.cycles = i.cycles /\ r.start = i.start /\ r.frame = i.frame
  /\ r.in_frame = i.in_frame /\ r.halted = i.halted /\ r.disk = i.disk
  /\ r.shown = i.shown /\ r.shown_disk = i.shown_disk /\ r.done = i.done

\* apply_due, as a turn of the player.
LEMMA TurnedIs ==
  ASSUME NEW i \in Sessions,
         PlayerIs(i.events, i.cursor, i.keys, i.joys, JoystickAttached(i)),
         Passed(i.events, i.cursor) \subseteq UpTo(i.events, i.cycles)
  PROVE  Turned(i, AppliedDue(i, i.cycles))
<1> DEFINE now == i.cycles
           r == AppliedDue(i, now)
<1>1. now \in Nat  BY DEF Sessions
<1>2. Passed(i.events, i.cursor) \subseteq UpTo(i.events, now)  OBVIOUS
<1>3. now = i.cycles  OBVIOUS
<1> HIDE DEF now
<1>4. /\ r \in Sessions /\ Carried(r, i)
      /\ PlayerIs(r.events, r.cursor, r.keys, r.joys, JoystickAttached(r))
      /\ Passed(r.events, r.cursor) = UpTo(r.events, now) /\ r.applied = now
      /\ r.cycles = i.cycles /\ r.start = i.start /\ r.frame = i.frame
      /\ r.in_frame = i.in_frame /\ r.halted = i.halted /\ r.disk = i.disk
      /\ r.shown = i.shown /\ r.shown_disk = i.shown_disk /\ r.done = i.done
  BY <1>1, <1>2, AppliedDueIs
<1> HIDE DEF r
<1>5. Turned(i, r)  BY <1>3, <1>4 DEF Turned
<1> QED BY <1>3, <1>5 DEF r

\* An instruction and the player's turn, as they are written.
Instructed(b, length, halted, ran) == ran = [Ran(b, length) EXCEPT !.halted = halted]
TakesTurn(ran, a) == a = IF ran.options.frame_start THEN ran ELSE AppliedDue(ran, ran.cycles)

\* An instruction, whether a HALT ends the run with it or not.
LEMMA PlayedIs ==
  ASSUME NEW i, NEW b, Ready(i, b), NEW length \in StepLengths, NEW halted \in BOOLEAN,
         NEW ran, Instructed(b, length, halted, ran), NEW a, TakesTurn(ran, a)
  PROVE  Played(b, a, length) /\ a.halted = halted
<1>1. b \in Sessions  BY DEF Ready
<1> DEFINE n == Ran(b, length)
<1>2. /\ n \in Sessions /\ Carried(n, b)
      /\ n.cycles = b.cycles + length /\ n.done = b.done + 1
      /\ n.shown = b.keys /\ n.shown_disk = b.disk
      /\ n.start = b.start /\ n.frame = b.frame /\ n.in_frame = b.in_frame
      /\ n.keys = b.keys /\ n.joys = b.joys /\ n.disk = b.disk
      /\ n.cursor = b.cursor /\ n.applied = b.applied
  BY <1>1, RanIs
<1> HIDE DEF n
<1>3. /\ ran \in Sessions /\ Carried(ran, n) /\ ran.halted = halted
      /\ ran.in_frame = n.in_frame /\ ran.frame = n.frame
      /\ ran.cycles = n.cycles /\ ran.done = n.done /\ ran.shown = n.shown
      /\ ran.shown_disk = n.shown_disk /\ ran.start = n.start
      /\ ran.keys = n.keys /\ ran.joys = n.joys /\ ran.disk = n.disk
      /\ ran.cursor = n.cursor /\ ran.applied = n.applied
  BY <1>2, HaltedIs DEF n, Instructed
<1>4. Carried(ran, b) /\ JoystickAttached(ran) = JoystickAttached(b)
  BY <1>2, <1>3 DEF Carried, JoystickAttached
<1>5. PlayerIs(ran.events, ran.cursor, ran.keys, ran.joys, JoystickAttached(ran))
  BY <1>2, <1>3, <1>4 DEF Carried, Ready
<1>6. b.cycles \in Nat /\ length \in Nat /\ ran.cycles \in Nat /\ b.cycles <= ran.cycles
      /\ b.applied \in Nat /\ ran.cycles = b.cycles + length /\ b.start \in Nat
      /\ b.events \in Seq(ScriptLines) /\ b.options.frame_start \in BOOLEAN
  <2>1. b.cycles \in Nat /\ b.applied \in Nat /\ b.start \in Nat /\ b.events \in Seq(ScriptLines)
        /\ b.options \in Options
    BY <1>1 DEF Sessions
  <2>2. length \in Nat  BY InputAssumption
  <2>3. b.options.frame_start \in BOOLEAN
    <3>1. CASE b.options = InTheWindow  BY <3>1 DEF InTheWindow
    <3>2. CASE b.options # InTheWindow  BY <2>1, <3>2 DEF Options
    <3> QED BY <3>1, <3>2
  <2> QED BY <2>1, <2>2, <2>3, <1>2, <1>3
<1>7. CASE b.options.frame_start
  <2>1. a = ran  BY <1>4, <1>7 DEF TakesTurn, Carried
  <2>2. Passed(b.events, b.cursor) = UpTo(b.events, b.applied) /\ b.applied = b.start
        /\ b.applied <= b.cycles
    BY <1>7 DEF Ready
  <2>3. a.events = b.events /\ a.options = b.options /\ a.applied = b.applied /\ a.cursor = b.cursor
    BY <2>1, <1>2, <1>3, <1>4 DEF Carried
  <2>4. a.start = b.start /\ a.cycles = b.cycles + length  BY <2>1, <1>2, <1>3
  <2>5. a.applied = a.start /\ a.applied <= a.cycles  BY <2>2, <2>3, <2>4, <1>6
  <2>6. Passed(a.events, a.cursor) = UpTo(a.events, a.applied)  BY <2>2, <2>3
  <2> QED BY <2>1, <2>3, <2>5, <2>6, <1>2, <1>3, <1>4, <1>5, <1>7 DEF Played
<1>8. CASE ~b.options.frame_start
  <2>1. a = AppliedDue(ran, ran.cycles)  BY <1>4, <1>8 DEF TakesTurn, Carried
  <2>2. Passed(ran.events, ran.cursor) \subseteq UpTo(ran.events, ran.cycles)
    <3>1. Passed(b.events, b.cursor) \subseteq UpTo(b.events, b.cycles)  BY DEF Ready
    <3>2. UpTo(b.events, b.cycles) \subseteq UpTo(b.events, ran.cycles)  BY <1>6, UpToGrows
    <3>3. ran.events = b.events /\ ran.cursor = b.cursor  BY <1>2, <1>3, <1>4 DEF Carried
    <3> QED BY <3>1, <3>2, <3>3
  <2>3. Turned(ran, a)
    <3>1. ran \in Sessions  BY <1>3
    <3>2. Turned(ran, AppliedDue(ran, ran.cycles))  BY <2>2, <3>1, <1>5, TurnedIs
    <3> QED BY <3>2, <2>1
  <2>4. Carried(a, b) /\ ~a.options.frame_start  BY <2>3, <1>4, <1>8 DEF Carried, Turned
  <2>5. a.applied <= a.cycles  BY <2>3, <1>6 DEF Turned
  <2> QED BY <2>3, <2>4, <2>5, <1>2, <1>3 DEF Played, Turned
<1> QED BY <1>7, <1>8

\* The replay before an instruction, its frame begun where it has frames.
LEMMA PassedIsDue ==
  ASSUME NEW i \in Sessions, Replaying(i)
  PROVE  Passed(i.events, i.cursor) \subseteq UpTo(i.events, i.cycles)
<1>1. i.events \in Seq(ScriptLines) /\ i.applied \in Nat /\ i.cycles \in Nat  BY DEF Sessions
<1>2. i.applied <= i.cycles
      /\ IF Begun(i) THEN Passed(i.events, i.cursor) = UpTo(i.events, i.applied) ELSE i.cursor = 1
  BY DEF Replaying, Player
<1>3. UpTo(i.events, i.applied) \subseteq UpTo(i.events, i.cycles)  BY <1>1, <1>2, UpToGrows
<1>4. Passed(i.events, 1) = {}  BY <1>1, NothingPassed
<1> QED BY <1>2, <1>3, <1>4

\* Inside a frame, and in a run that is asked after each instruction, the
\* player is ready as it stands.
LEMMA ReadyAlready ==
  ASSUME NEW i \in Sessions, Replaying(i), i.in_frame \/ ~i.options.frame_start
  PROVE  Ready(i, i)
<1>1. Passed(i.events, i.cursor) \subseteq UpTo(i.events, i.cycles)  BY PassedIsDue
<1>2. Carried(i, i)  BY DEF Carried
<1>3. PlayerIs(i.events, i.cursor, i.keys, i.joys, JoystickAttached(i)) /\ i.applied <= i.cycles
      /\ (Begun(i) => Passed(i.events, i.cursor) = UpTo(i.events, i.applied))
  BY DEF Replaying, Player
<1>4. i.options.frame_start => Begun(i) /\ i.applied = i.start  BY DEF Replaying, Begun
<1>5. i.done > 0 => Begun(i)  BY DEF Begun
<1>6. ~i.options.frame_start /\ i.done > 0 => i.applied = i.cycles  BY DEF Replaying
<1> QED BY <1>1, <1>2, <1>3, <1>4, <1>5, <1>6 DEF Ready

\* The start of a frame, as it is written.
Opens(i, b) ==
  b = IF i.in_frame THEN i
      ELSE IF i.options.frame_start
           THEN AppliedDue(FrameBegun(DiskSwapped(i)), FrameBegun(DiskSwapped(i)).cycles)
           ELSE FrameBegun(DiskSwapped(i))

\* At the start of a frame it is after the frame was begun.
LEMMA FrameReadyIs ==
  ASSUME NEW i \in Sessions, Replaying(i), i.options.program # "steps", NEW b, Opens(i, b)
  PROVE  Ready(i, b) /\ FrameReady(i, b) /\ b.halted = i.halted
<1>1. CASE i.in_frame
  <2>1. b = i  BY <1>1 DEF Opens
  <2>2. Ready(i, i)  BY <1>1, ReadyAlready
  <2>3. FrameReady(i, i)  BY <1>1 DEF FrameReady, Replaying
  <2> QED BY <2>1, <2>2, <2>3
<1>2. CASE ~i.in_frame
  <2> DEFINE f == FrameBegun(DiskSwapped(i))
  <2>1. b = IF i.options.frame_start THEN AppliedDue(f, f.cycles) ELSE f  BY <1>2 DEF Opens
  <2>2. i.disk = DiskBefore(i.swap_frame, i.frame)  BY <1>2 DEF Replaying
  <2>3. /\ f \in Sessions /\ Carried(f, i)
        /\ f.in_frame = TRUE /\ f.start = i.cycles
        /\ f.disk = DiskIn(i.swap_frame, i.frame)
        /\ f.frame = i.frame /\ f.cycles = i.cycles /\ f.done = i.done /\ f.shown = i.shown
        /\ f.shown_disk = i.shown_disk /\ f.halted = i.halted
        /\ f.keys = i.keys /\ f.joys = i.joys
        /\ f.cursor = i.cursor /\ f.applied = i.applied
    BY <1>2, <2>2, FrameStartIs
  <2> HIDE DEF f
  <2>4. f.options = i.options /\ f.events = i.events /\ JoystickAttached(f) = JoystickAttached(i)
    BY <2>3 DEF Carried, JoystickAttached
  <2>5. PlayerIs(i.events, i.cursor, i.keys, i.joys, JoystickAttached(i)) /\ i.applied <= i.cycles
        /\ (Begun(i) => Passed(i.events, i.cursor) = UpTo(i.events, i.applied))
    BY DEF Replaying, Player
  <2>6. PlayerIs(f.events, f.cursor, f.keys, f.joys, JoystickAttached(f))
    BY <2>3, <2>4, <2>5
  <2>7. Passed(f.events, f.cursor) \subseteq UpTo(f.events, f.cycles)
    <3>1. Passed(i.events, i.cursor) \subseteq UpTo(i.events, i.cycles)  BY PassedIsDue
    <3> QED BY <3>1, <2>3, <2>4
  <2>8. CASE i.options.frame_start
    <3>1. b = AppliedDue(f, f.cycles)  BY <2>1, <2>8
    <3>2. Turned(f, AppliedDue(f, f.cycles))  BY <2>3, <2>6, <2>7, TurnedIs
    <3>3. Turned(f, b)  BY <3>1, <3>2
    <3>4. Carried(b, i) /\ b.options = i.options  BY <3>3, <2>3 DEF Turned, Carried
    <3>5. b.cycles \in Nat  BY <3>3 DEF Turned, Sessions
    <3>6. b.applied = b.cycles /\ b.start = b.cycles /\ b.cycles = i.cycles  BY <3>3, <2>3 DEF Turned
    <3>7. Ready(i, b)  BY <3>3, <3>4, <3>5, <3>6, <2>3, <2>8 DEF Ready, Turned
    <3>8. FrameReady(i, b)  BY <3>3, <2>3, <1>2 DEF FrameReady, Turned
    <3> QED BY <3>3, <3>7, <3>8, <2>3 DEF Turned
  <2>9. CASE ~i.options.frame_start
    <3>1. b = f  BY <2>1, <2>9
    <3>2. f.done > 0 => Begun(i) /\ i.applied = i.cycles  BY <2>3, <2>9 DEF Begun, Replaying
    <3>3. f.done > 0 => Passed(f.events, f.cursor) = UpTo(f.events, f.applied)
      BY <3>2, <2>3, <2>4, <2>5
    <3>4. f.applied <= f.cycles /\ (f.done > 0 => f.applied = f.cycles)
      BY <3>2, <2>3, <2>5
    <3>5. Ready(i, f)  BY <3>3, <3>4, <2>3, <2>4, <2>6, <2>7, <2>9 DEF Ready
    <3>6. FrameReady(i, f)  BY <2>3, <1>2 DEF FrameReady
    <3> QED BY <3>1, <3>5, <3>6, <2>3
  <2> QED BY <2>8, <2>9
<1> QED BY <1>1, <1>2

\* In the replay of a session the instruction sees the keys of the step it
\* repeats.
LEMMA StepShown ==
  ASSUME NEW i \in Sessions, Replaying(i), Following(i), i.recorded, i.told,
         i.done < Len(i.seen), NEW length, length = i.seen[i.done + 1].length,
         NEW b, Ready(i, b), NEW a, Played(b, a, length),
         i.options.frame_start =>
           FrameReady(i, b) /\ i.options.program # "steps" /\ ~i.halted
  PROVE  /\ a.cycles = Reached(i.seen, i.done + 1) /\ a.done = i.done + 1
         /\ a.done > 1 \/ i.options.frame_start => a.shown = i.seen[i.done + 1].keys
<1> DEFINE seen == i.seen
           n == i.done
           m == n + 1
           s == Body(i.file)
           ev == b.events
<1>1. seen \in Seq(Sights) /\ n \in Nat /\ n < Len(seen) /\ m \in 1 .. Len(seen) /\ i.cycles \in Nat
  <2>1. seen \in Seq(Sights) /\ n \in Nat /\ i.cycles \in Nat  BY DEF Sessions
  <2>2. Len(seen) \in Nat  BY <2>1, LenProperties
  <2> QED BY <2>1, <2>2
<1>2. Chained(seen) /\ SeenKeys(s, seen) /\ i.options.shift = 0 /\ i.cycles = Reached(seen, n)
  BY DEF Following, ToldBy
<1>3. s \in Seq(ScriptLines) /\ EventsAre(ev, s, 0)
  BY <1>2 DEF Replaying, Player, Ready, Carried
<1>4. /\ seen[m].cycles = i.cycles /\ Reached(seen, m) = i.cycles + length
      /\ seen[m] \in Sights /\ seen[m].start <= i.cycles
  <2> DEFINE cycles == i.cycles
  <2>1. cycles = Reached(seen, n)  BY <1>2
  <2>2. length = seen[n + 1].length  OBVIOUS
  <2> HIDE DEF seen, n, cycles
  <2>3. /\ seen[n + 1].cycles = cycles /\ Reached(seen, n + 1) = cycles + length
        /\ seen[n + 1] \in Sights /\ seen[n + 1].start <= cycles
    BY <1>1, <1>2, <2>1, <2>2, NextClock
  <2> QED BY <2>3 DEF cycles
<1>5. b.cycles = i.cycles /\ b.done = i.done /\ b.options = i.options /\ b \in Sessions
  BY DEF Ready, Carried
<1>6. a.cycles = Reached(seen, m) /\ a.done = m  BY <1>4, <1>5 DEF Played
<1>7. ASSUME a.done > 1 \/ i.options.frame_start
      PROVE  a.shown = seen[m].keys
  <2> DEFINE now == b.applied
             keys == b.keys
  <2>1. b.done > 0 \/ b.options.frame_start  BY <1>1, <1>5, <1>6, <1>7
  <2>2. Passed(ev, b.cursor) = UpTo(ev, now)  BY <2>1 DEF Ready
  <2>3. keys = Settled({}, ev, UpTo(ev, now), "key")
    <3>1. keys = Settled({}, ev, Passed(ev, b.cursor), "key")  BY DEF Ready, PlayerIs
    <3> QED BY <3>1, <2>2
  <2>4. now \in Nat /\ seen[m].start <= now /\ now <= seen[m].cycles
    <3>1. now \in Nat /\ now <= i.cycles  BY <1>5 DEF Ready, Sessions
    <3>2. CASE i.options.frame_start
      <4>1. now = b.start  BY <1>5, <3>2 DEF Ready
      <4>2. b.start = IF i.in_frame THEN i.start ELSE i.cycles  BY <3>2 DEF FrameReady
      <4>3. Clocked(i, seen, n)  BY <3>2 DEF Following
      <4> DEFINE start == IF i.in_frame THEN i.start ELSE i.cycles
      <4>4. start = IF i.in_frame THEN i.start ELSE i.cycles  OBVIOUS
      <4>5. length = seen[n + 1].length  OBVIOUS
      <4> HIDE DEF start, seen, n
      <4>6. seen[n + 1].start = start  BY <1>1, <1>2, <4>3, <4>4, <4>5, NextFrame
      <4>7. seen[m].start = now  BY <4>1, <4>2, <4>4, <4>6
      <4> QED BY <3>1, <4>7, <1>4
    <3>3. CASE ~i.options.frame_start
      <4>1. now = b.cycles  BY <1>5, <2>1, <3>3 DEF Ready
      <4> QED BY <3>1, <4>1, <1>4, <1>5
    <3> QED BY <3>2, <3>3
  <2> HIDE DEF now, keys, seen, m, s, ev
  <2>5. keys = seen[m].keys  BY <1>1, <1>2, <1>3, <2>3, <2>4, ShownKeys
  <2>6. a.shown = keys  BY DEF Played, keys
  <2> QED BY <2>5, <2>6
<1> QED BY <1>6, <1>7

\* What the end of a step leaves alone, and what it does with the frame.
SameRun(c, a) ==
  /\ c \in Sessions /\ Carried(c, a)
  /\ c.cycles = a.cycles /\ c.done = a.done /\ c.shown = a.shown
  /\ c.shown_disk = a.shown_disk /\ c.start = a.start
  /\ c.keys = a.keys /\ c.joys = a.joys /\ c.disk = a.disk
  /\ c.cursor = a.cursor /\ c.applied = a.applied
FrameGoesOn(c, a) ==
  /\ ~c.halted
  /\ c.in_frame = ~(a.cycles - a.start >= FrameTarget)
  /\ c.frame = IF a.cycles - a.start >= FrameTarget THEN a.frame + 1 ELSE a.frame
FrameHalted(c, a) == c.halted /\ ~c.in_frame /\ c.frame = a.frame + 1

\* After an instruction the player has passed what is due.
LEMMA StepPlayer ==
  ASSUME NEW i \in Sessions, Replaying(i), NEW length, NEW b, Ready(i, b),
         NEW a, Played(b, a, length), NEW c, SameRun(c, a)
  PROVE  /\ Player(c) /\ c.options = i.options /\ c.done > 0
         /\ ~c.options.frame_start => c.applied = c.cycles
         /\ c.options.frame_start => c.applied = c.start
<1>1. c.file = i.file /\ c.events = i.events /\ c.options = i.options
      /\ a.events = i.events /\ a.options = i.options
  BY DEF SameRun, Played, Ready, Carried
<1>2. Body(c.file) \in Seq(ScriptLines) /\ EventsAre(c.events, Body(c.file), c.options.shift)
  BY <1>1 DEF Replaying, Player
<1>3. c.done > 0
  <2>1. b.done \in Nat /\ c.done = b.done + 1  BY DEF SameRun, Played, Ready, Sessions
  <2> QED BY <2>1
<1>4. JoystickAttached(c) = JoystickAttached(a)  BY <1>1 DEF JoystickAttached
<1>5. PlayerIs(c.events, c.cursor, c.keys, c.joys, JoystickAttached(c))
  BY <1>1, <1>4 DEF SameRun, Played
<1>6. c.applied <= c.cycles /\ Passed(c.events, c.cursor) = UpTo(c.events, c.applied)
  BY <1>1 DEF SameRun, Played
<1>7. Player(c)  BY <1>2, <1>3, <1>5, <1>6 DEF Player, Begun
<1>8. (~c.options.frame_start => c.applied = c.cycles)
      /\ (c.options.frame_start => c.applied = c.start)
  BY <1>1 DEF SameRun, Played
<1> QED BY <1>1, <1>3, <1>7, <1>8

\* The state of a replay, over an instruction of a run of frames.
LEMMA FrameStepReplays ==
  ASSUME NEW i \in Sessions, Replaying(i), NEW length, NEW b, Ready(i, b), FrameReady(i, b),
         NEW a, Played(b, a, length), NEW c, SameRun(c, a),
         i.options.program # "steps",
         FrameGoesOn(c, a) \/ (FrameHalted(c, a) /\ i.options.program # "window")
  PROVE  Replaying(c)
<1>1. /\ Player(c) /\ c.options = i.options /\ c.done > 0
      /\ ~c.options.frame_start => c.applied = c.cycles
      /\ c.options.frame_start => c.applied = c.start
  BY StepPlayer
<1>2. c.halted => c.options.program # "window" /\ ~c.in_frame
  BY <1>1 DEF FrameGoesOn, FrameHalted
<1>3. c.swap_frame = i.swap_frame /\ c.disk = DiskIn(i.swap_frame, i.frame) /\ a.frame = i.frame
      /\ i.frame \in Nat /\ i.swap_frame \in Nat
  BY DEF SameRun, Played, Ready, FrameReady, Carried, Sessions
<1>4. c.disk = IF c.in_frame THEN DiskIn(c.swap_frame, c.frame)
               ELSE DiskBefore(c.swap_frame, c.frame)
  <2>1. c.in_frame => c.frame = i.frame  BY <1>3 DEF FrameGoesOn, FrameHalted
  <2>2. ~c.in_frame => c.frame = i.frame + 1  BY <1>3 DEF FrameGoesOn, FrameHalted
  <2>3. i.swap_frame <= i.frame <=> i.swap_frame < i.frame + 1  BY <1>3
  <2> QED BY <2>1, <2>2, <2>3, <1>3 DEF DiskIn, DiskBefore
<1> QED BY <1>1, <1>2, <1>4 DEF Replaying

\* Over a step of the CPU.
LEMMA PlainStepReplays ==
  ASSUME NEW i \in Sessions, Replaying(i), NEW length, Ready(i, i),
         NEW a, Played(i, a, length), i.options.program = "steps"
  PROVE  Replaying(a)
<1>1. SameRun(a, a)  BY DEF SameRun, Played, Carried
<1>2. /\ Player(a) /\ a.options = i.options /\ a.done > 0
      /\ ~a.options.frame_start => a.applied = a.cycles
      /\ a.options.frame_start => a.applied = a.start
  BY <1>1, StepPlayer
<1>3. ~a.in_frame  BY DEF Played, Replaying
<1> QED BY <1>2, <1>3 DEF Replaying

\* A replay of a session stays in step with it: run by frames, its
\* instruction sees what the session's did.
LEMMA FrameStepFollows ==
  ASSUME NEW i \in Sessions, Replaying(i), Following(i), ~i.halted, i.options.program # "steps",
         NEW length, i.recorded => i.done < Len(i.seen) /\ length = i.seen[i.done + 1].length,
         NEW b, Ready(i, b), FrameReady(i, b), NEW a, Played(b, a, length),
         NEW c, SameRun(c, a), FrameGoesOn(c, a) \/ FrameHalted(c, a)
  PROVE  Following(c)
<1> SUFFICES ASSUME i.recorded, i.told PROVE Following(c)
  BY DEF Following, SameRun, Played, Ready, Carried
<1>1. /\ c.file = i.file /\ c.seen = i.seen /\ c.swap_frame = i.swap_frame
      /\ c.options = i.options
  BY DEF SameRun, Played, Ready, Carried
<1> DEFINE seen == i.seen
           n == i.done
           m == n + 1
<1>2. /\ ToldBy(i.file, seen, i.swap_frame) /\ i.options.shift = 0 /\ Clocked(i, seen, n)
      /\ n < Len(seen) /\ length = seen[m].length
  BY DEF Following
<1>3. /\ seen \in Seq(Sights) /\ n \in Nat /\ Len(seen) \in Nat /\ i.cycles \in Nat
      /\ m \in 1 .. Len(seen) /\ m > 0
  <2>1. seen \in Seq(Sights) /\ n \in Nat /\ i.cycles \in Nat  BY DEF Sessions
  <2>2. Len(seen) \in Nat  BY <2>1, LenProperties
  <2> QED BY <2>1, <2>2, <1>2
<1>4. /\ a.cycles = Reached(seen, m) /\ a.done = m
      /\ a.done > 1 \/ i.options.frame_start => a.shown = seen[m].keys
  BY <1>2, StepShown
<1> DEFINE start == IF i.in_frame THEN i.start ELSE i.cycles
           closes == i.cycles + length - start >= FrameTarget
<1>5. /\ seen[m].start = start /\ seen[m].frame = i.frame
      /\ Inside(seen, m) = ~closes
      /\ FrameAfter(seen, m) = IF closes THEN i.frame + 1 ELSE i.frame
  <2>1. start = IF i.in_frame THEN i.start ELSE i.cycles  OBVIOUS
  <2>2. Chained(seen)  BY <1>2 DEF ToldBy
  <2>3. closes <=> i.cycles + length - start >= FrameTarget  OBVIOUS
  <2>4. length = seen[n + 1].length  BY <1>2
  <2> HIDE DEF seen, n, start, closes
  <2>5. /\ seen[n + 1].start = start /\ seen[n + 1].frame = i.frame
        /\ Inside(seen, n + 1) = ~(i.cycles + length - start >= FrameTarget)
        /\ FrameAfter(seen, n + 1) =
             IF i.cycles + length - start >= FrameTarget THEN i.frame + 1 ELSE i.frame
    BY <1>2, <1>3, <2>1, <2>2, <2>4, NextFrame
  <2> QED BY <2>3, <2>5
<1>6. /\ a.cycles = i.cycles + length /\ a.start = start /\ a.frame = i.frame
      /\ a.shown_disk = DiskIn(i.swap_frame, i.frame)
  BY DEF Played, Ready, FrameReady
<1>7. OneSwap(i.file) => a.shown_disk = seen[m].disk
  BY <1>2, <1>3, <1>5, <1>6 DEF ToldBy
<1>8. ~c.halted => Clocked(c, seen, m)
  <2>1. HAVE ~c.halted
  <2>2. FrameGoesOn(c, a)  BY <2>1 DEF FrameHalted
  <2>3. c.in_frame = ~closes /\ c.frame = IF closes THEN i.frame + 1 ELSE i.frame
    <3>1. (a.cycles - a.start >= FrameTarget) <=> closes
      <4>1. length \in Nat /\ start \in Nat
        <5>1. seen[m] \in Sights  BY <1>3, ElementOfSeq
        <5>2. length \in StepLengths  BY <5>1, <1>2 DEF Sights
        <5> QED BY <5>2, InputAssumption DEF Sessions
      <4> HIDE DEF start
      <4> QED BY <4>1, <1>3, <1>6
    <3> HIDE DEF closes
    <3>2. /\ c.in_frame = ~(a.cycles - a.start >= FrameTarget)
          /\ c.frame = IF a.cycles - a.start >= FrameTarget THEN a.frame + 1 ELSE a.frame
      BY <2>2 DEF FrameGoesOn
    <3> QED BY <3>1, <3>2, <1>6
  <2>4. c.cycles = Reached(seen, m) /\ c.start = seen[m].start
    BY <1>4, <1>5, <1>6 DEF SameRun
  <2> HIDE DEF seen, m, closes
  <2> QED BY <2>3, <2>4, <1>5 DEF Clocked
<1>9. c.cycles = a.cycles /\ c.done = a.done /\ c.shown = a.shown /\ c.shown_disk = a.shown_disk
  BY DEF SameRun
<1> HIDE DEF seen, n, m
<1>10. /\ ToldBy(c.file, c.seen, c.swap_frame) /\ c.options.shift = 0
       /\ c.done <= Len(c.seen) /\ c.cycles = Reached(c.seen, c.done)
       /\ ~c.halted => Clocked(c, c.seen, c.done)
       /\ c.done > 1 \/ c.options.frame_start => c.shown = c.seen[c.done].keys
       /\ OneSwap(c.file) => c.shown_disk = c.seen[c.done].disk
  BY <1>1, <1>2, <1>3, <1>4, <1>7, <1>8, <1>9 DEF seen
<1> QED BY <1>10 DEF Following

\* So does one that steps the CPU, which has no frames.
LEMMA PlainStepFollows ==
  ASSUME NEW i \in Sessions, Replaying(i), Following(i), i.options.program = "steps",
         ~i.options.frame_start,
         NEW length, i.recorded => i.done < Len(i.seen) /\ length = i.seen[i.done + 1].length,
         Ready(i, i), NEW a, Played(i, a, length)
  PROVE  Following(a)
<1> SUFFICES ASSUME i.recorded, i.told PROVE Following(a)
  BY DEF Following, Played, Carried
<1>1. /\ a.file = i.file /\ a.seen = i.seen /\ a.swap_frame = i.swap_frame
      /\ a.options = i.options
  BY DEF Played, Carried
<1> DEFINE seen == i.seen
           m == i.done + 1
<1>2. /\ ToldBy(i.file, seen, i.swap_frame) /\ i.options.shift = 0
      /\ i.done < Len(seen) /\ length = seen[m].length
  BY DEF Following
<1>3. m <= Len(seen)
  <2>1. seen \in Seq(Sights) /\ i.done \in Nat  BY DEF Sessions
  <2>2. Len(seen) \in Nat  BY <2>1, LenProperties
  <2> QED BY <2>1, <2>2, <1>2
<1>4. /\ a.cycles = Reached(seen, m) /\ a.done = m
      /\ a.done > 1 \/ i.options.frame_start => a.shown = seen[m].keys
  BY <1>2, StepShown
<1> HIDE DEF seen, m
<1>10. /\ ToldBy(a.file, a.seen, a.swap_frame) /\ a.options.shift = 0
       /\ a.done <= Len(a.seen) /\ a.cycles = Reached(a.seen, a.done)
       /\ a.done > 1 \/ a.options.frame_start => a.shown = a.seen[a.done].keys
  BY <1>1, <1>2, <1>3, <1>4 DEF seen
<1> QED BY <1>10, <1>1 DEF Following

\* The instructions of a replay take time; those of a recorded session are
\* the session's.
LEMMA FollowedLength ==
  ASSUME NEW i \in Sessions, NEW length \in FollowedSteps(i)
  PROVE  /\ length \in StepLengths
         /\ i.recorded => i.done < Len(i.seen) /\ length = i.seen[i.done + 1].length
<1>1. CASE ~i.recorded
  <2>1. length \in StepLengths  BY <1>1 DEF FollowedSteps
  <2> QED BY <1>1, <2>1
<1>2. CASE i.recorded
  <2>1. i.done < Len(i.seen) /\ length = i.seen[i.done + 1].length
    BY <1>2 DEF FollowedSteps
  <2> DEFINE seen == i.seen
             n == i.done
  <2>2. seen \in Seq(Sights) /\ n \in Nat /\ n < Len(seen)  BY <2>1 DEF Sessions
  <2>3. length = seen[n + 1].length  BY <2>1
  <2> HIDE DEF seen, n
  <2>4. n + 1 \in 1 .. Len(seen)
    <3>1. Len(seen) \in Nat  BY <2>2, LenProperties
    <3> QED BY <3>1, <2>2
  <2>5. seen[n + 1] \in Sights  BY <2>2, <2>4, ElementOfSeq
  <2>6. length \in StepLengths  BY <2>3, <2>5 DEF Sights
  <2> QED BY <2>1, <2>6
<1> QED BY <1>1, <1>2

\* Only a run of frames has --input-frame-start.
LEMMA ProgramOptions ==
  ASSUME NEW o \in Options
  PROVE  /\ o.frame_start \in BOOLEAN
         /\ o.program \in {"window", "steps"} => ~o.frame_start
<1>1. CASE o = InTheWindow  BY <1>1 DEF InTheWindow
<1>2. CASE o # InTheWindow  BY <1>2 DEF Options
<1> QED BY <1>1, <1>2

\* An instruction that is no HALT.
LEMMA NotHalted ==
  ASSUME NEW b \in Sessions, ~b.halted, NEW length \in StepLengths
  PROVE  Ran(b, length) = [Ran(b, length) EXCEPT !.halted = FALSE]
<1> DEFINE r == Ran(b, length)
<1>1. r \in Sessions /\ r.halted = b.halted  BY RanIs
<1> HIDE DEF r
<1>2. r.halted = FALSE  BY <1>1 DEF Sessions
<1>3. r = [r EXCEPT !.halted = r.halted]  BY <1>1 DEF Sessions
<1> QED BY <1>2, <1>3 DEF r

\* The invariant after a step of a replay.
LEMMA ReplayInv ==
  ASSUME NEW i, NEW c, i \in Sessions, c \in Sessions, Len(i.seen) <= MaxSteps,
         i.phase = "replay", Carried(c, i), Replaying(c), Following(c)
  PROVE  SessionInv(c)
  BY DEF Carried, SessionInv

\* A HALT that ends the run ends its frame.
LEMMA FrameHaltedIs ==
  ASSUME NEW a \in Sessions, NEW h, h \in Sessions, Carried(h, a), h.halted = TRUE,
         h.in_frame = a.in_frame, h.frame = a.frame,
         h.cycles = a.cycles, h.done = a.done, h.shown = a.shown,
         h.shown_disk = a.shown_disk, h.start = a.start,
         h.keys = a.keys, h.joys = a.joys, h.disk = a.disk,
         h.cursor = a.cursor, h.applied = a.applied
  PROVE  SameRun(FrameEnded(h), a) /\ FrameHalted(FrameEnded(h), a)
<1> DEFINE c == FrameEnded(h)
<1>3. /\ c \in Sessions /\ Carried(c, h)
      /\ c.in_frame = FALSE /\ c.frame = h.frame + 1
      /\ c.cycles = h.cycles /\ c.done = h.done /\ c.shown = h.shown
      /\ c.shown_disk = h.shown_disk /\ c.start = h.start
      /\ c.halted = h.halted /\ c.keys = h.keys /\ c.joys = h.joys /\ c.disk = h.disk
      /\ c.cursor = h.cursor /\ c.applied = h.applied
  BY FrameEndedIs
<1> HIDE DEF c
<1>4. Carried(c, a)  BY <1>3 DEF Carried
<1>5. SameRun(c, a)  BY <1>3, <1>4 DEF SameRun
<1>6. FrameHalted(c, a)  BY <1>3 DEF FrameHalted
<1> QED BY <1>5, <1>6 DEF c

\* The same of the record the model writes.
LEMMA HaltEnds ==
  ASSUME NEW a \in Sessions
  PROVE  SameRun(FrameEnded([a EXCEPT !.halted = TRUE]), a)
         /\ FrameHalted(FrameEnded([a EXCEPT !.halted = TRUE]), a)
<1> DEFINE yes == TRUE
           h == [a EXCEPT !.halted = yes]
<1>0. yes \in BOOLEAN /\ h = [a EXCEPT !.halted = yes]  OBVIOUS
<1>1. yes = TRUE  OBVIOUS
<1> HIDE DEF yes, h
<1>2. /\ h \in Sessions /\ Carried(h, a) /\ h.halted = yes
      /\ h.in_frame = a.in_frame /\ h.frame = a.frame
      /\ h.cycles = a.cycles /\ h.done = a.done /\ h.shown = a.shown
      /\ h.shown_disk = a.shown_disk /\ h.start = a.start
      /\ h.keys = a.keys /\ h.joys = a.joys /\ h.disk = a.disk
      /\ h.cursor = a.cursor /\ h.applied = a.applied
  BY <1>0, HaltedIs
<1>3. SameRun(FrameEnded(h), a) /\ FrameHalted(FrameEnded(h), a)
  BY <1>1, <1>2, FrameHaltedIs
<1> QED BY <1>1, <1>3 DEF h, yes

\* The program of frames, up to a HALT that ends the run.
LEMMA FrameStepKeeps ==
  ASSUME NEW i \in Sessions, Replaying(i), Following(i), ~i.halted, i.options.program # "steps",
         NEW length \in FollowedSteps(i), NEW b, Opens(i, b),
         NEW ran, ran = Ran(b, length), NEW a, TakesTurn(ran, a),
         NEW c, \/ c = FrameClosed(a)
                \/ c = FrameEnded([a EXCEPT !.halted = TRUE]) /\ i.options.program # "window"
  PROVE  c \in Sessions /\ Carried(c, i) /\ Replaying(c) /\ Following(c)
<1>1. length \in StepLengths
      /\ (i.recorded => i.done < Len(i.seen) /\ length = i.seen[i.done + 1].length)
  BY FollowedLength
<1>2. Ready(i, b) /\ FrameReady(i, b) /\ b.halted = i.halted  BY FrameReadyIs
<1>3. Instructed(b, length, FALSE, ran)
  <2>1. b \in Sessions /\ ~b.halted  BY <1>2 DEF Ready
  <2> QED BY <2>1, <1>1, NotHalted DEF Instructed
<1>4. Played(b, a, length) /\ a.halted = FALSE
  <2>1. FALSE \in BOOLEAN  OBVIOUS
  <2> QED BY <1>1, <1>2, <1>3, <2>1, PlayedIs
<1>5. a \in Sessions /\ a.in_frame  BY <1>2, <1>4 DEF Played, FrameReady
<1>6. SameRun(c, a) /\ (FrameGoesOn(c, a) \/ (FrameHalted(c, a) /\ i.options.program # "window"))
  <2>1. CASE c = FrameClosed(a)
    <3>1. /\ c \in Sessions /\ Carried(c, a)
          /\ c.in_frame = ~(a.cycles - a.start >= FrameTarget)
          /\ c.frame = IF a.cycles - a.start >= FrameTarget THEN a.frame + 1 ELSE a.frame
          /\ c.cycles = a.cycles /\ c.done = a.done /\ c.shown = a.shown
          /\ c.shown_disk = a.shown_disk /\ c.start = a.start
          /\ c.halted = a.halted /\ c.keys = a.keys /\ c.joys = a.joys /\ c.disk = a.disk
          /\ c.cursor = a.cursor /\ c.applied = a.applied
      BY <1>5, <2>1, FrameClosedIs
    <3>2. SameRun(c, a)  BY <3>1 DEF SameRun
    <3>3. FrameGoesOn(c, a)  BY <3>1, <1>4 DEF FrameGoesOn
    <3> QED BY <3>2, <3>3
  <2>2. CASE c = FrameEnded([a EXCEPT !.halted = TRUE]) /\ i.options.program # "window"
    <3>1. SameRun(FrameEnded([a EXCEPT !.halted = TRUE]), a)
          /\ FrameHalted(FrameEnded([a EXCEPT !.halted = TRUE]), a)
      BY <1>5, HaltEnds
    <3> QED BY <3>1, <2>2
  <2> QED BY <2>1, <2>2
<1>7. Replaying(c)  BY <1>2, <1>4, <1>6, FrameStepReplays
<1>8. Following(c)  BY <1>1, <1>2, <1>4, <1>6, FrameStepFollows
<1>9. c \in Sessions /\ Carried(c, i)
  BY <1>2, <1>4, <1>6 DEF SameRun, Played, Ready, Carried
<1> QED BY <1>7, <1>8, <1>9

\* The replay in the window program.
LEMMA WindowStepKeeps ==
  ASSUME InputInv, WindowReplayStep
  PROVE  InputInv'
<1>1. PICK length \in FollowedSteps(inp) :
        inp' = FrameClosed(AppliedDue(
                 Ran(IF inp.in_frame THEN inp ELSE FrameBegun(DiskSwapped(inp)), length),
                 Ran(IF inp.in_frame THEN inp ELSE FrameBegun(DiskSwapped(inp)), length).cycles))
  BY DEF WindowReplayStep
<1> DEFINE b == IF inp.in_frame THEN inp ELSE FrameBegun(DiskSwapped(inp))
           ran == Ran(b, length)
           a == AppliedDue(ran, ran.cycles)
           c == FrameClosed(a)
<1>2. /\ inp \in Sessions /\ Len(inp.seen) <= MaxSteps /\ inp.phase = "replay"
      /\ inp.options.program = "window" /\ Replaying(inp) /\ Following(inp)
  BY DEF InputInv, SessionInv, WindowReplayStep
<1>3. ~inp.options.frame_start /\ ~inp.halted
  <2>1. inp.options \in Options  BY <1>2 DEF Sessions
  <2> QED BY <2>1, <1>2, ProgramOptions DEF Replaying
<1>4. Opens(inp, b)  BY <1>3 DEF Opens
<1>5. TakesTurn(ran, a)
  <2>1. Ready(inp, b)  BY <1>2, <1>4, FrameReadyIs
  <2>2. length \in StepLengths  BY <1>2, FollowedLength
  <2>3. b \in Sessions /\ b.options = inp.options  BY <2>1 DEF Ready, Carried
  <2> HIDE DEF b
  <2>4. ran.options = b.options  BY <2>2, <2>3, RanIs DEF Carried
  <2> QED BY <2>3, <2>4, <1>3 DEF TakesTurn
<1>6. inp' = c /\ ran = Ran(b, length) /\ c = FrameClosed(a)  BY <1>1
<1> HIDE DEF b, ran, a, c
<1>7. c \in Sessions /\ Carried(c, inp) /\ Replaying(c) /\ Following(c)
  BY <1>2, <1>3, <1>4, <1>5, <1>6, FrameStepKeeps
<1>8. SessionInv(c)
  BY <1>2, <1>7, ReplayInv
<1> QED BY <1>6, <1>8 DEF InputInv

\* The replay as frames of the headless program.
LEMMA HeadlessStepKeeps ==
  ASSUME InputInv, HeadlessFrameStep
  PROVE  InputInv'
<1>1. PICK length \in FollowedSteps(inp), halted \in BOOLEAN :
        LET ran == Ran(IF inp.in_frame THEN inp ELSE HeadlessFrameBegun(inp), length)
            applied == IF ran.options.frame_start THEN ran ELSE AppliedDue(ran, ran.cycles)
        IN  inp' = IF halted THEN FrameEnded([applied EXCEPT !.halted = TRUE])
                   ELSE FrameClosed(applied)
  <2>1. HaltsRun(inp) \subseteq BOOLEAN  BY DEF HaltsRun
  <2> QED BY <2>1 DEF HeadlessFrameStep
<1> DEFINE b == IF inp.in_frame THEN inp ELSE HeadlessFrameBegun(inp)
           ran == Ran(b, length)
           a == IF ran.options.frame_start THEN ran ELSE AppliedDue(ran, ran.cycles)
           c == IF halted THEN FrameEnded([a EXCEPT !.halted = TRUE]) ELSE FrameClosed(a)
<1>2. /\ inp \in Sessions /\ Len(inp.seen) <= MaxSteps /\ inp.phase = "replay"
      /\ inp.options.program = "frames" /\ Replaying(inp) /\ Following(inp)
  BY DEF InputInv, SessionInv, HeadlessFrameStep
<1>3. ~inp.halted
  <2>1. ~FramesAreOver(inp)  BY DEF HeadlessFrameStep
  <2>2. inp.halted => ~inp.in_frame  BY <1>2 DEF Replaying
  <2> QED BY <2>1, <2>2 DEF FramesAreOver
<1>4. Opens(inp, b)  BY DEF Opens, HeadlessFrameBegun
<1>5. TakesTurn(ran, a)  BY DEF TakesTurn
<1>6. inp' = c /\ ran = Ran(b, length)  BY <1>1
<1>7. \/ c = FrameClosed(a)
      \/ c = FrameEnded([a EXCEPT !.halted = TRUE]) /\ inp.options.program # "window"
  BY <1>2
<1>8. inp.options.program # "steps"  BY <1>2
<1> HIDE DEF b, ran, a, c
<1>9. c \in Sessions /\ Carried(c, inp) /\ Replaying(c) /\ Following(c)
  BY <1>2, <1>3, <1>4, <1>5, <1>6, <1>7, <1>8, FrameStepKeeps
<1>10. SessionInv(c)
  BY <1>2, <1>9, ReplayInv
<1> QED BY <1>6, <1>10 DEF InputInv

\* The replay as steps of the CPU.
LEMMA PlainStepKeeps ==
  ASSUME InputInv, PlainReplayStep
  PROVE  InputInv'
<1>1. PICK length \in FollowedSteps(inp), halted \in BOOLEAN :
        inp' = AppliedDue([Ran(inp, length) EXCEPT !.halted = halted],
                          [Ran(inp, length) EXCEPT !.halted = halted].cycles)
  <2>1. HaltsRun(inp) \subseteq BOOLEAN  BY DEF HaltsRun
  <2> QED BY <2>1 DEF PlainReplayStep
<1> DEFINE ran == [Ran(inp, length) EXCEPT !.halted = halted]
           a == AppliedDue(ran, ran.cycles)
<1>2. /\ inp \in Sessions /\ Len(inp.seen) <= MaxSteps /\ inp.phase = "replay"
      /\ inp.options.program = "steps" /\ Replaying(inp) /\ Following(inp)
  BY DEF InputInv, SessionInv, PlainReplayStep
<1>3. ~inp.options.frame_start
  <2>1. inp.options \in Options  BY <1>2 DEF Sessions
  <2> QED BY <2>1, <1>2, ProgramOptions
<1>4. Ready(inp, inp)  BY <1>2, <1>3, ReadyAlready
<1>5. length \in StepLengths
      /\ (inp.recorded => inp.done < Len(inp.seen) /\ length = inp.seen[inp.done + 1].length)
  BY <1>2, FollowedLength
<1>6. Instructed(inp, length, halted, ran)  BY DEF Instructed
<1>7. TakesTurn(ran, a)
  <2> DEFINE r == Ran(inp, length)
  <2>1. r \in Sessions /\ Carried(r, inp)  BY <1>2, <1>5, RanIs
  <2>2. ran = [r EXCEPT !.halted = halted]  OBVIOUS
  <2> HIDE DEF r, ran
  <2>3. Carried(ran, r)  BY <2>1, <2>2, HaltedIs
  <2>4. ran.options = inp.options  BY <2>1, <2>3 DEF Carried
  <2> QED BY <2>4, <1>3 DEF TakesTurn
<1>8. inp' = a  BY <1>1
<1> HIDE DEF ran, a
<1>9. Played(inp, a, length)  BY <1>4, <1>5, <1>6, <1>7, PlayedIs
<1>10. Replaying(a)  BY <1>2, <1>4, <1>9, PlainStepReplays
<1>11. Following(a)  BY <1>2, <1>3, <1>4, <1>5, <1>9, PlainStepFollows
<1>12. a \in Sessions /\ Carried(a, inp)  BY <1>9 DEF Played
<1>13. SessionInv(a)
  BY <1>2, <1>10, <1>11, <1>12, ReplayInv
<1> QED BY <1>8, <1>13 DEF InputInv

(***************************************************************************)
(* A session begins, and a script is loaded.                               *)
(***************************************************************************)
LEMMA TagLine ==
  Tag \in ScriptLines /\ Tag.kind = "tag"
  BY DEF Tag, Line, ScriptLines, Names

\* A new session.
LEMMA NewSessionTyped == NewSession \in Sessions
<1>1. <<Tag>> \in Seq(ScriptLines)  BY TagLine
<1>2. InTheWindow \in Options  BY DEF Options
<1>3. << >> \in Seq(ScriptLines) /\ << >> \in Seq(Sights)  OBVIOUS
<1> QED BY <1>1, <1>2, <1>3 DEF NewSession, Sessions

\* Its file holds the tag only.
LEMMA EmptyScript ==
  /\ Script(<<Tag>>) \in Seq(ScriptLines) /\ EventsOf(Script(<<Tag>>)) = {}
  /\ SwapsOf(<<Tag>>) = {} /\ Recording(<<Tag>>)
<1> DEFINE f == <<Tag>>
<1>1. f \in Seq(ScriptLines) /\ Len(f) = 1 /\ f[1] = Tag /\ f # << >>  BY TagLine
<1>2. Script(f) \in Seq(ScriptLines) /\ Len(Script(f)) = Len(f) - 1
  BY <1>1, TagLine, ScriptGrows
<1>3. Len(Script(f)) = 0  BY <1>1, <1>2
<1>4. DOMAIN Script(f) = {}  BY <1>2, <1>3, LenProperties
<1>5. DOMAIN f = {1}  BY <1>1, LenProperties
<1> HIDE DEF f
<1>6. SwapsOf(f) = {} /\ Recording(f)  BY <1>1, <1>5, TagLine DEF SwapsOf, Recording
<1>7. EventsOf(Script(f)) = {}  BY <1>4 DEF EventsOf
<1> QED BY <1>2, <1>6, <1>7 DEF f

\* The invariant holds of it.
LEMMA NewSessionInv ==
  SessionInv(NewSession)
<1> DEFINE i == NewSession
<1>1. i \in Sessions  BY NewSessionTyped
<1>2. /\ i.phase = "live" /\ i.seen = << >> /\ i.file = <<Tag>> /\ i.cycles = 0
      /\ i.frame = 0 /\ i.in_frame = FALSE /\ i.keys = {} /\ i.disk = 0
  BY DEF NewSession
<1> HIDE DEF i
<1>3. Len(i.seen) = 0 /\ 0 <= MaxSteps  BY <1>2, InputAssumption
<1>4. Script(i.file) \in Seq(ScriptLines) /\ EventsOf(Script(i.file)) = {}
      /\ SwapsOf(i.file) = {} /\ Recording(i.file)
  BY <1>2, EmptyScript
<1>5. Settled({}, Script(i.file), {}, "key") = {}  BY DEF Settled
<1>6. Chained(i.seen) /\ SeenKeys(Script(i.file), i.seen) /\ SeenDisks(i.file, i.seen)
  BY <1>3 DEF Chained, SeenKeys, SeenDisks
<1>7. Clocked(i, i.seen, 0)  BY <1>2 DEF Clocked, Reached, FrameAfter, Inside
<1>8. LiveTold(i)
  <2> DEFINE s == Script(i.file)
             seen == i.seen
             f == i.file
  <2>1. Clocked(i, seen, Len(seen)) /\ i.frame <= Len(seen)  BY <1>2, <1>3, <1>7
  <2>2. \A n \in 1 .. Len(seen) : FALSE  BY <1>3
  <2>3. ~i.in_frame /\ i.keys = Settled({}, s, EventsOf(s), "key") /\ i.disk = 0
    BY <1>2, <1>4, <1>5
  <2>4. EventsOf(s) = {} /\ SwapsOf(f) = {}  BY <1>4
  <2>5. Chained(seen) /\ SeenKeys(s, seen) /\ SeenDisks(f, seen)  BY <1>6
  <2> HIDE DEF s, seen, f
  <2> QED BY <2>1, <2>2, <2>3, <2>4, <2>5 DEF LiveTold, s, seen, f
<1>9. SessionInv(i)  BY <1>1, <1>2, <1>3, <1>4, <1>8 DEF SessionInv
<1> QED BY <1>9 DEF i

\* --input-shift delays every event by as much.
LEMMA DelayedIs ==
  ASSUME NEW s \in Seq(ScriptLines), NEW shift \in Nat, NEW d, d = Delayed(s, shift)
  PROVE  /\ d \in Seq(ScriptLines) /\ Len(d) = Len(s) /\ EventsAre(d, s, shift)
         /\ Ordered(s) => Ordered(d)
<1>1. Len(s) \in Nat /\ DOMAIN s = 1 .. Len(s)  BY LenProperties
<1>2. \A n \in 1 .. Len(s) : s[n] \in ScriptLines  BY ElementOfSeq
<1>3. ASSUME NEW n \in 1 .. Len(s)
      PROVE  /\ d[n] \in ScriptLines
             /\ d[n].kind = s[n].kind /\ d[n].name = s[n].name /\ d[n].down = s[n].down
             /\ d[n].at = s[n].at + shift /\ s[n].at \in Nat
  <2> DEFINE l == s[n]
             at == l.at + shift
  <2>1. d[n] = [l EXCEPT !.at = at]  BY <1>1 DEF Delayed
  <2>2. l \in ScriptLines  BY <1>2
  <2> HIDE DEF l
  <2>3. at \in Nat /\ l.at \in Nat  BY <2>2 DEF ScriptLines
  <2>4. at = l.at + shift  OBVIOUS
  <2> HIDE DEF at
  <2>5. d[n] \in ScriptLines /\ d[n].kind = l.kind /\ d[n].name = l.name /\ d[n].down = l.down
        /\ d[n].at = at
    BY <2>1, <2>2, <2>3 DEF ScriptLines
  <2> QED BY <2>3, <2>4, <2>5 DEF l
<1>4. d = [n \in 1 .. Len(s) |-> d[n]] /\ DOMAIN d = 1 .. Len(s)  BY <1>1 DEF Delayed
<1>5. d \in Seq(ScriptLines)
  <2>1. \A n \in 1 .. Len(s) : d[n] \in ScriptLines  BY <1>3
  <2>2. d \in [1 .. Len(s) -> ScriptLines]  BY <2>1, <1>4
  <2> QED BY <2>2, <1>1
<1>6. Len(d) = Len(s)  BY <1>1, <1>4, <1>5, LenProperties
<1>7. EventsOf(d) = EventsOf(s)  BY <1>1, <1>3, <1>4 DEF EventsOf, IsEvent
<1>8. EventsOf(s) \subseteq 1 .. Len(s)  BY <1>1 DEF EventsOf
<1>9. EventsAre(d, s, shift)  BY <1>3, <1>7, <1>8 DEF EventsAre
<1>10. ASSUME Ordered(s) PROVE Ordered(d)
  <2>1. SUFFICES ASSUME NEW m \in EventsOf(d), NEW n \in EventsOf(d), m <= n
                 PROVE  d[m].at <= d[n].at
    BY DEF Ordered
  <2>2. s[m].at <= s[n].at  BY <2>1, <1>7, <1>10 DEF Ordered
  <2>3. m \in 1 .. Len(s) /\ n \in 1 .. Len(s)  BY <2>1, <1>7, <1>8
  <2>4. d[m].at = s[m].at + shift /\ d[n].at = s[n].at + shift /\ s[m].at \in Nat /\ s[n].at \in Nat
    BY <2>3, <1>3
  <2> QED BY <2>2, <2>4
<1> QED BY <1>5, <1>6, <1>9, <1>10

\* The frame of the first swap, or none.
SwapFrame(file) == IF SwapsOf(file) = {} THEN MaxSteps + 1 ELSE file[FirstSwap(file)].at

\* --swap-disk-frame is the frame of some recorded swap.
LEMMA FirstSwapIs ==
  ASSUME NEW f \in Seq(ScriptLines)
  PROVE  /\ SwapFrame(f) \in Nat
         /\ SwapsOf(f) # {} => \E m \in SwapsOf(f) : SwapFrame(f) = f[m].at
<1>1. DOMAIN f = 1 .. Len(f) /\ Len(f) \in Nat  BY LenProperties
<1>2. \A n \in 1 .. Len(f) : f[n] \in ScriptLines  BY ElementOfSeq
<1>3. CASE SwapsOf(f) = {}
  <2>1. SwapFrame(f) = MaxSteps + 1  BY <1>3 DEF SwapFrame
  <2> QED BY <2>1, <1>3, InputAssumption
<1>4. CASE SwapsOf(f) # {}
  <2> DEFINE I == {i \in 1 .. Len(f) : f[i].kind = "comment"}
  <2>1. I = SwapsOf(f)  BY <1>1 DEF SwapsOf
  <2>2. I \subseteq Nat /\ I # {}  BY <2>1, <1>4
  <2>3. Min(I) \in I  BY <2>2, LeastOf
  <2>4. FirstSwap(f) = Min(I)  BY <2>2 DEF FirstSwap, SelectInSeq
  <2>5. SwapFrame(f) = f[FirstSwap(f)].at  BY <1>4 DEF SwapFrame
  <2>6. FirstSwap(f) \in SwapsOf(f) /\ FirstSwap(f) \in 1 .. Len(f)  BY <2>1, <2>3, <2>4
  <2>7. f[FirstSwap(f)].at \in Nat  BY <2>6, <1>2 DEF ScriptLines
  <2> QED BY <2>5, <2>6, <2>7
<1> QED BY <1>3, <1>4

\* The shift is one of those given, or none.
LEMMA OptionShift ==
  ASSUME NEW o \in Options
  PROVE  o.shift \in Nat
<1>1. CASE o = InTheWindow  BY <1>1 DEF InTheWindow
<1>2. CASE o # InTheWindow
  <2>1. o.shift \in Shifts  BY <1>2 DEF Options
  <2> QED BY <2>1, InputAssumption
<1> QED BY <1>1, <1>2

\* A script that was loaded begins a replay, if it can be read and tells what
\* the session saw.
LEMMA LoadedInv ==
  ASSUME NEW file \in Seq(ScriptLines), NEW told \in BOOLEAN, NEW recorded \in BOOLEAN,
         NEW seen \in Seq(Sights), Len(seen) <= MaxSteps, NEW options \in Options,
         recorded /\ told => options.shift = 0 /\ ToldBy(file, seen, SwapFrame(file)),
         inp' = ScriptLoaded(file, told, recorded, seen, options)
  PROVE  InputInv'
<1> DEFINE c == ScriptLoaded(file, told, recorded, seen, options)
           phase == IF Readable(file) THEN "replay" ELSE "refused"
           events == IF Readable(file) THEN Delayed(Body(file), options.shift) ELSE << >>
           swap_frame == SwapFrame(file)
<1>1. c = [NewSession EXCEPT !.phase = phase, !.file = file, !.told = told,
             !.recorded = recorded, !.seen = seen, !.options = options, !.events = events,
             !.swap_frame = swap_frame]
  BY DEF ScriptLoaded, SwapFrame
<1>2. phase \in {"replay", "refused"} /\ swap_frame \in Nat  BY FirstSwapIs
<1>3. options.shift \in Nat  BY OptionShift
<1>4. Readable(file) => /\ Body(file) \in Seq(ScriptLines) /\ Ordered(Body(file))
  <2>1. Readable(file) => file # << >>  BY DEF Readable
  <2>2. file # << >> => Body(file) \in Seq(ScriptLines)  BY BodyLines
  <2> QED BY <2>1, <2>2 DEF Readable
<1>5. events \in Seq(ScriptLines)
      /\ (Readable(file) => EventsAre(events, Body(file), options.shift) /\ Ordered(events))
  <2>1. CASE Readable(file)
    <3> DEFINE s == Body(file)
               shift == options.shift
    <3>1. events = Delayed(s, shift) /\ s \in Seq(ScriptLines) /\ Ordered(s) /\ shift \in Nat
      BY <2>1, <1>3, <1>4
    <3> HIDE DEF s, shift, events
    <3>2. events \in Seq(ScriptLines) /\ EventsAre(events, s, shift) /\ Ordered(events)
      BY <3>1, DelayedIs
    <3> QED BY <3>2 DEF s, shift
  <2>2. CASE ~Readable(file)
    <3>1. events = << >>  BY <2>2
    <3> QED BY <3>1, <2>2
  <2> QED BY <2>1, <2>2
<1>6. inp' = c  OBVIOUS
<1>7. phase = "replay" => Readable(file)  OBVIOUS
<1> HIDE DEF c, phase, events, swap_frame
<1>8. c \in Sessions
  BY <1>1, <1>2, <1>5, NewSessionTyped DEF Sessions
<1>9. /\ c.phase = phase /\ c.file = file /\ c.told = told /\ c.recorded = recorded
      /\ c.seen = seen /\ c.options = options /\ c.events = events /\ c.swap_frame = swap_frame
      /\ c.cycles = 0 /\ c.frame = 0 /\ c.in_frame = FALSE /\ c.halted = FALSE /\ c.keys = {}
      /\ c.joys = {} /\ c.disk = 0 /\ c.cursor = 1 /\ c.applied = 0 /\ c.done = 0
  BY <1>1 DEF NewSession
<1>10. ASSUME c.phase = "replay"
       PROVE  Replaying(c) /\ Following(c)
  <2>1. Readable(file)  BY <1>7, <1>9, <1>10
  <2>2. Passed(events, 1) = {}  BY <1>5, NothingPassed
  <2>3. Settled({}, events, {}, "key") = {} /\ Settled({}, events, {}, "joy") = {}
    BY DEF Settled
  <2>4. PlayerIs(events, 1, {}, {}, JoystickAttached(c))
    <3>1. 1 \in 1 .. Len(events) + 1
      <4>1. Len(events) \in Nat  BY <1>5, LenProperties
      <4> QED BY <4>1
    <3> QED BY <3>1, <2>1, <2>2, <2>3, <1>5 DEF PlayerIs
  <2>5. Player(c)  BY <2>1, <2>4, <1>4, <1>5, <1>9 DEF Player, Begun
  <2>6. 0 = DiskBefore(swap_frame, 0)  BY <1>2 DEF DiskBefore
  <2>7. Replaying(c)  BY <2>5, <2>6, <1>9 DEF Replaying
  <2>8. Following(c)
    <3>1. SUFFICES ASSUME recorded, told PROVE Following(c)  BY <1>9 DEF Following
    <3>2. ToldBy(file, seen, swap_frame) /\ options.shift = 0  BY <3>1 DEF swap_frame
    <3>3. 0 <= Len(seen)  BY LenProperties
    <3>4. Clocked(c, seen, 0)  BY <1>9 DEF Clocked, Reached, FrameAfter, Inside
    <3>5. 0 = Reached(seen, 0)  BY DEF Reached
    <3> QED BY <3>2, <3>3, <3>4, <3>5, <1>9 DEF Following
  <2> QED BY <2>7, <2>8
<1>11. c.phase # "live"  BY <1>2, <1>9
<1> QED BY <1>6, <1>8, <1>9, <1>10, <1>11 DEF InputInv, SessionInv

\* A script written by hand.
LEMMA LoadScriptKeeps ==
  ASSUME InputInv, LoadScript
  PROVE  InputInv'
<1>1. PICK s \in Scripts, options \in Options :
        inp' = ScriptLoaded(s, TRUE, FALSE, << >>, options)
  BY DEF LoadScript
<1>2. s \in Seq(ScriptLines)  BY InputAssumption
<1>3. << >> \in Seq(Sights) /\ Len(<< >>) <= MaxSteps  BY InputAssumption
<1> DEFINE yes == TRUE  no == FALSE  none == << >>
<1>4. yes \in BOOLEAN /\ no \in BOOLEAN /\ none \in Seq(Sights) /\ Len(none) <= MaxSteps
      /\ inp' = ScriptLoaded(s, yes, no, none, options)
  BY <1>1, <1>3
<1>5. ~no  OBVIOUS
<1> HIDE DEF yes, no, none
<1> QED BY <1>2, <1>4, <1>5, LoadedInv

\* The end of a program.
LEMMA EndsKeeps ==
  ASSUME InputInv, ProgramEnds
  PROVE  InputInv'
<1>1. inp' = NewSession  BY DEF ProgramEnds
<1> QED BY <1>1, NewSessionInv DEF InputInv

\* The file of a session, closed or cut off, tells its replay what the
\* session saw.
Grown(g, f, l) == g = Append(f, l)

\* A line more, and the swaps there are.
LEMMA SameSwaps ==
  ASSUME NEW f \in Seq(ScriptLines), NEW l \in ScriptLines, NEW g, Grown(g, f, l)
  PROVE  /\ g \in Seq(ScriptLines) /\ Len(g) = Len(f) + 1 /\ g[Len(f) + 1] = l
         /\ \A n \in 1 .. Len(f) : g[n] = f[n]
         /\ SwapsOf(f) \subseteq 1 .. Len(f)
         /\ SwapsOf(g) = IF l.kind = "comment" THEN SwapsOf(f) \cup {Len(f) + 1} ELSE SwapsOf(f)
<1>1. Len(f) \in Nat /\ DOMAIN f = 1 .. Len(f)  BY LenProperties
<1>2. g \in Seq(ScriptLines) /\ Len(g) = Len(f) + 1 /\ g[Len(f) + 1] = l
      /\ \A n \in 1 .. Len(f) : g[n] = f[n]
  BY AppendProperties DEF Grown
<1>3. DOMAIN g = 1 .. Len(f) + 1  BY <1>2, LenProperties
<1> DEFINE N == Len(f)
<1> HIDE DEF N
<1>4. N \in Nat /\ DOMAIN f = 1 .. N /\ DOMAIN g = 1 .. N + 1 /\ g[N + 1] = l
      /\ \A n \in 1 .. N : g[n] = f[n]
  BY <1>1, <1>2, <1>3 DEF N
<1>5. \A n : n \in 1 .. N + 1 <=> n \in 1 .. N \/ n = N + 1  BY <1>4
<1>6. SwapsOf(g) = IF l.kind = "comment" THEN SwapsOf(f) \cup {N + 1} ELSE SwapsOf(f)
  BY <1>4, <1>5 DEF SwapsOf
<1>7. SwapsOf(f) \subseteq 1 .. N  BY <1>4 DEF SwapsOf
<1> QED BY <1>2, <1>6, <1>7 DEF N

\* [END] is no swap.
LEMMA EndIsNoSwap ==
  ASSUME NEW f \in Seq(ScriptLines)
  PROVE  /\ SwapsOf(Append(f, End)) = SwapsOf(f)
         /\ \A n \in SwapsOf(f) : Append(f, End)[n].at = f[n].at
<1> DEFINE l == End
           g == Append(f, l)
<1>1. l \in ScriptLines /\ l.kind # "comment"  BY DEF End, Line, ScriptLines, Names
<1>2. Grown(g, f, l)  BY DEF Grown
<1> HIDE DEF l, g
<1>3. /\ \A n \in 1 .. Len(f) : g[n] = f[n]
      /\ SwapsOf(f) \subseteq 1 .. Len(f)
      /\ SwapsOf(g) = IF l.kind = "comment" THEN SwapsOf(f) \cup {Len(f) + 1} ELSE SwapsOf(f)
  BY <1>1, <1>2, SameSwaps
<1>4. SwapsOf(g) = SwapsOf(f) /\ \A n \in SwapsOf(f) : g[n].at = f[n].at  BY <1>1, <1>3
<1> QED BY <1>4 DEF g, l

\* The first swap of a file tells the disk of every step, if there is one
\* swap at most.
LEMMA SwapsTold ==
  ASSUME NEW f \in Seq(ScriptLines), NEW g \in Seq(ScriptLines), SwapsOf(g) = SwapsOf(f),
         \A n \in SwapsOf(f) : g[n].at = f[n].at,
         NEW seen \in Seq(Sights), SeenDisks(f, seen), OneSwap(g),
         SwapsOf(f) # {} => Disks > 1,
         NEW n \in 1 .. Len(seen), seen[n].frame \in Nat, seen[n].frame <= MaxSteps
  PROVE  seen[n].disk = DiskIn(SwapFrame(g), seen[n].frame)
<1>1. seen[n].disk = IF \E m \in SwapsOf(f) : f[m].at <= seen[n].frame THEN 1 ELSE 0
  BY DEF SeenDisks
<1>2. CASE SwapsOf(f) = {}
  <2>1. SwapFrame(g) = MaxSteps + 1  BY <1>2 DEF SwapFrame
  <2>2. ~(SwapFrame(g) <= seen[n].frame)  BY <2>1, InputAssumption
  <2> QED BY <1>1, <1>2, <2>2 DEF DiskIn
<1>3. CASE SwapsOf(f) # {}
  <2>1. PICK m \in SwapsOf(g) : SwapFrame(g) = g[m].at  BY <1>3, FirstSwapIs
  <2>2. \A k \in SwapsOf(f) : k = m  BY <2>1 DEF OneSwap
  <2>3. SwapFrame(g) = f[m].at /\ m \in SwapsOf(f)  BY <2>1
  <2> QED BY <1>1, <1>3, <2>2, <2>3 DEF DiskIn
<1> QED BY <1>2, <1>3

\* What the recorder wrote, closed or cut off, tells the session.
LEMMA RecordingTells ==
  ASSUME NEW i \in Sessions, Recording(i.file), LiveTold(i), Len(i.seen) <= MaxSteps,
         NEW g, g = i.file \/ g = Append(i.file, End)
  PROVE  ToldBy(g, i.seen, SwapFrame(g))
<1> DEFINE f == i.file
           seen == i.seen
<1>1. f \in Seq(ScriptLines) /\ seen \in Seq(Sights) /\ i.frame \in Nat  BY DEF Sessions
<1>2. End \in ScriptLines /\ End.kind # "comment"  BY DEF End, Line, ScriptLines, Names
<1>3. g \in Seq(ScriptLines) /\ Body(g) = Script(f)
  <2>1. f # << >> /\ \A n \in 1 .. Len(f) : f[n].kind # "end"  BY DEF Recording
  <2> HIDE DEF f
  <2>2. Body(f) = Script(f) /\ Body(Append(f, End)) = Script(f)  BY <1>1, <2>1, BodyRecorded
  <2>3. Append(f, End) \in Seq(ScriptLines)  BY <1>1, <1>2, AppendProperties
  <2> QED BY <1>1, <2>2, <2>3 DEF f
<1>4. SwapsOf(g) = SwapsOf(f) /\ \A n \in SwapsOf(f) : g[n].at = f[n].at
  <2>1. CASE g = f  BY <2>1
  <2>2. CASE g = Append(f, End)
    <3> HIDE DEF f
    <3>1. SwapsOf(Append(f, End)) = SwapsOf(f)
          /\ \A n \in SwapsOf(f) : Append(f, End)[n].at = f[n].at
      BY <1>1, EndIsNoSwap
    <3> QED BY <3>1, <2>2
  <2> QED BY <2>1, <2>2
<1>5. /\ Chained(seen) /\ SeenKeys(Script(f), seen) /\ i.frame <= Len(seen)
      /\ \A n \in 1 .. Len(seen) : seen[n].frame <= i.frame
      /\ SwapsOf(f) # {} => Disks > 1
      /\ OneSwap(f) => SeenDisks(f, seen)
  BY DEF LiveTold
<1>6. \A n \in 1 .. Len(seen) : seen[n].frame \in Nat /\ seen[n].frame <= MaxSteps
  <2>1. \A n \in 1 .. Len(seen) : seen[n] \in Sights  BY <1>1, ElementOfSeq
  <2>2. \A n \in 1 .. Len(seen) : seen[n].frame \in Nat  BY <2>1 DEF Sights
  <2>3. Len(seen) \in Nat /\ MaxSteps \in Nat /\ Len(seen) <= MaxSteps
    BY <1>1, LenProperties, InputAssumption
  <2> HIDE DEF seen
  <2> QED BY <1>1, <1>5, <2>2, <2>3
<1>7. ASSUME OneSwap(g), NEW n \in 1 .. Len(seen)
      PROVE  seen[n].disk = DiskIn(SwapFrame(g), seen[n].frame)
  <2>1. OneSwap(f)  BY <1>4, <1>7 DEF OneSwap
  <2> HIDE DEF f, seen
  <2> QED BY <1>1, <1>3, <1>4, <1>5, <1>6, <1>7, <2>1, SwapsTold
<1> HIDE DEF f, seen
<1>8. ToldBy(g, seen, SwapFrame(g))  BY <1>3, <1>5, <1>6, <1>7 DEF ToldBy
<1> QED BY <1>8 DEF seen

\* The end of a session, and the process that replays it.
LEMMA CloseRecordingKeeps ==
  ASSUME InputInv, CloseRecording
  PROVE  InputInv'
<1>1. PICK clean \in BOOLEAN, options \in Options :
        /\ options.shift = 0
        /\ inp' = ScriptLoaded(IF clean THEN Append(inp.file, End) ELSE inp.file,
                               inp.told, TRUE, inp.seen, options)
  BY DEF CloseRecording
<1> DEFINE g == IF clean THEN Append(inp.file, End) ELSE inp.file
           told == inp.told
           seen == inp.seen
           yes == TRUE
<1>2. /\ inp \in Sessions /\ Len(inp.seen) <= MaxSteps
      /\ Recording(inp.file) /\ (inp.told => LiveTold(inp))
  BY DEF InputInv, SessionInv, CloseRecording
<1>3. g = inp.file \/ g = Append(inp.file, End)  OBVIOUS
<1>4. inp.file \in Seq(ScriptLines) /\ told \in BOOLEAN /\ seen \in Seq(Sights)
  BY <1>2 DEF Sessions
<1>5. g \in Seq(ScriptLines)
  <2>1. End \in ScriptLines  BY DEF End, Line, ScriptLines, Names
  <2> QED BY <2>1, <1>4, AppendProperties
<1>6. inp' = ScriptLoaded(g, told, yes, seen, options)  BY <1>1
<1>7. yes \in BOOLEAN  OBVIOUS
<1> HIDE DEF g, yes
<1>8. told => ToldBy(g, seen, SwapFrame(g))  BY <1>2, <1>3, RecordingTells
<1>9. Len(seen) <= MaxSteps  BY <1>2
<1> HIDE DEF told, seen
<1> QED BY <1>1, <1>4, <1>5, <1>6, <1>7, <1>8, <1>9, LoadedInv

(***************************************************************************)
(* The live session.                                                       *)
(***************************************************************************)
\* A file that gets one more line.
LEMMA ScriptMore ==
  ASSUME NEW f \in Seq(ScriptLines), f # << >>, NEW l \in ScriptLines, NEW g, Grown(g, f, l),
         NEW s, s = Script(f), NEW t, t = Script(g), NEW N, N = Len(f)
  PROVE  /\ N \in Nat /\ s \in Seq(ScriptLines) /\ t \in Seq(ScriptLines)
         /\ EventsOf(s) \subseteq 1 .. N - 1
         /\ \A m \in EventsOf(s) : t[m] = s[m] /\ s[m].at \in Nat
         /\ t[N] = l
         /\ EventsOf(t) = IF IsEvent(l) THEN EventsOf(s) \cup {N} ELSE EventsOf(s)
<1>1. N \in Nat /\ N >= 1  BY LenProperties, EmptySeq
<1>2. s \in Seq(ScriptLines) /\ Len(s) = N - 1 /\ t = Append(s, l)
  BY ScriptGrows DEF Grown
<1>3. t \in Seq(ScriptLines) /\ Len(t) = Len(s) + 1 /\ t[Len(s) + 1] = l
      /\ \A m \in 1 .. Len(s) : t[m] = s[m]
  BY <1>2, AppendProperties
<1>4. Len(s) + 1 = N /\ Len(s) \in Nat  BY <1>1, <1>2
<1>5. DOMAIN s = 1 .. N - 1 /\ DOMAIN t = 1 .. N
  <2>1. DOMAIN s = 1 .. Len(s) /\ DOMAIN t = 1 .. Len(t)  BY <1>2, <1>3, LenProperties
  <2> QED BY <2>1, <1>2, <1>3, <1>4
<1>6. \A m \in 1 .. N - 1 : t[m] = s[m] /\ s[m] \in ScriptLines
  <2>1. \A m \in 1 .. Len(s) : s[m] \in ScriptLines  BY <1>2, ElementOfSeq
  <2> QED BY <2>1, <1>2, <1>3
<1>7. t[N] = l  BY <1>3, <1>4
<1>8. EventsOf(s) \subseteq 1 .. N - 1  BY <1>5 DEF EventsOf
<1>9. \A m \in EventsOf(s) : t[m] = s[m] /\ s[m].at \in Nat  BY <1>6, <1>8 DEF ScriptLines
<1>10. \A m : m \in 1 .. N <=> m \in 1 .. N - 1 \/ m = N  BY <1>1
<1>11. EventsOf(t) = IF IsEvent(l) THEN EventsOf(s) \cup {N} ELSE EventsOf(s)
  BY <1>5, <1>6, <1>7, <1>10 DEF EventsOf
<1> QED BY <1>1, <1>2, <1>3, <1>7, <1>8, <1>9, <1>11

\* The steps so far saw no event of that line.
LEMMA SeenMore ==
  ASSUME NEW s, NEW t, NEW N, NEW l, NEW seen \in Seq(Sights), SeenKeys(s, seen),
         \A m \in EventsOf(s) : t[m] = s[m], t[N] = l,
         EventsOf(t) = IF IsEvent(l) THEN EventsOf(s) \cup {N} ELSE EventsOf(s),
         l.at \in Nat,
         IsEvent(l) => \A n \in 1 .. Len(seen) : seen[n].cycles + seen[n].length <= l.at
  PROVE  SeenKeys(t, seen)
<1> SUFFICES ASSUME NEW n \in 1 .. Len(seen),
                    NEW now \in seen[n].start .. (seen[n].cycles + seen[n].length - 1)
             PROVE  seen[n].keys = Settled({}, t, UpTo(t, now), "key")
  BY DEF SeenKeys
<1>1. seen[n].keys = Settled({}, s, UpTo(s, now), "key")  BY DEF SeenKeys
<1> DEFINE ends == seen[n].cycles + seen[n].length
<1>2. now \in Int /\ ends \in Nat /\ now < ends
  <2>1. seen[n] \in Sights  BY ElementOfSeq
  <2>2. seen[n].start \in Nat /\ seen[n].cycles \in Nat /\ seen[n].length \in Nat
    BY <2>1, InputAssumption DEF Sights
  <2> QED BY <2>2
<1>3. IsEvent(l) => ends <= l.at  OBVIOUS
<1> HIDE DEF ends
<1>4. IsEvent(l) => ~(l.at <= now)  BY <1>2, <1>3
<1>5. UpTo(t, now) = UpTo(s, now)
  <2>1. \A m : m \in UpTo(t, now) => m \in UpTo(s, now)
    <3>1. SUFFICES ASSUME NEW m \in EventsOf(t), t[m].at <= now PROVE m \in UpTo(s, now)
      BY DEF UpTo
    <3>2. m \in EventsOf(s)  BY <3>1, <1>4
    <3> QED BY <3>1, <3>2 DEF UpTo
  <2>2. \A m : m \in UpTo(s, now) => m \in UpTo(t, now)  BY DEF UpTo
  <2> QED BY <2>1, <2>2
<1> DEFINE U == UpTo(s, now)
<1>6. \A m \in U : s[m] = t[m]  BY DEF UpTo
<1> HIDE DEF U
<1>7. Settled({}, s, U, "key") = Settled({}, t, U, "key")
  <2>1. \A m \in U \cup U : s[m].kind = t[m].kind /\ s[m].name = t[m].name /\ s[m].down = t[m].down
    BY <1>6
  <2> QED BY <2>1, SettledSame
<1> QED BY <1>1, <1>5, <1>7 DEF U

\* And the keys are those before, with that line's.
LEMMA KeysMore ==
  ASSUME NEW s, NEW t, NEW N \in Nat, EventsOf(s) \subseteq 1 .. N - 1,
         \A m \in EventsOf(s) : t[m] = s[m], EventsOf(t) = EventsOf(s) \cup {N},
         NEW kind, NEW name, NEW down, Says(t[N], kind, name, down)
  PROVE  Changed(Settled({}, t, EventsOf(t), kind), Settled({}, s, EventsOf(s), kind), name,
                 down)
<1> DEFINE P == EventsOf(s)
           R == EventsOf(t)
<1>1. OneMore(P, N, R)
  <2>1. \A p \in P : p \in Int /\ p < N  OBVIOUS
  <2> QED BY <2>1 DEF Before, OneMore
<1>2. \A m \in P \cup P : t[m].kind = s[m].kind /\ t[m].name = s[m].name /\ t[m].down = s[m].down
  OBVIOUS
<1> HIDE DEF P, R
<1>4. Changed(Settled({}, t, R, kind), Settled({}, t, P, kind), name, down)
  BY <1>1, SettledOne
<1>5. Settled({}, t, P, kind) = Settled({}, s, P, kind)
  BY <1>2, SettledSame
<1> QED BY <1>4, <1>5 DEF P, R

\* What a recorded session says does not ask for the menu and the host's keys.
LEMMA SameLive ==
  ASSUME NEW i, NEW j, LiveTold(i), j.file = i.file, j.seen = i.seen, j.cycles = i.cycles,
         j.frame = i.frame, j.in_frame = i.in_frame, j.start = i.start, j.keys = i.keys,
         j.disk = i.disk
  PROVE  LiveTold(j)
<1>1. \A n : Clocked(i, i.seen, n) => Clocked(j, j.seen, n)  BY DEF Clocked
<1> QED BY <1>1 DEF LiveTold

\* One more line, and nothing that the steps so far have seen.
LEMMA RecordingGrows ==
  ASSUME NEW f \in Seq(ScriptLines), Recording(f), NEW l \in ScriptLines, l.kind # "end",
         NEW g, Grown(g, f, l)
  PROVE  g \in Seq(ScriptLines) /\ Recording(g)
<1> DEFINE N == Len(f)
<1>1. g \in Seq(ScriptLines) /\ Len(g) = N + 1 /\ g[N + 1] = l /\ \A n \in 1 .. N : g[n] = f[n]
  BY SameSwaps
<1>2. N \in Nat  BY LenProperties
<1> HIDE DEF N
<1>3. g # << >>  BY <1>1, <1>2, EmptySeq
<1>4. \A n \in 1 .. N : f[n].kind # "end"  BY DEF Recording, N
<1>5. \A n \in 1 .. N + 1 : n \in 1 .. N \/ n = N + 1  BY <1>2
<1>6. \A n \in 1 .. Len(g) : g[n].kind # "end"  BY <1>1, <1>4, <1>5
<1> QED BY <1>1, <1>3, <1>6 DEF Recording

\* What the record of a session holds.
LEMMA LiveTyped ==
  ASSUME NEW i \in Sessions
  PROVE  /\ i.file \in Seq(ScriptLines) /\ i.seen \in Seq(Sights) /\ i.cycles \in Nat
         /\ i.start \in Nat /\ i.frame \in Nat /\ i.keys \subseteq Names /\ i.disk \in Nat
         /\ i.in_frame \in BOOLEAN /\ i.told \in BOOLEAN
  BY DEF Sessions

\* record_key: the file tells the session after a key as before it.
LEMMA KeyTold ==
  ASSUME NEW i \in Sessions, Recording(i.file), LiveTold(i), ~i.in_frame,
         NEW key \in KeyNames, NEW down \in BOOLEAN, NEW l, l = KeyLine(i.cycles, key, down),
         NEW j, Grown(j.file, i.file, l), j.seen = i.seen, j.cycles = i.cycles,
         j.frame = i.frame, j.in_frame = i.in_frame, j.start = i.start,
         j.keys = IF down THEN i.keys \cup {key} ELSE i.keys \ {key}, j.disk = i.disk
  PROVE  LiveTold(j)
<1> DEFINE f == i.file
           g == j.file
           s == Script(f)
           t == Script(g)
           N == Len(f)
           seen == i.seen
<1>1. f \in Seq(ScriptLines) /\ seen \in Seq(Sights) /\ i.cycles \in Nat /\ f # << >>
  BY LiveTyped DEF Recording
<1>2. l \in ScriptLines /\ l.at = i.cycles /\ l.kind = "key" /\ IsEvent(l)
      /\ Says(l, "key", key, down)
  BY <1>1 DEF KeyLine, Line, ScriptLines, Names, IsEvent, Says
<1>3. Grown(g, f, l) /\ s = Script(f) /\ t = Script(g) /\ N = Len(f)  OBVIOUS
<1>4. /\ Chained(seen) /\ Clocked(i, seen, Len(seen)) /\ i.frame <= Len(seen)
      /\ \A n \in 1 .. Len(seen) :
           /\ seen[n].cycles + seen[n].length <= i.cycles
           /\ seen[n].frame <= i.frame /\ (~i.in_frame => seen[n].frame < i.frame)
      /\ i.keys = Settled({}, s, EventsOf(s), "key")
      /\ \A m \in EventsOf(s) : s[m].at <= i.cycles
      /\ SeenKeys(s, seen)
      /\ SwapsOf(f) # {} => Disks > 1
      /\ \A m \in SwapsOf(f) : f[m].at <= i.frame
      /\ OneSwap(f) =>
           /\ i.disk = IF SwapsOf(f) = {} THEN 0 ELSE 1
           /\ SeenDisks(f, seen)
  BY DEF LiveTold
<1> HIDE DEF f, g, s, t, N, seen
<1>5. /\ N \in Nat /\ EventsOf(s) \subseteq 1 .. N - 1
      /\ \A m \in EventsOf(s) : t[m] = s[m] /\ s[m].at \in Nat
      /\ t[N] = l
      /\ EventsOf(t) = IF IsEvent(l) THEN EventsOf(s) \cup {N} ELSE EventsOf(s)
  BY <1>1, <1>2, <1>3, ScriptMore
<1>6. Changed(Settled({}, t, EventsOf(t), "key"), Settled({}, s, EventsOf(s), "key"), key, down)
  <2>1. EventsOf(t) = EventsOf(s) \cup {N}  BY <1>2, <1>5
  <2>2. Says(t[N], "key", key, down)  BY <1>2, <1>5
  <2> QED BY <1>5, <2>1, <2>2, KeysMore
<1>7. j.keys = Settled({}, t, EventsOf(t), "key")  BY <1>4, <1>6 DEF Changed
<1>8. \A m \in EventsOf(t) : t[m].at <= i.cycles  BY <1>1, <1>2, <1>4, <1>5
<1>9. SeenKeys(t, seen)
  <2>1. \A n \in 1 .. Len(seen) : seen[n].cycles + seen[n].length <= l.at  BY <1>2, <1>4
  <2> QED BY <1>1, <1>2, <1>4, <1>5, <2>1, SeenMore
<1>10. SwapsOf(g) = SwapsOf(f) /\ \A m \in SwapsOf(f) : g[m] = f[m]
  <2>1. /\ \A n \in 1 .. Len(f) : g[n] = f[n]
        /\ SwapsOf(f) \subseteq 1 .. Len(f)
        /\ SwapsOf(g) = IF l.kind = "comment" THEN SwapsOf(f) \cup {Len(f) + 1} ELSE SwapsOf(f)
    BY <1>1, <1>2, <1>3, SameSwaps
  <2> QED BY <2>1, <1>2
<1>11. OneSwap(g) <=> OneSwap(f)  BY <1>10 DEF OneSwap
<1>12. SeenDisks(f, seen) => SeenDisks(g, seen)  BY <1>10 DEF SeenDisks
<1>13. Clocked(j, seen, Len(seen))  BY <1>4 DEF Clocked
<1>14. j.seen = seen /\ j.file = g /\ Script(j.file) = t  BY DEF seen, g, t
<1> QED BY <1>4, <1>7, <1>8, <1>9, <1>10, <1>11, <1>12, <1>13, <1>14 DEF LiveTold

\* record_disk_swap: and after a swap.
LEMMA SwapTold ==
  ASSUME NEW i \in Sessions, Recording(i.file), LiveTold(i), ~i.in_frame, Disks > 1,
         NEW l, l = SwapLine(i.frame),
         NEW j, Grown(j.file, i.file, l), j.seen = i.seen, j.cycles = i.cycles,
         j.frame = i.frame, j.in_frame = i.in_frame, j.start = i.start, j.keys = i.keys,
         j.disk = (i.disk + 1) % Disks
  PROVE  LiveTold(j)
<1> DEFINE f == i.file
           g == j.file
           s == Script(f)
           t == Script(g)
           N == Len(f)
           seen == i.seen
<1>1. f \in Seq(ScriptLines) /\ seen \in Seq(Sights) /\ i.frame \in Nat /\ f # << >>
  BY LiveTyped DEF Recording
<1>2. l \in ScriptLines /\ l.at = i.frame /\ l.kind = "comment" /\ ~IsEvent(l)
  BY <1>1 DEF SwapLine, Line, ScriptLines, Names, IsEvent
<1>3. Grown(g, f, l) /\ s = Script(f) /\ t = Script(g) /\ N = Len(f)  OBVIOUS
<1>4. /\ Chained(seen) /\ Clocked(i, seen, Len(seen)) /\ i.frame <= Len(seen)
      /\ \A n \in 1 .. Len(seen) :
           /\ seen[n].cycles + seen[n].length <= i.cycles
           /\ seen[n].frame <= i.frame /\ (~i.in_frame => seen[n].frame < i.frame)
      /\ i.keys = Settled({}, s, EventsOf(s), "key")
      /\ \A m \in EventsOf(s) : s[m].at <= i.cycles
      /\ SeenKeys(s, seen)
      /\ SwapsOf(f) # {} => Disks > 1
      /\ \A m \in SwapsOf(f) : f[m].at <= i.frame
      /\ OneSwap(f) =>
           /\ i.disk = IF SwapsOf(f) = {} THEN 0 ELSE 1
           /\ SeenDisks(f, seen)
  BY DEF LiveTold
<1> HIDE DEF f, g, s, t, N, seen
<1>5. /\ EventsOf(s) \subseteq 1 .. N - 1
      /\ \A m \in EventsOf(s) : t[m] = s[m]
      /\ t[N] = l
      /\ EventsOf(t) = IF IsEvent(l) THEN EventsOf(s) \cup {N} ELSE EventsOf(s)
  BY <1>1, <1>2, <1>3, ScriptMore
<1>6. EventsOf(t) = EventsOf(s)  BY <1>2, <1>5
<1>7. j.keys = Settled({}, t, EventsOf(t), "key")
  <2> DEFINE P == EventsOf(s)
  <2>1. \A m \in P \cup P : t[m].kind = s[m].kind /\ t[m].name = s[m].name /\ t[m].down = s[m].down
    BY <1>5
  <2> HIDE DEF P
  <2>2. Settled({}, t, P, "key") = Settled({}, s, P, "key")  BY <2>1, SettledSame
  <2> QED BY <2>2, <1>4, <1>6 DEF P
<1>8. \A m \in EventsOf(t) : t[m].at <= i.cycles  BY <1>4, <1>5, <1>6
<1>9. SeenKeys(t, seen)  BY <1>1, <1>2, <1>4, <1>5, SeenMore
<1>10. /\ SwapsOf(g) = SwapsOf(f) \cup {N + 1} /\ g[N + 1] = l
       /\ \A m \in SwapsOf(f) : g[m] = f[m] /\ m # N + 1
  <2>1. /\ \A n \in 1 .. Len(f) : g[n] = f[n]
        /\ SwapsOf(f) \subseteq 1 .. Len(f) /\ g[Len(f) + 1] = l
        /\ SwapsOf(g) = IF l.kind = "comment" THEN SwapsOf(f) \cup {Len(f) + 1} ELSE SwapsOf(f)
    BY <1>1, <1>2, <1>3, SameSwaps
  <2>2. Len(f) \in Nat  BY <1>1, LenProperties
  <2> QED BY <2>1, <2>2, <1>2, <1>3
<1>11. \A m \in SwapsOf(g) : g[m].at <= i.frame  BY <1>1, <1>2, <1>4, <1>10
<1>12. ASSUME OneSwap(g)
       PROVE  j.disk = 1 /\ SwapsOf(g) # {} /\ SeenDisks(g, seen)
  <2>1. SwapsOf(f) = {}  BY <1>10, <1>12 DEF OneSwap
  <2>2. OneSwap(f)  BY <2>1 DEF OneSwap
  <2>3. i.disk = 0  BY <1>4, <2>1, <2>2
  <2>4. j.disk = 1  BY <2>3, SecondDisk
  <2>5. SeenDisks(g, seen)
    <3>1. SUFFICES ASSUME NEW n \in 1 .. Len(seen)
                   PROVE  seen[n].disk = IF \E m \in SwapsOf(g) : g[m].at <= seen[n].frame
                                         THEN 1 ELSE 0
      BY DEF SeenDisks
    <3>2. seen[n].disk = 0  BY <1>4, <2>1, <2>2 DEF SeenDisks
    <3>3. seen[n].frame < i.frame  BY <1>4
    <3>4. seen[n].frame \in Nat
      <4>1. seen[n] \in Sights  BY <1>1, ElementOfSeq
      <4> QED BY <4>1 DEF Sights
    <3>5. \A m \in SwapsOf(g) : g[m].at = i.frame  BY <1>2, <1>10, <2>1
    <3> QED BY <1>1, <3>2, <3>3, <3>4, <3>5
  <2> QED BY <2>4, <2>5, <1>10
<1>13. Clocked(j, seen, Len(seen))  BY <1>4 DEF Clocked
<1>14. j.seen = seen /\ j.file = g /\ Script(j.file) = t  BY DEF seen, g, t
<1> QED BY <1>4, <1>7, <1>8, <1>9, <1>11, <1>12, <1>13, <1>14 DEF LiveTold

\* One more step.
StepOf(r, i, start, length) ==
  /\ r \in Sights /\ r.length = length /\ r.keys = i.keys /\ r.disk = i.disk
  /\ r.cycles = i.cycles /\ r.start = start /\ r.frame = i.frame

Longer(z, seen, r, N) ==
  /\ N \in Nat /\ z \in Seq(Sights) /\ Len(z) = N + 1 /\ z[N + 1] = r
  /\ \A n \in 1 .. N : z[n] = seen[n] /\ seen[n] \in Sights
  /\ \A n : n \in 1 .. N + 1 <=> n \in 1 .. N \/ n = N + 1
  /\ \A n \in 1 .. N : n # N + 1

\* The steps so far, and one more.
LEMMA SeenGrown ==
  ASSUME NEW seen \in Seq(Sights), NEW r \in Sights, NEW z, Grown(z, seen, r)
  PROVE  Longer(z, seen, r, Len(seen))
<1> DEFINE N == Len(seen)
<1>1. N \in Nat  BY LenProperties
<1>2. z \in Seq(Sights) /\ Len(z) = N + 1 /\ z[N + 1] = r /\ \A n \in 1 .. N : z[n] = seen[n]
  BY AppendProperties DEF Grown
<1>3. \A n \in 1 .. N : seen[n] \in Sights  BY ElementOfSeq
<1> HIDE DEF N
<1>4. \A n : n \in 1 .. N + 1 <=> n \in 1 .. N \/ n = N + 1  BY <1>1
<1>5. \A n \in 1 .. N : n # N + 1  BY <1>1
<1>6. Longer(z, seen, r, N)  BY <1>1, <1>2, <1>3, <1>4, <1>5 DEF Longer
<1> QED BY <1>6 DEF N

\* One link of the chain.
LinkAt(seen, n) ==
  /\ seen[n].cycles = Reached(seen, n - 1) /\ seen[n].frame = FrameAfter(seen, n - 1)
  /\ seen[n].start = IF Inside(seen, n - 1) THEN seen[n - 1].start ELSE Reached(seen, n - 1)
  /\ seen[n].start <= seen[n].cycles

\* The chain is its links.
LEMMA Links ==
  ASSUME NEW seen
  PROVE  Chained(seen) <=> \A n \in 1 .. Len(seen) : LinkAt(seen, n)
  BY DEF Chained, LinkAt

\* It stays when the steps up to it do.
SameBefore(z, seen, p) ==
  /\ Reached(z, p) = Reached(seen, p) /\ FrameAfter(z, p) = FrameAfter(seen, p)
  /\ Inside(z, p) <=> Inside(seen, p)
  /\ Inside(seen, p) => z[p].start = seen[p].start

\* The old links stay.
LEMMA LinkSame ==
  ASSUME NEW seen, NEW z, NEW n, z[n] = seen[n], SameBefore(z, seen, n - 1), LinkAt(seen, n)
  PROVE  LinkAt(z, n)
  BY DEF LinkAt, SameBefore

\* The new one holds when the step began where the last one ended.
LEMMA LinkNew ==
  ASSUME NEW seen, NEW z, NEW N \in Nat, NEW r, z[N + 1] = r, SameBefore(z, seen, N),
         r.cycles = Reached(seen, N), r.frame = FrameAfter(seen, N), r.start <= r.cycles,
         r.start = IF Inside(seen, N) THEN seen[N].start ELSE Reached(seen, N)
  PROVE  LinkAt(z, N + 1)
<1>1. N + 1 - 1 = N  OBVIOUS
<1> QED BY <1>1 DEF LinkAt, SameBefore

\* So the chain grows by a step.
LEMMA ChainGrown ==
  ASSUME NEW seen, NEW r, NEW z, NEW N, Longer(z, seen, r, N), Chained(seen), N = Len(seen),
         r.cycles = Reached(seen, N), r.frame = FrameAfter(seen, N), r.start <= r.cycles,
         r.start = IF Inside(seen, N) THEN seen[N].start ELSE Reached(seen, N)
  PROVE  Chained(z)
<1>1. /\ N \in Nat /\ Len(z) = N + 1 /\ z[N + 1] = r
      /\ \A n \in 1 .. N : z[n] = seen[n]
      /\ \A n : n \in 1 .. N + 1 <=> n \in 1 .. N \/ n = N + 1
  BY DEF Longer
<1>2. ASSUME NEW p \in 0 .. N
      PROVE  SameBefore(z, seen, p)
  <2>1. p # 0 => p \in 1 .. N  BY <1>1
  <2>2. p # 0 => z[p] = seen[p]  BY <2>1, <1>1
  <2> QED BY <2>2 DEF SameBefore, Reached, FrameAfter, Inside
<1>3. \A n \in 1 .. N : LinkAt(seen, n)  BY Links
<1>4. ASSUME NEW n \in 1 .. N
      PROVE  LinkAt(z, n)
  <2>1. n - 1 \in 0 .. N  BY <1>1
  <2>2. SameBefore(z, seen, n - 1)  BY <2>1, <1>2
  <2>3. LinkAt(seen, n) /\ z[n] = seen[n]  BY <1>1, <1>3
  <2> QED BY <2>2, <2>3, LinkSame
<1>5. LinkAt(z, N + 1)
  <2>1. N \in 0 .. N  BY <1>1
  <2>2. SameBefore(z, seen, N)  BY <2>1, <1>2
  <2> QED BY <1>1, <2>1, <2>2, LinkNew
<1>6. \A n \in 1 .. Len(z) : LinkAt(z, n)  BY <1>1, <1>4, <1>5
<1> QED BY <1>6, Links

\* An instruction of the session: the file tells what it saw, since no edge is
\* recorded inside a frame.
LEMMA StepTold ==
  ASSUME NEW i \in Sessions, Recording(i.file), LiveTold(i), NEW length \in StepLengths,
         NEW start, start = IF i.in_frame THEN i.start ELSE i.cycles,
         NEW r, StepOf(r, i, start, length), NEW closes \in BOOLEAN,
         closes <=> r.cycles + r.length - r.start >= FrameTarget,
         NEW j, j.file = i.file, Grown(j.seen, i.seen, r), j.cycles = i.cycles + length,
         j.start = start, j.keys = i.keys, j.disk = i.disk, j.in_frame = ~closes,
         j.frame = IF closes THEN i.frame + 1 ELSE i.frame
  PROVE  LiveTold(j)
<1> DEFINE f == i.file
           s == Script(f)
           seen == i.seen
           z == j.seen
           N == Len(seen)
<1>1. /\ seen \in Seq(Sights) /\ i.cycles \in Nat /\ i.start \in Nat /\ i.frame \in Nat
      /\ length \in Nat /\ length > 0
  BY LiveTyped, InputAssumption
<1>2. Grown(z, seen, r) /\ r \in Sights /\ N = Len(seen)  BY DEF StepOf
<1>3. /\ Chained(seen) /\ Clocked(i, seen, N) /\ i.frame <= N
      /\ i.in_frame => i.start <= i.cycles
      /\ \A n \in 1 .. N :
           seen[n].cycles + seen[n].length <= i.cycles /\ seen[n].frame <= i.frame
      /\ i.keys = Settled({}, s, EventsOf(s), "key")
      /\ \A m \in EventsOf(s) : s[m].at <= start
      /\ SeenKeys(s, seen)
      /\ SwapsOf(f) # {} => Disks > 1
      /\ \A m \in SwapsOf(f) : f[m].at <= i.frame
      /\ OneSwap(f) =>
           /\ i.disk = IF SwapsOf(f) = {} THEN 0 ELSE 1
           /\ SeenDisks(f, seen)
  BY DEF LiveTold
<1>4. start \in Nat /\ start <= i.cycles  BY <1>1, <1>3
<1>5. /\ r.length = length /\ r.keys = i.keys /\ r.disk = i.disk
      /\ r.cycles = i.cycles /\ r.start = start /\ r.frame = i.frame
  BY DEF StepOf
<1>6. j.seen = z /\ j.file = f  OBVIOUS
<1> HIDE DEF f, s, seen, z, N
<1>70. Longer(z, seen, r, N) /\ N = Len(seen)  BY <1>1, <1>2, SeenGrown
<1>7. /\ N \in Nat /\ z \in Seq(Sights) /\ Len(z) = N + 1 /\ z[N + 1] = r
      /\ \A n \in 1 .. N : z[n] = seen[n] /\ seen[n] \in Sights
      /\ \A n : n \in 1 .. N + 1 <=> n \in 1 .. N \/ n = N + 1
      /\ \A n \in 1 .. N : n # N + 1
  BY <1>70 DEF Longer
<1>8. Chained(z)
  <2>1. i.in_frame = Inside(seen, N) /\ (i.in_frame => i.start = seen[N].start)
        /\ r.cycles = Reached(seen, N) /\ r.frame = FrameAfter(seen, N)
    BY <1>3, <1>5 DEF Clocked
  <2>2. r.start = IF Inside(seen, N) THEN seen[N].start ELSE Reached(seen, N)
    BY <2>1, <1>3, <1>5 DEF Clocked
  <2>3. r.start <= r.cycles  BY <1>4, <1>5
  <2> QED BY <1>3, <1>70, <2>1, <2>2, <2>3, ChainGrown
<1>9. Clocked(j, z, N + 1)
  <2>1. N + 1 # 0  BY <1>7
  <2>2. Closes(z[N + 1]) <=> closes  BY <1>7 DEF Closes
  <2> QED BY <2>1, <2>2, <1>5, <1>7 DEF Clocked, Reached, FrameAfter, Inside
<1>10. /\ j.frame <= N + 1 /\ j.frame \in Nat /\ i.frame <= j.frame
       /\ ~j.in_frame => i.frame < j.frame
       /\ j.cycles \in Nat /\ j.cycles = i.cycles + length /\ i.cycles <= j.cycles
  <2>1. j.frame = i.frame \/ j.frame = i.frame + 1  OBVIOUS
  <2>2. ~j.in_frame => j.frame = i.frame + 1  OBVIOUS
  <2>3. i.frame \in Nat /\ N \in Nat /\ i.frame <= N  BY <1>1, <1>3, <1>7
  <2>4. j.cycles = i.cycles + length /\ i.cycles \in Nat /\ length \in Nat  BY <1>1
  <2>5. j.frame <= N + 1 /\ j.frame \in Nat /\ i.frame <= j.frame  BY <2>1, <2>3
  <2>6. ~j.in_frame => i.frame < j.frame  BY <2>2, <2>3
  <2>7. j.cycles \in Nat /\ j.cycles = i.cycles + length /\ i.cycles <= j.cycles  BY <2>4
  <2> QED BY <2>5, <2>6, <2>7
<1>11. \A n \in 1 .. N + 1 :
         /\ z[n].cycles + z[n].length <= j.cycles
         /\ z[n].frame <= j.frame /\ (~j.in_frame => z[n].frame < j.frame)
  <2>1. TAKE n \in 1 .. N + 1
  <2>2. CASE n \in 1 .. N
    <3>1. seen[n].cycles \in Nat /\ seen[n].length \in Nat /\ seen[n].frame \in Nat
      <4>1. seen[n] \in Sights  BY <1>7, <2>2
      <4> QED BY <4>1, InputAssumption DEF Sights
    <3>2. seen[n].cycles + seen[n].length <= i.cycles /\ seen[n].frame <= i.frame
      BY <1>3, <2>2
    <3>3. /\ seen[n].cycles + seen[n].length <= j.cycles
          /\ seen[n].frame <= j.frame /\ (~j.in_frame => seen[n].frame < j.frame)
      BY <1>1, <1>10, <3>1, <3>2
    <3>4. z[n] = seen[n]  BY <1>7, <2>2
    <3> QED BY <3>3, <3>4
  <2>3. CASE n = N + 1
    <3>1. z[n] = r  BY <1>7, <2>3
    <3>2. /\ r.cycles + r.length <= j.cycles
          /\ r.frame <= j.frame /\ (~j.in_frame => r.frame < j.frame)
      BY <1>1, <1>5, <1>10
    <3> QED BY <3>1, <3>2
  <2> QED BY <2>2, <2>3, <1>7
<1>12. f \in Seq(ScriptLines) /\ (\A m \in EventsOf(s) : s[m].at \in Nat)
       /\ (\A m \in SwapsOf(f) : f[m].at \in Nat)
  <2>1. f \in Seq(ScriptLines) /\ f # << >>  BY LiveTyped DEF f, Recording
  <2>2. s \in Seq(ScriptLines)  BY <2>1, TagLine, ScriptGrows DEF s
  <2>3. \A m \in 1 .. Len(f) : f[m] \in ScriptLines  BY <2>1, ElementOfSeq
  <2>4. \A m \in 1 .. Len(s) : s[m] \in ScriptLines  BY <2>2, ElementOfSeq
  <2>5. SwapsOf(f) \subseteq 1 .. Len(f)  BY <2>1, LenProperties DEF SwapsOf
  <2>6. EventsOf(s) \subseteq 1 .. Len(s)  BY <2>2, LenProperties DEF EventsOf
  <2> QED BY <2>1, <2>3, <2>4, <2>5, <2>6 DEF ScriptLines
<1>13. \A m \in EventsOf(s) : s[m].at <= IF j.in_frame THEN j.start ELSE j.cycles
  <2> SUFFICES ASSUME NEW m \in EventsOf(s)
               PROVE  s[m].at <= IF j.in_frame THEN j.start ELSE j.cycles
    OBVIOUS
  <2>1. s[m].at <= start /\ s[m].at \in Nat  BY <1>3, <1>12
  <2>2. s[m].at <= j.cycles  BY <1>1, <1>4, <1>10, <2>1
  <2> QED BY <2>1, <2>2
<1>14. \A m \in SwapsOf(f) : f[m].at <= j.frame  BY <1>1, <1>3, <1>10, <1>12
<1>15. SeenKeys(s, z)
  <2>1. SUFFICES ASSUME NEW n \in 1 .. N + 1,
                        NEW now \in z[n].start .. (z[n].cycles + z[n].length - 1)
                 PROVE  z[n].keys = Settled({}, s, UpTo(s, now), "key")
    BY <1>7 DEF SeenKeys
  <2>2. CASE n \in 1 .. N
    <3>1. z[n] = seen[n]  BY <1>7, <2>2
    <3>2. now \in seen[n].start .. (seen[n].cycles + seen[n].length - 1)  BY <3>1
    <3>3. seen[n].keys = Settled({}, s, UpTo(s, now), "key")
      BY <1>3, <1>70, <2>2, <3>2 DEF SeenKeys
    <3> QED BY <3>1, <3>3
  <2>3. CASE n = N + 1
    <3>1. z[n] = r  BY <1>7, <2>3
    <3>2. now \in start .. (r.cycles + r.length - 1)  BY <3>1, <1>5
    <3>3. now \in Int /\ start <= now  BY <3>2, <1>1, <1>4, <1>5
    <3>4. \A m \in EventsOf(s) : s[m].at <= now  BY <3>3, <1>3, <1>4, <1>12
    <3>5. UpTo(s, now) = EventsOf(s)  BY <3>4 DEF UpTo
    <3> QED BY <3>1, <3>5, <1>3, <1>5
  <2> QED BY <2>2, <2>3, <1>7
<1>16. ASSUME OneSwap(f)
       PROVE  j.disk = (IF SwapsOf(f) = {} THEN 0 ELSE 1) /\ SeenDisks(f, z)
  <2>1. i.disk = (IF SwapsOf(f) = {} THEN 0 ELSE 1) /\ SeenDisks(f, seen)  BY <1>3, <1>16
  <2>2. SUFFICES ASSUME NEW n \in 1 .. N + 1
                 PROVE  z[n].disk = IF \E m \in SwapsOf(f) : f[m].at <= z[n].frame THEN 1 ELSE 0
    BY <1>7, <2>1 DEF SeenDisks
  <2>3. CASE n \in 1 .. N
    <3>1. z[n] = seen[n]  BY <1>7, <2>3
    <3>2. seen[n].disk = IF \E m \in SwapsOf(f) : f[m].at <= seen[n].frame THEN 1 ELSE 0
      BY <2>1, <2>3, <1>70 DEF SeenDisks
    <3> QED BY <3>1, <3>2
  <2>4. CASE n = N + 1
    <3>1. z[n] = r  BY <1>7, <2>4
    <3>2. r.disk = IF \E m \in SwapsOf(f) : f[m].at <= r.frame THEN 1 ELSE 0
      BY <1>3, <1>5, <2>1
    <3> QED BY <3>1, <3>2
  <2> QED BY <2>3, <2>4, <1>7
<1>17. j.in_frame => j.start <= j.cycles  BY <1>1, <1>4, <1>10
<1>18. j.keys = Settled({}, s, EventsOf(s), "key")  BY <1>3
<1>19. s = Script(f)  BY DEF s
<1>20. Clocked(j, z, Len(z)) /\ j.frame <= Len(z)  BY <1>7, <1>9, <1>10
<1>21. \A n \in 1 .. Len(z) :
         /\ z[n].cycles + z[n].length <= j.cycles
         /\ z[n].frame <= j.frame /\ (~j.in_frame => z[n].frame < j.frame)
  BY <1>7, <1>11
<1> QED BY <1>3, <1>6, <1>8, <1>13, <1>14, <1>15, <1>16, <1>17, <1>18, <1>19, <1>20, <1>21
        DEF LiveTold

\* What a live state that is typed and recorded needs.
LEMMA LiveInv ==
  ASSUME NEW j \in Sessions, j.phase = "live", Len(j.seen) <= MaxSteps, Recording(j.file),
         j.told => LiveTold(j)
  PROVE  SessionInv(j)
  BY DEF SessionInv

\* What the invariant says of it.
LEMMA LiveIs ==
  ASSUME NEW i, SessionInv(i), i.phase = "live"
  PROVE  /\ i \in Sessions /\ Len(i.seen) <= MaxSteps /\ Recording(i.file)
         /\ i.told => LiveTold(i)
  BY DEF SessionInv

\* The keys the host holds, and the menu.
LEMMA HeldKept ==
  ASSUME NEW i, SessionInv(i), i.phase = "live", NEW h, h \subseteq KeyNames
  PROVE  SessionInv([i EXCEPT !.held = h])
<1> DEFINE j == [i EXCEPT !.held = h]
<1>1. /\ i \in Sessions /\ Len(i.seen) <= MaxSteps /\ Recording(i.file)
      /\ i.told => LiveTold(i)
  BY LiveIs
<1>2. j \in Sessions  BY <1>1 DEF Sessions
<1>3. /\ j.phase = "live" /\ j.file = i.file /\ j.seen = i.seen /\ j.cycles = i.cycles
      /\ j.frame = i.frame /\ j.in_frame = i.in_frame /\ j.start = i.start /\ j.keys = i.keys
      /\ j.disk = i.disk /\ j.told = i.told
  BY <1>1 DEF Sessions
<1> HIDE DEF j
<1>4. j.told => LiveTold(j)  BY <1>1, <1>3, SameLive
<1>5. SessionInv(j)  BY <1>1, <1>2, <1>3, <1>4, LiveInv
<1> QED BY <1>5 DEF j

\* The menu comes and goes.
LEMMA MenuKept ==
  ASSUME NEW i, SessionInv(i), i.phase = "live", NEW m \in BOOLEAN
  PROVE  SessionInv([i EXCEPT !.menu = m])
<1> DEFINE j == [i EXCEPT !.menu = m]
<1>1. /\ i \in Sessions /\ Len(i.seen) <= MaxSteps /\ Recording(i.file)
      /\ i.told => LiveTold(i)
  BY LiveIs
<1>2. j \in Sessions  BY <1>1 DEF Sessions
<1>3. /\ j.phase = "live" /\ j.file = i.file /\ j.seen = i.seen /\ j.cycles = i.cycles
      /\ j.frame = i.frame /\ j.in_frame = i.in_frame /\ j.start = i.start /\ j.keys = i.keys
      /\ j.disk = i.disk /\ j.told = i.told
  BY <1>1 DEF Sessions
<1> HIDE DEF j
<1>4. j.told => LiveTold(j)  BY <1>1, <1>3, SameLive
<1>5. SessionInv(j)  BY <1>1, <1>2, <1>3, <1>4, LiveInv
<1> QED BY <1>5 DEF j

\* What a key event makes of the file, the matrix and what the recorder was
\* told.
Taken(i, file, told, keys) == [i EXCEPT !.file = file, !.told = told, !.keys = keys]

\* It changes nothing else.
LEMMA TakenIs ==
  ASSUME NEW i \in Sessions, NEW file \in Seq(ScriptLines), NEW told \in BOOLEAN,
         NEW keys, keys \subseteq Names, NEW j, j = Taken(i, file, told, keys)
  PROVE  /\ j \in Sessions
         /\ j.phase = i.phase /\ j.file = file /\ j.seen = i.seen /\ j.cycles = i.cycles
         /\ j.frame = i.frame /\ j.in_frame = i.in_frame /\ j.start = i.start
         /\ j.keys = keys /\ j.disk = i.disk /\ j.told = told
<1>1. Taken(i, file, told, keys) \in Sessions  BY DEF Taken, Sessions
<1>2. /\ Taken(i, file, told, keys).phase = i.phase /\ Taken(i, file, told, keys).file = file
      /\ Taken(i, file, told, keys).seen = i.seen /\ Taken(i, file, told, keys).cycles = i.cycles
      /\ Taken(i, file, told, keys).frame = i.frame
      /\ Taken(i, file, told, keys).in_frame = i.in_frame
      /\ Taken(i, file, told, keys).start = i.start /\ Taken(i, file, told, keys).keys = keys
      /\ Taken(i, file, told, keys).disk = i.disk /\ Taken(i, file, told, keys).told = told
  BY DEF Taken, Sessions
<1> QED BY <1>1, <1>2

\* An event, recorded or not, keeps the file in step with the matrix.
LEMMA DispatchedKeeps ==
  ASSUME NEW i, SessionInv(i), i.phase = "live", ~i.in_frame, NEW key \in KeyNames,
         NEW down \in BOOLEAN, NEW repeat \in BOOLEAN, repeat => down
  PROVE  SessionInv(Dispatched(i, key, down, repeat))
<1> DEFINE l == KeyLine(i.cycles, key, down)
           told == i.told /\ (repeat => key \in i.keys)
           keys == IF down THEN i.keys \cup {key} ELSE i.keys \ {key}
           file == IF repeat THEN i.file ELSE RecordKey(i, key, down)
           j == Taken(i, file, told, keys)
<1>1. /\ i \in Sessions /\ Len(i.seen) <= MaxSteps /\ Recording(i.file)
      /\ i.told => LiveTold(i)
  BY LiveIs
<1>2. /\ i.file \in Seq(ScriptLines) /\ i.cycles \in Nat /\ i.keys \subseteq Names
      /\ i.told \in BOOLEAN
  BY <1>1, LiveTyped
<1>3. CASE i.menu
  <2>1. Dispatched(i, key, down, repeat) = i  BY <1>3 DEF Dispatched
  <2> QED BY <2>1
<1>4. CASE ~i.menu
  <2>1. Dispatched(i, key, down, repeat) = j
    <3>1. (down /\ repeat) = repeat  OBVIOUS
    <3>2. (IF down /\ repeat THEN i.file ELSE RecordKey(i, key, down)) = file  BY <3>1
    <3> QED BY <1>4, <3>2 DEF Dispatched, Taken
  <2>2. keys \subseteq Names  BY <1>2 DEF Names
  <2>3. told \in BOOLEAN /\ (told => i.told)  BY <1>2
  <2>4. l \in ScriptLines /\ l.kind # "end"  BY <1>2 DEF KeyLine, Line, ScriptLines, Names
  <2>5. RecordKey(i, key, down) = Append(i.file, l)  BY DEF RecordKey
  <2>6. ~repeat => Grown(file, i.file, l)  BY <2>5 DEF Grown
  <2>7. repeat => file = i.file /\ (told => keys = i.keys)  OBVIOUS
  <2>8. l = KeyLine(i.cycles, key, down) /\ keys = IF down THEN i.keys \cup {key} ELSE i.keys \ {key}
    OBVIOUS
  <2> HIDE DEF l, told, keys, file
  <2>9. file \in Seq(ScriptLines) /\ Recording(file)
    <3>1. CASE repeat  BY <3>1, <1>1, <1>2, <2>7
    <3>2. CASE ~repeat  BY <3>2, <1>1, <1>2, <2>4, <2>6, RecordingGrows
    <3> QED BY <3>1, <3>2
  <2>10. /\ j \in Sessions
         /\ j.phase = i.phase /\ j.file = file /\ j.seen = i.seen /\ j.cycles = i.cycles
         /\ j.frame = i.frame /\ j.in_frame = i.in_frame /\ j.start = i.start
         /\ j.keys = keys /\ j.disk = i.disk /\ j.told = told
    BY <1>1, <2>2, <2>3, <2>9, TakenIs
  <2> HIDE DEF j
  <2>11. ASSUME told PROVE LiveTold(j)
    <3>1. CASE repeat  BY <3>1, <1>1, <2>3, <2>7, <2>10, <2>11, SameLive
    <3>2. CASE ~repeat
      <4>1. Grown(j.file, i.file, l)  BY <3>2, <2>6, <2>10
      <4>2. j.keys = IF down THEN i.keys \cup {key} ELSE i.keys \ {key}  BY <2>8, <2>10
      <4> QED BY <4>1, <4>2, <1>1, <2>3, <2>8, <2>10, <2>11, KeyTold
    <3> QED BY <3>1, <3>2
  <2>12. SessionInv(j)  BY <1>1, <2>9, <2>10, <2>11, LiveInv
  <2> QED BY <2>1, <2>12
<1> QED BY <1>3, <1>4

\* The keys of the host.
LEMMA KeyKeeps ==
  ASSUME InputInv, NEW k \in KeyNames, HostKeyDown(k) \/ HostKeyRepeats(k) \/ HostKeyUp(k)
  PROVE  InputInv'
<1> DEFINE pressed == [inp EXCEPT !.held = @ \cup {k}]
           released == [inp EXCEPT !.held = @ \ {k}]
<1>1. SessionInv(inp) /\ inp.phase = "live" /\ ~inp.in_frame
  BY DEF InputInv, HostKeyDown, HostKeyRepeats, HostKeyUp, Polling
<1>2. inp \in Sessions /\ inp.held \subseteq KeyNames
  <2>1. inp \in Sessions  BY <1>1, LiveIs
  <2> QED BY <2>1 DEF Sessions
<1>3. SessionInv(pressed) /\ pressed.phase = "live" /\ ~pressed.in_frame
  <2> DEFINE h == inp.held \cup {k}
  <2>1. h \subseteq KeyNames  BY <1>2
  <2>2. pressed = [inp EXCEPT !.held = h]  OBVIOUS
  <2>3. [inp EXCEPT !.held = h].phase = inp.phase /\ [inp EXCEPT !.held = h].in_frame = inp.in_frame
    BY <1>2 DEF Sessions
  <2> HIDE DEF h
  <2>4. SessionInv([inp EXCEPT !.held = h])  BY <1>1, <2>1, HeldKept
  <2> QED BY <1>1, <2>2, <2>3, <2>4
<1>4. SessionInv(released) /\ released.phase = "live" /\ ~released.in_frame
  <2> DEFINE h == inp.held \ {k}
  <2>1. h \subseteq KeyNames  BY <1>2
  <2>2. released = [inp EXCEPT !.held = h]  OBVIOUS
  <2>3. [inp EXCEPT !.held = h].phase = inp.phase /\ [inp EXCEPT !.held = h].in_frame = inp.in_frame
    BY <1>2 DEF Sessions
  <2> HIDE DEF h
  <2>4. SessionInv([inp EXCEPT !.held = h])  BY <1>1, <2>1, HeldKept
  <2> QED BY <1>1, <2>2, <2>3, <2>4
<1>5. CASE HostKeyDown(k)
  <2>1. inp' = Dispatched(pressed, k, TRUE, FALSE)  BY <1>5 DEF HostKeyDown
  <2> HIDE DEF pressed
  <2>2. SessionInv(Dispatched(pressed, k, TRUE, FALSE))  BY <1>3, DispatchedKeeps
  <2> QED BY <2>1, <2>2 DEF InputInv
<1>6. CASE HostKeyRepeats(k)
  <2>1. inp' = Dispatched(inp, k, TRUE, TRUE)  BY <1>6 DEF HostKeyRepeats
  <2>2. SessionInv(Dispatched(inp, k, TRUE, TRUE))  BY <1>1, DispatchedKeeps
  <2> QED BY <2>1, <2>2 DEF InputInv
<1>7. CASE HostKeyUp(k)
  <2>1. inp' = Dispatched(released, k, FALSE, FALSE)  BY <1>7 DEF HostKeyUp
  <2> HIDE DEF released
  <2>2. SessionInv(Dispatched(released, k, FALSE, FALSE))  BY <1>4, DispatchedKeeps
  <2> QED BY <2>1, <2>2 DEF InputInv
<1> QED BY <1>5, <1>6, <1>7

\* The menu.
LEMMA MenuKeeps ==
  ASSUME InputInv, MenuKey
  PROVE  InputInv'
<1> DEFINE m == ~inp.menu
<1>1. SessionInv(inp) /\ inp.phase = "live"  BY DEF InputInv, MenuKey, Polling
<1>2. inp' = [inp EXCEPT !.menu = m] /\ m \in BOOLEAN  BY DEF MenuKey
<1> HIDE DEF m
<1>3. SessionInv([inp EXCEPT !.menu = m])  BY <1>1, <1>2, MenuKept
<1> QED BY <1>2, <1>3 DEF InputInv

\* F11 and its swap: the file and the disk.
LEMMA NextDisk ==
  ASSUME NEW d \in Nat, Disks > 1
  PROVE  (d + 1) % Disks \in Nat
<1>1. Disks \in Nat /\ Disks > 0  BY InputAssumption
<1> QED BY <1>1

SwappedIs(i, file, told, disk) == [i EXCEPT !.file = file, !.told = told, !.disk = disk]

\* It changes nothing else.
LEMMA SwappedTyped ==
  ASSUME NEW i \in Sessions, NEW file \in Seq(ScriptLines), NEW told \in BOOLEAN,
         NEW disk \in Nat, NEW j, j = SwappedIs(i, file, told, disk)
  PROVE  /\ j \in Sessions
         /\ j.phase = i.phase /\ j.file = file /\ j.seen = i.seen /\ j.cycles = i.cycles
         /\ j.frame = i.frame /\ j.in_frame = i.in_frame /\ j.start = i.start
         /\ j.keys = i.keys /\ j.disk = disk /\ j.told = told
<1> DEFINE k == SwappedIs(i, file, told, disk)
<1>1. k \in Sessions  BY DEF SwappedIs, Sessions
<1>2. /\ k.phase = i.phase /\ k.file = file /\ k.seen = i.seen /\ k.cycles = i.cycles
      /\ k.frame = i.frame /\ k.in_frame = i.in_frame /\ k.start = i.start
      /\ k.keys = i.keys /\ k.disk = disk /\ k.told = told
  BY DEF SwappedIs, Sessions
<1> QED BY <1>1, <1>2

\* F11.
LEMMA SwapKeeps ==
  ASSUME InputInv, RecordDiskSwap
  PROVE  InputInv'
<1> DEFINE i == inp
           l == SwapLine(inp.frame)
           file == Append(inp.file, l)
           told == inp.told
           disk == (inp.disk + 1) % Disks
           j == SwappedIs(i, file, told, disk)
<1>1. SessionInv(inp) /\ inp.phase = "live" /\ ~inp.in_frame /\ Disks > 1
  BY DEF InputInv, RecordDiskSwap, Polling
<1>2. /\ i \in Sessions /\ Len(i.seen) <= MaxSteps /\ Recording(i.file)
      /\ i.told => LiveTold(i)
  BY <1>1, LiveIs
<1>3. /\ i.file \in Seq(ScriptLines) /\ i.frame \in Nat /\ i.disk \in Nat
      /\ i.told \in BOOLEAN
  BY <1>2, LiveTyped
<1>4. inp' = j
  <2>1. inp' = [DiskSwapHotkey(inp) EXCEPT !.file = Append(@, SwapLine(inp.frame))]
    BY DEF RecordDiskSwap
  <2>2. DiskSwapHotkey(inp).file = inp.file  BY <1>2 DEF DiskSwapHotkey, Sessions
  <2> DEFINE a == [DiskSwapHotkey(inp) EXCEPT !.file = Append(@, SwapLine(inp.frame))]
  <2>3. a = [DiskSwapHotkey(inp) EXCEPT !.file = file]  BY <2>2
  <2> HIDE DEF file, l
  <2>4. [DiskSwapHotkey(inp) EXCEPT !.file = file] = j
    BY <1>2 DEF DiskSwapHotkey, SwappedIs, Sessions
  <2> QED BY <2>1, <2>3, <2>4
<1>5. l \in ScriptLines /\ l.kind # "end"  BY <1>3 DEF SwapLine, Line, ScriptLines, Names
<1>6. Grown(file, i.file, l) /\ l = SwapLine(i.frame) /\ disk = (i.disk + 1) % Disks /\ told = i.told
  BY DEF Grown
<1>7. disk \in Nat /\ told \in BOOLEAN  BY <1>1, <1>3, NextDisk
<1> HIDE DEF l, file, told, disk
<1>8. file \in Seq(ScriptLines) /\ Recording(file)  BY <1>2, <1>3, <1>5, <1>6, RecordingGrows
<1>9. /\ j \in Sessions
      /\ j.phase = i.phase /\ j.file = file /\ j.seen = i.seen /\ j.cycles = i.cycles
      /\ j.frame = i.frame /\ j.in_frame = i.in_frame /\ j.start = i.start
      /\ j.keys = i.keys /\ j.disk = disk /\ j.told = told
  BY <1>2, <1>7, <1>8, SwappedTyped
<1> HIDE DEF j
<1>10. ASSUME told PROVE LiveTold(j)
  <2>1. Grown(j.file, i.file, l) /\ j.disk = (i.disk + 1) % Disks  BY <1>6, <1>9
  <2> QED BY <2>1, <1>1, <1>2, <1>6, <1>9, <1>10, SwapTold
<1>11. SessionInv(j)  BY <1>1, <1>2, <1>8, <1>9, <1>10, LiveInv
<1> QED BY <1>4, <1>11 DEF InputInv

\* A swap from the menu: the recorder was passed by.
LEMMA MenuSwapKeeps ==
  ASSUME InputInv, MenuSwap
  PROVE  InputInv'
<1> DEFINE i == inp
           file == inp.file
           told == FALSE
           disk == (inp.disk + 1) % Disks
           j == SwappedIs(i, file, told, disk)
<1>1. SessionInv(inp) /\ inp.phase = "live" /\ Disks > 1
  BY DEF InputInv, MenuSwap, Polling
<1>2. i \in Sessions /\ Len(i.seen) <= MaxSteps /\ Recording(i.file)  BY <1>1, LiveIs
<1>3. file \in Seq(ScriptLines) /\ i.disk \in Nat  BY <1>2, LiveTyped
<1>4. inp' = j
  <2>1. inp' = [DiskSwapHotkey(inp) EXCEPT !.told = FALSE]  BY DEF MenuSwap
  <2>2. [DiskSwapHotkey(inp) EXCEPT !.told = FALSE] = j
    BY <1>2 DEF DiskSwapHotkey, SwappedIs, Sessions
  <2> QED BY <2>1, <2>2
<1>5. disk \in Nat  BY <1>1, <1>3, NextDisk
<1>6. Recording(file) /\ told \in BOOLEAN /\ ~told  BY <1>2
<1> HIDE DEF file, told, disk
<1>7. /\ j \in Sessions /\ j.phase = i.phase /\ j.file = file /\ j.seen = i.seen
      /\ j.told = told
  BY <1>2, <1>3, <1>5, <1>6, SwappedTyped
<1> HIDE DEF j
<1>8. SessionInv(j)  BY <1>1, <1>2, <1>6, <1>7, LiveInv
<1> QED BY <1>4, <1>8 DEF InputInv

\* A reset: it was passed by as well.
LEMMA ResetKeeps ==
  ASSUME InputInv, ResetSession
  PROVE  InputInv'
<1> DEFINE j == [inp EXCEPT !.cycles = 0, !.keys = {}, !.told = FALSE]
<1>1. SessionInv(inp) /\ inp.phase = "live" /\ inp' = j
  BY DEF InputInv, ResetSession, Polling
<1>2. inp \in Sessions /\ Len(inp.seen) <= MaxSteps /\ Recording(inp.file)  BY <1>1, LiveIs
<1>3. j \in Sessions  BY <1>2 DEF Sessions
<1>4. j.phase = inp.phase /\ j.file = inp.file /\ j.seen = inp.seen /\ j.told = FALSE
  BY <1>2 DEF Sessions
<1> HIDE DEF j
<1>5. SessionInv(j)  BY <1>1, <1>2, <1>3, <1>4, LiveInv
<1> QED BY <1>1, <1>5 DEF InputInv


\* An instruction: what it saw, the clock, and the frame that it may end.
SteppedIs(i, seen, start, cycles, frame, in_frame) ==
  [i EXCEPT !.seen = seen, !.start = start, !.cycles = cycles, !.frame = frame,
            !.in_frame = in_frame]

\* It changes nothing else.
LEMMA SteppedTyped ==
  ASSUME NEW i \in Sessions, NEW seen \in Seq(Sights), NEW start \in Nat, NEW cycles \in Nat,
         NEW frame \in Nat, NEW in_frame \in BOOLEAN,
         NEW j, j = SteppedIs(i, seen, start, cycles, frame, in_frame)
  PROVE  /\ j \in Sessions
         /\ j.phase = i.phase /\ j.file = i.file /\ j.seen = seen /\ j.cycles = cycles
         /\ j.frame = frame /\ j.in_frame = in_frame /\ j.start = start
         /\ j.keys = i.keys /\ j.disk = i.disk /\ j.told = i.told
<1> DEFINE k == SteppedIs(i, seen, start, cycles, frame, in_frame)
<1>1. k \in Sessions  BY DEF SteppedIs, Sessions
<1>2. /\ k.phase = i.phase /\ k.file = i.file /\ k.seen = seen /\ k.cycles = cycles
      /\ k.frame = frame /\ k.in_frame = in_frame /\ k.start = start
      /\ k.keys = i.keys /\ k.disk = i.disk /\ k.told = i.told
  BY DEF SteppedIs, Sessions
<1> QED BY <1>1, <1>2

\* The step as one record.
LiveStepped(begun, length) ==
  FrameClosed(InstructionRun([begun EXCEPT !.seen = Append(@, Sight(begun, length))], length))
StepParts(i, length, begun, r, seen, start, closes) ==
  /\ begun = IF i.in_frame THEN i ELSE FrameBegun(i)
  /\ r = Sight(begun, length) /\ seen = Append(i.seen, r)
  /\ start = IF i.in_frame THEN i.start ELSE i.cycles
  /\ closes <=> r.cycles + r.length - r.start >= FrameTarget

\* An instruction of the live session, as one change of the record.
LEMMA LiveStepIs ==
  ASSUME NEW i \in Sessions, NEW length \in StepLengths, NEW begun, NEW r, NEW seen, NEW start,
         NEW closes \in BOOLEAN, StepParts(i, length, begun, r, seen, start, closes)
  PROVE  /\ StepOf(r, i, start, length)
         /\ LiveStepped(begun, length)
            = SteppedIs(i, seen, start, i.cycles + length,
                        IF closes THEN i.frame + 1 ELSE i.frame, ~closes)
<1> DEFINE cycles == i.cycles + length
           a == [i EXCEPT !.seen = seen, !.start = start, !.cycles = cycles, !.in_frame = TRUE]
<1>1. /\ i.seen \in Seq(Sights) /\ i.cycles \in Nat /\ i.start \in Nat /\ i.frame \in Nat
      /\ i.keys \subseteq Names /\ i.disk \in Nat /\ i.in_frame \in BOOLEAN
      /\ length \in Nat
  BY LiveTyped, InputAssumption
<1>20. /\ begun = IF i.in_frame THEN i ELSE FrameBegun(i)
       /\ r = Sight(begun, length) /\ seen = Append(i.seen, r)
       /\ start = IF i.in_frame THEN i.start ELSE i.cycles
       /\ closes <=> r.cycles + r.length - r.start >= FrameTarget
  BY DEF StepParts
<1>2. begun = [i EXCEPT !.in_frame = TRUE, !.start = start]
  <2>1. CASE i.in_frame
    <3>1. begun = i /\ start = i.start /\ i.in_frame = TRUE  BY <1>1, <1>20, <2>1
    <3> QED BY <3>1 DEF Sessions
  <2>2. CASE ~i.in_frame  BY <1>20, <2>2 DEF FrameBegun
  <2> QED BY <2>1, <2>2
<1>3. /\ begun.seen = i.seen /\ begun.cycles = i.cycles /\ begun.start = start
      /\ begun.frame = i.frame /\ begun.keys = i.keys /\ begun.disk = i.disk
  BY <1>2 DEF Sessions
<1>4. start \in Nat  BY <1>1, <1>20
<1>5. StepOf(r, i, start, length)
  <2>1. r = [length |-> length, keys |-> i.keys, disk |-> i.disk, cycles |-> i.cycles,
             start |-> start, frame |-> i.frame]
    BY <1>3, <1>20 DEF Sight
  <2>2. r \in Sights  BY <1>1, <1>4, <2>1 DEF Sights
  <2> QED BY <2>1, <2>2 DEF StepOf
<1>6. InstructionRun([begun EXCEPT !.seen = Append(@, Sight(begun, length))], length) = a
  <2>1. Append(begun.seen, Sight(begun, length)) = seen  BY <1>3, <1>20
  <2>2. [begun EXCEPT !.seen = Append(@, Sight(begun, length))] = [begun EXCEPT !.seen = seen]
    BY <2>1
  <2> DEFINE b == [begun EXCEPT !.seen = seen]
  <2>3. b = [i EXCEPT !.in_frame = TRUE, !.start = start, !.seen = seen]
    BY <1>2 DEF Sessions
  <2>4. b.cycles = i.cycles  BY <2>3 DEF Sessions
  <2>5. InstructionRun(b, length) = [b EXCEPT !.cycles = cycles]  BY <2>4 DEF InstructionRun
  <2>6. [b EXCEPT !.cycles = cycles] = a  BY <2>3 DEF Sessions
  <2> QED BY <2>2, <2>5, <2>6
<1>7. a.cycles = cycles /\ a.start = start /\ a.frame = i.frame  BY DEF Sessions
<1>8. closes <=> cycles - start >= FrameTarget
  <2>1. r.cycles = i.cycles /\ r.length = length /\ r.start = start  BY <1>5 DEF StepOf
  <2>2. r.cycles + r.length - r.start = cycles - start  BY <1>1, <1>4, <2>1
  <2> QED BY <1>20, <2>2
<1>9. FrameClosed(a) = SteppedIs(i, seen, start, cycles, IF closes THEN i.frame + 1 ELSE i.frame,
                                 ~closes)
  <2>1. CASE closes
    <3>1. FrameClosed(a) = [a EXCEPT !.in_frame = FALSE, !.frame = a.frame + 1]
      BY <2>1, <1>7, <1>8 DEF FrameClosed, FrameEnded
    <3>2. [a EXCEPT !.in_frame = FALSE, !.frame = i.frame + 1]
          = SteppedIs(i, seen, start, cycles, i.frame + 1, FALSE)
      BY DEF SteppedIs, Sessions
    <3>3. (IF closes THEN i.frame + 1 ELSE i.frame) = i.frame + 1 /\ (~closes) = FALSE  BY <2>1
    <3> QED BY <1>7, <3>1, <3>2, <3>3
  <2>2. CASE ~closes
    <3>1. FrameClosed(a) = a  BY <2>2, <1>7, <1>8 DEF FrameClosed
    <3>2. a = SteppedIs(i, seen, start, cycles, i.frame, TRUE)  BY DEF SteppedIs, Sessions
    <3>3. (IF closes THEN i.frame + 1 ELSE i.frame) = i.frame /\ (~closes) = TRUE  BY <2>2
    <3> QED BY <3>1, <3>2, <3>3
  <2> QED BY <2>1, <2>2
<1> QED BY <1>5, <1>6, <1>9 DEF LiveStepped

\* It keeps the invariant.
LEMMA LiveStepKeeps ==
  ASSUME InputInv, LiveStep
  PROVE  InputInv'
<1>1. PICK length \in StepLengths :
        LET begun == IF inp.in_frame THEN inp ELSE FrameBegun(inp)
        IN  inp' = FrameClosed(InstructionRun(
                     [begun EXCEPT !.seen = Append(@, Sight(begun, length))], length))
  BY DEF LiveStep
<1> DEFINE i == inp
           begun == IF i.in_frame THEN i ELSE FrameBegun(i)
           r == Sight(begun, length)
           seen == Append(i.seen, r)
           start == IF i.in_frame THEN i.start ELSE i.cycles
           closes == r.cycles + r.length - r.start >= FrameTarget
           cycles == i.cycles + length
           frame == IF closes THEN i.frame + 1 ELSE i.frame
           open == ~closes
           j == SteppedIs(i, seen, start, cycles, frame, open)
<1>2. SessionInv(inp) /\ inp.phase = "live" /\ Len(inp.seen) < MaxSteps
  BY DEF InputInv, LiveStep
<1>3. /\ i \in Sessions /\ Len(i.seen) <= MaxSteps /\ Recording(i.file)
      /\ i.told => LiveTold(i)
  BY <1>2, LiveIs
<1>4. /\ i.seen \in Seq(Sights) /\ i.cycles \in Nat /\ i.start \in Nat /\ i.frame \in Nat
      /\ length \in Nat
  BY <1>3, LiveTyped, InputAssumption
<1>50. StepParts(i, length, begun, r, seen, start, closes) /\ closes \in BOOLEAN
  BY DEF StepParts
<1>6. /\ start \in Nat /\ cycles \in Nat /\ frame \in Nat /\ open \in BOOLEAN
      /\ closes \in BOOLEAN /\ open = ~closes /\ cycles = i.cycles + length
      /\ frame = IF closes THEN i.frame + 1 ELSE i.frame
      /\ start = IF i.in_frame THEN i.start ELSE i.cycles
      /\ closes <=> r.cycles + r.length - r.start >= FrameTarget
  BY <1>4
<1>7. Grown(seen, i.seen, r)  BY DEF Grown
<1>60. start \in Nat /\ cycles \in Nat /\ frame \in Nat /\ open \in BOOLEAN  BY <1>6
<1>61. inp' = LiveStepped(begun, length)  BY <1>1 DEF LiveStepped
<1> HIDE DEF begun, r, seen, start, closes
<1>5. StepOf(r, i, start, length) /\ inp' = j
  <2>1. length \in StepLengths  BY <1>1
  <2>2. i \in Sessions  BY <1>3
  <2> HIDE DEF i
  <2>3. /\ StepOf(r, i, start, length)
        /\ LiveStepped(begun, length)
           = SteppedIs(i, seen, start, i.cycles + length,
                       IF closes THEN i.frame + 1 ELSE i.frame, ~closes)
    BY <1>50, <2>1, <2>2, LiveStepIs
  <2> QED BY <1>61, <2>3
<1> HIDE DEF cycles, frame, open
<1>8. /\ seen \in Seq(Sights) /\ Len(seen) <= MaxSteps
  <2>1. r \in Sights  BY <1>5 DEF StepOf
  <2>2. Longer(seen, i.seen, r, Len(i.seen))  BY <1>4, <1>7, <2>1, SeenGrown
  <2>3. Len(i.seen) \in Nat  BY <1>4, LenProperties
  <2> QED BY <1>2, <2>2, <2>3, InputAssumption DEF Longer
<1>9. /\ j \in Sessions
      /\ j.phase = i.phase /\ j.file = i.file /\ j.seen = seen /\ j.cycles = cycles
      /\ j.frame = frame /\ j.in_frame = open /\ j.start = start
      /\ j.keys = i.keys /\ j.disk = i.disk /\ j.told = i.told
  BY <1>3, <1>60, <1>8, SteppedTyped
<1> HIDE DEF j
<1>10. ASSUME i.told PROVE LiveTold(j)
  <2>1. Grown(j.seen, i.seen, r)  BY <1>7, <1>9
  <2>2. /\ j.in_frame = ~closes /\ j.frame = IF closes THEN i.frame + 1 ELSE i.frame
        /\ j.cycles = i.cycles + length
    BY <1>6, <1>9
  <2> QED BY <2>1, <2>2, <1>3, <1>5, <1>6, <1>9, <1>10, StepTold
<1>11. SessionInv(j)  BY <1>2, <1>3, <1>8, <1>9, <1>10, LiveInv
<1> QED BY <1>5, <1>11 DEF InputInv

(***************************************************************************)
(* The session and its replay, for good.                                   *)
(***************************************************************************)
LEMMA InputInvKept ==
  InputInv /\ [InputNext]_input_vars => InputInv'
<1> SUFFICES ASSUME InputInv, [InputNext]_input_vars
             PROVE  InputInv'
  OBVIOUS
<1>1. ASSUME NEW k \in KeyNames, HostKeyDown(k) \/ HostKeyRepeats(k) \/ HostKeyUp(k)
      PROVE  InputInv'
  BY <1>1, KeyKeeps
<1>2. CASE MenuKey  BY <1>2, MenuKeeps
<1>3. CASE RecordDiskSwap  BY <1>3, SwapKeeps
<1>4. CASE MenuSwap  BY <1>4, MenuSwapKeeps
<1>5. CASE ResetSession  BY <1>5, ResetKeeps
<1>6. CASE LiveStep  BY <1>6, LiveStepKeeps
<1>7. CASE CloseRecording  BY <1>7, CloseRecordingKeeps
<1>8. CASE LoadScript  BY <1>8, LoadScriptKeeps
<1>9. CASE WindowReplayStep  BY <1>9, WindowStepKeeps
<1>10. CASE HeadlessFrameStep  BY <1>10, HeadlessStepKeeps
<1>11. CASE PlainReplayStep  BY <1>11, PlainStepKeeps
<1>12. CASE ProgramEnds  BY <1>12, EndsKeeps
<1>13. CASE UNCHANGED input_vars  BY <1>13 DEF InputInv, input_vars
<1> QED
  BY <1>1, <1>2, <1>3, <1>4, <1>5, <1>6, <1>7, <1>8, <1>9, <1>10, <1>11, <1>12, <1>13
  DEF InputNext

\* What the invariant says of the session that is replayed.
LEMMA InvShowsSession ==
  InputInv => ReplayShowsSession
<1> SUFFICES ASSUME InputInv, inp.phase = "replay", inp.recorded, inp.told, inp.done > 0
             PROVE  LET live == inp.seen[inp.done]
                        swapped == /\ \A m, n \in SwapsOf(inp.file) : m = n
                                   /\ inp.options.program # "steps"
                    IN  /\ inp.done > 1 \/ inp.options.frame_start => inp.shown = live.keys
                        /\ swapped => inp.shown_disk = live.disk
  BY DEF ReplayShowsSession
<1>1. Following(inp)  BY DEF InputInv, SessionInv
<1> QED BY <1>1 DEF Following, OneSwap

\* And of the script so far.
LEMMA InvUpToNow ==
  InputInv => ScriptUpToNow
<1> DEFINE script == Body(inp.file)
           shift == inp.options.shift
           ev == inp.events
           now == inp.applied
           due == {n \in EventsOf(script) : script[n].at + shift <= now}
<1> SUFFICES ASSUME InputInv, inp.phase = "replay", inp.done > 0
             PROVE  /\ inp.keys = Settled({}, script, due, "key")
                    /\ inp.joys = IF JoystickAttached(inp) THEN Settled({}, script, due, "joy")
                                  ELSE {}
  BY DEF ScriptUpToNow
<1>1. inp \in Sessions /\ Player(inp)  BY DEF InputInv, SessionInv, Replaying
<1>2. now \in Nat /\ inp.options \in Options  BY <1>1 DEF Sessions
<1>3. shift \in Nat
  <2>1. CASE inp.options = InTheWindow  BY <2>1 DEF InTheWindow
  <2>2. CASE inp.options # InTheWindow
    <3>1. inp.options.shift \in Shifts  BY <1>2, <2>2 DEF Options
    <3> QED BY <3>1, InputAssumption
  <2> QED BY <2>1, <2>2
<1>4. /\ EventsAre(ev, script, shift)
      /\ PlayerIs(ev, inp.cursor, inp.keys, inp.joys, JoystickAttached(inp))
      /\ Passed(ev, inp.cursor) = UpTo(ev, now)
  BY <1>1 DEF Player, Begun
<1>5. due = {n \in EventsOf(script) : script[n].at + shift <= now}  OBVIOUS
<1> HIDE DEF script, shift, ev, now, due
<1>6. /\ inp.keys = Settled({}, ev, UpTo(ev, now), "key")
      /\ inp.joys = IF JoystickAttached(inp) THEN Settled({}, ev, UpTo(ev, now), "joy") ELSE {}
  BY <1>4 DEF PlayerIs
<1>7. Settled({}, ev, UpTo(ev, now), "key") = Settled({}, script, due, "key")
  BY <1>2, <1>3, <1>4, SettledDelayed DEF due
<1>8. Settled({}, ev, UpTo(ev, now), "joy") = Settled({}, script, due, "joy")
  BY <1>2, <1>3, <1>4, SettledDelayed DEF due
<1> QED BY <1>6, <1>7, <1>8

\* Whatever the keys, the frames, the instructions and the scripts are, and
\* however many disks, a replay is exact: its instructions see the keys and
\* the disk those of the recorded session saw, and the keys are at any moment
\* what all the events of the script up to then make them.
THEOREM ReplaysAreExact == InputSpec => []ReplayExact
<1>1. InputInit => InputInv  BY NewSessionInv DEF InputInit, InputInv
<1>2. InputInv /\ [InputNext]_input_vars => InputInv'  BY InputInvKept
<1>3. InputInv => ReplayExact  BY InvShowsSession, InvUpToNow DEF ReplayExact
<1> QED BY <1>1, <1>2, <1>3, PTL DEF InputSpec

=============================================================================
