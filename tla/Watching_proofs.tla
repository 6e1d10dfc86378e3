--------------------------- MODULE Watching_proofs ---------------------------
EXTENDS Watching, WatchRequests, FiniteSetTheorems, SequenceTheorems, TLAPS
-----------------------------------------------------------------------------
(* Watching: the counts of the WatchSet, and the numbers of the adapter.   *)

Dirs == {Root, Sub}
IsFun(f) == f = [x \in DOMAIN f |-> f[x]]

\* The registrations of a thread: what its set has, and its adapter.
Has(r, d) == d \in DOMAIN r.set
Reasons(r, d) == IF Has(r, d) THEN r.set[d].reasons ELSE 0
IsRegs(r) ==
  /\ r = [set |-> r.set, setNext |-> r.setNext, directories |-> r.directories, ids |-> r.ids, next |-> r.next]
  /\ IsFun(r.set) /\ DOMAIN r.set \subseteq Dirs /\ r.setNext \in Nat
  /\ \A d \in DOMAIN r.set : r.set[d] \in [id : Nat, reasons : Nat \ {0}]
  /\ IsFun(r.ids) /\ DOMAIN r.ids \subseteq 1..r.next /\ r.next \in Nat
  /\ IsFun(r.directories)
\* The set and the adapter have the same watches under the same numbers.
Matched(r) ==
  /\ \A d \in DOMAIN r.set : r.set[d].id \in DOMAIN r.ids /\ r.ids[r.set[d].id][1] = d
  /\ \A i \in DOMAIN r.ids : \E d \in DOMAIN r.set : i = r.set[d].id
  /\ \A w : w \in DOMAIN r.directories <=> \E i \in DOMAIN r.ids : w = r.ids[i]
Agrees(r) == r.next <= r.setNext /\ (r.setNext = r.next => Matched(r))

\* A directory is watched under the next number; the descriptor is its own.
LEMMA AdapterWatchIs ==
  ASSUME NEW r, IsRegs(r), NEW d \in Dirs
  PROVE  LET a == AdapterWatch(r, d) IN
         \E wd : /\ a = [set |-> r.set, setNext |-> r.setNext, directories |-> a.directories, ids |-> a.ids,
                         next |-> r.next + 1]
                 /\ a.ids = Put(r.ids, r.next + 1, wd) /\ a.directories = Put(r.directories, wd, d) /\ wd[1] = d
<1> DEFINE there == Descriptors(r.directories, d)
           wd == IF there # {} THEN CHOOSE w \in there : TRUE ELSE Append(Inode(d), r.next + 1)
<1>1. AdapterWatch(r, d) = [r EXCEPT !.next = @ + 1, !.directories = Put(@, wd, d), !.ids = Put(@, r.next + 1, wd)]
  BY DEF AdapterWatch
<1>2. wd[1] = d
  <2>1. CASE there # {}
    <3>1. wd \in there
      BY <2>1
    <3> HIDE DEF wd
    <3> QED
      BY <3>1 DEF Descriptors, Inode
  <2>2. CASE there = {}
    <3> DEFINE l == IF d = Sub THEN life ELSE 0
    <3>1. wd = Append(<<d, l>>, r.next + 1)
      BY <2>2 DEF Inode
    <3> HIDE DEF l, wd
    <3>2. <<d, l>> \in Seq({d, l}) /\ Len(<<d, l>>) = 2
      OBVIOUS
    <3> QED
      BY <3>1, <3>2
  <2> QED
    BY <2>1, <2>2
<1> HIDE DEF wd
<1> QED
  BY <1>1, <1>2 DEF IsRegs

LEMMA HasIs ==
  ASSUME NEW r, IsRegs(r), NEW d \in Dirs
  PROVE  Reasons(r, d) \in Nat /\ (Has(r, d) <=> Reasons(r, d) > 0)
BY DEF IsRegs, Has, Reasons

\* An acquisition is one reason more, or is refused; nothing else changes.
LEMMA AcquireIs ==
  ASSUME NEW r, IsRegs(r), Agrees(r), NEW d \in Dirs, NEW full
  PROVE  LET a == Acquire(r, d, full) IN
         /\ IsRegs(a) /\ Agrees(a)
         /\ \A e \in Dirs \ {d} : Reasons(a, e) = Reasons(r, e)
         /\ Reasons(a, d) = Reasons(r, d) + 1 \/ (d \in full /\ Reasons(a, d) = Reasons(r, d) /\ Reasons(a, d) = 0)
<1> DEFINE a == Acquire(r, d, full)
<1>1. CASE d \in DOMAIN r.set
  <2> DEFINE n == r.set[d].reasons + 1
             s == [r.set EXCEPT ![d].reasons = n]
  <2>1. a = [r EXCEPT !.set = s]
    BY <1>1 DEF Acquire, IsRegs
  <2>2. /\ IsFun(s) /\ DOMAIN s = DOMAIN r.set /\ s[d] = [id |-> r.set[d].id, reasons |-> r.set[d].reasons + 1]
        /\ \A e \in DOMAIN r.set \ {d} : s[e] = r.set[e]
    BY <1>1 DEF IsRegs, IsFun
  <2> HIDE DEF s, a
  <2>3. a = [set |-> s, setNext |-> r.setNext, directories |-> r.directories, ids |-> r.ids, next |-> r.next]
    BY <2>1 DEF IsRegs
  <2>4. IsRegs(a)
    BY <1>1, <2>2, <2>3 DEF IsRegs
  <2>5. Agrees(a)
    BY <1>1, <2>2, <2>3 DEF Agrees, Matched, IsRegs
  <2> QED
    BY <1>1, <2>2, <2>3, <2>4, <2>5 DEF Reasons, Has, IsRegs, a
<1>2. CASE d \notin DOMAIN r.set /\ d \in full
  <2>1. a = [r EXCEPT !.setNext = r.setNext + 1]
    BY <1>2 DEF Acquire
  <2> HIDE DEF a
  <2>2. a = [set |-> r.set, setNext |-> r.setNext + 1, directories |-> r.directories, ids |-> r.ids, next |-> r.next]
    BY <2>1 DEF IsRegs
  <2> QED
    BY <1>2, <2>2 DEF Reasons, Has, IsRegs, Agrees, a
<1>3. CASE d \notin DOMAIN r.set /\ d \notin full
  <2> DEFINE w == [id |-> r.setNext + 1, reasons |-> 1]
             s == Put(r.set, d, w)
             b == [r EXCEPT !.setNext = r.setNext + 1, !.set = s]
  <2>1. a = AdapterWatch(b, d)
    BY <1>3 DEF Acquire
  <2> HIDE DEF s, w
  <2>2. b = [r EXCEPT !.setNext = r.setNext + 1, !.set = s]
    BY DEF b
  <2> HIDE DEF a, b
  <2>3. b = [set |-> s, setNext |-> r.setNext + 1, directories |-> r.directories, ids |-> r.ids, next |-> r.next]
    BY <2>2 DEF IsRegs
  <2>4. /\ IsFun(s) /\ DOMAIN s = DOMAIN r.set \cup {d} /\ s[d] = w
        /\ \A e \in DOMAIN r.set \ {d} : s[e] = r.set[e]
    BY DEF s, Put, IsFun
  <2> USE DEF w
  <2>5. IsRegs(b)
    BY <2>3, <2>4 DEF IsRegs
  <2>6. PICK wd : /\ a = [set |-> b.set, setNext |-> b.setNext, directories |-> a.directories, ids |-> a.ids, next |-> b.next + 1]
                  /\ a.ids = Put(b.ids, b.next + 1, wd) /\ a.directories = Put(b.directories, wd, d) /\ wd[1] = d
    BY <2>1, <2>5, AdapterWatchIs
  <2>7. a = [set |-> s, setNext |-> r.setNext + 1, directories |-> a.directories, ids |-> a.ids, next |-> r.next + 1]
    BY <2>3, <2>6
  <2>8. /\ IsFun(a.ids) /\ DOMAIN a.ids = DOMAIN r.ids \cup {r.next + 1} /\ a.ids[r.next + 1] = wd
        /\ \A i \in DOMAIN r.ids \ {r.next + 1} : a.ids[i] = r.ids[i]
    BY <2>3, <2>6 DEF Put, IsFun
  <2>9. IsFun(a.directories) /\ DOMAIN a.directories = DOMAIN r.directories \cup {wd}
    BY <2>3, <2>6 DEF Put, IsFun
  <2>10. IsRegs(a)
    BY <1>3, <2>4, <2>7, <2>8, <2>9 DEF IsRegs
  <2>11. r.next + 1 \notin DOMAIN r.ids
    BY DEF IsRegs
  <2>12. ASSUME r.setNext = r.next, Matched(r)
         PROVE  Matched(a)
    <3>1. a.set = s /\ s[d].id = r.next + 1
      BY <2>4, <2>7, <2>12
    <3>2. \A e \in DOMAIN a.set : a.set[e].id \in DOMAIN a.ids /\ a.ids[a.set[e].id][1] = e
      BY <2>4, <2>6, <2>8, <2>11, <2>12, <3>1 DEF Matched
    <3>3. \A i \in DOMAIN a.ids : \E e \in DOMAIN a.set : i = a.set[e].id
      BY <1>3, <2>4, <2>8, <2>12, <3>1 DEF Matched
    <3>4. \A x : x \in DOMAIN a.directories <=> \E i \in DOMAIN a.ids : x = a.ids[i]
      BY <2>8, <2>9, <2>11, <2>12 DEF Matched
    <3> QED
      BY <3>2, <3>3, <3>4 DEF Matched
  <2>13. Agrees(a)
    BY <2>7, <2>12 DEF Agrees, IsRegs
  <2> QED
    BY <1>3, <2>4, <2>7, <2>10, <2>13 DEF Reasons, Has, IsRegs, a
<1> QED
  BY <1>1, <1>2, <1>3

\* What the set releases is the watch of that directory, and no other's.
LEMMA ReleaseIs ==
  ASSUME NEW r, IsRegs(r), Agrees(r), NEW d \in Dirs
  PROVE  LET a == Release(r, d) IN
         /\ IsRegs(a) /\ Agrees(a)
         /\ \A e \in Dirs \ {d} : Reasons(a, e) = Reasons(r, e)
         /\ Reasons(a, d) = IF Reasons(r, d) = 0 THEN 0 ELSE Reasons(r, d) - 1
<1> DEFINE a == Release(r, d)
<1>1. CASE d \notin DOMAIN r.set
  BY <1>1 DEF Release, Reasons, Has
<1>2. CASE d \in DOMAIN r.set /\ r.set[d].reasons > 1
  <2> DEFINE n == r.set[d].reasons - 1
             s == [r.set EXCEPT ![d].reasons = n]
  <2>1. a = [r EXCEPT !.set = s]
    BY <1>2 DEF Release, IsRegs
  <2>2. /\ IsFun(s) /\ DOMAIN s = DOMAIN r.set /\ s[d] = [id |-> r.set[d].id, reasons |-> n]
        /\ \A e \in DOMAIN r.set \ {d} : s[e] = r.set[e]
    BY <1>2 DEF IsRegs, IsFun
  <2>3. n \in Nat \ {0}
    BY <1>2 DEF IsRegs
  <2> HIDE DEF s, a
  <2>4. a = [set |-> s, setNext |-> r.setNext, directories |-> r.directories, ids |-> r.ids, next |-> r.next]
    BY <2>1 DEF IsRegs
  <2>5. IsRegs(a)
    BY <1>2, <2>2, <2>3, <2>4 DEF IsRegs
  <2>6. Agrees(a)
    BY <1>2, <2>2, <2>4 DEF Agrees, Matched, IsRegs
  <2> QED
    BY <1>2, <2>2, <2>4, <2>5, <2>6 DEF Reasons, Has, IsRegs, a
<1>3. CASE d \in DOMAIN r.set /\ ~(r.set[d].reasons > 1)
  <2> DEFINE s == Drop(r.set, d)
             b == [r EXCEPT !.set = s]
             id == r.set[d].id
  <2>1. a = AdapterUnwatch(b, id)
    BY <1>3 DEF Release
  <2>2. b = [set |-> s, setNext |-> r.setNext, directories |-> r.directories, ids |-> r.ids, next |-> r.next]
    BY DEF IsRegs
  <2>3. IsFun(s) /\ DOMAIN s = DOMAIN r.set \ {d} /\ \A e \in DOMAIN r.set \ {d} : s[e] = r.set[e]
    BY DEF Drop, Restrict, IsFun
  <2> HIDE DEF s, a, b
  <2>4. CASE id \notin DOMAIN r.ids
    <3>1. a = b
      BY <2>1, <2>2, <2>4 DEF AdapterUnwatch
    <3>2. IsRegs(a)
      BY <2>2, <2>3, <3>1 DEF IsRegs
    <3>3. Agrees(a)
      BY <1>3, <2>2, <2>4, <3>1 DEF Agrees, Matched
    <3> QED
      BY <1>3, <2>2, <2>3, <3>1, <3>2, <3>3 DEF Reasons, Has, IsRegs, a
  <2>5. CASE id \in DOMAIN r.ids
    <3> DEFINE left == Drop(r.ids, id)
               gone == r.ids[id]
               there == Drop(r.directories, gone)
    <3>1. a = [b EXCEPT !.ids = left, !.directories = there]
      BY <2>1, <2>2, <2>5 DEF AdapterUnwatch
    <3>2. IsFun(left) /\ DOMAIN left = DOMAIN r.ids \ {id} /\ \A i \in DOMAIN r.ids \ {id} : left[i] = r.ids[i]
      BY DEF Drop, Restrict, IsFun
    <3>3. IsFun(there) /\ DOMAIN there = DOMAIN r.directories \ {gone}
      BY DEF Drop, Restrict, IsFun
    <3> HIDE DEF left, there
    <3>4. a = [set |-> s, setNext |-> r.setNext, directories |-> there, ids |-> left, next |-> r.next]
      BY <2>2, <3>1
    <3>5. IsRegs(a)
      BY <2>3, <3>2, <3>3, <3>4 DEF IsRegs
    <3>6. ASSUME Matched(r)
          PROVE  Matched(a)
      <4>1. \A e \in DOMAIN a.set : e \in DOMAIN r.set /\ e # d /\ a.set[e] = r.set[e]
        BY <2>3, <3>4
      <4>2. \A e \in DOMAIN r.set \ {d} : r.set[e].id # id
        BY <1>3, <3>6 DEF Matched
      <4>3. \A e \in DOMAIN a.set : a.set[e].id \in DOMAIN a.ids /\ a.ids[a.set[e].id][1] = e
        BY <3>2, <3>4, <3>6, <4>1, <4>2 DEF Matched
      <4>4. \A i \in DOMAIN a.ids : \E e \in DOMAIN a.set : i = a.set[e].id
        BY <2>3, <3>2, <3>4, <3>6 DEF Matched
      <4>5. \A i \in DOMAIN a.ids : a.ids[i] = r.ids[i] /\ r.ids[i] # gone
        BY <1>3, <2>5, <3>2, <3>4, <3>6 DEF Matched
      <4>6. \A x : x \in DOMAIN a.directories <=> \E i \in DOMAIN a.ids : x = a.ids[i]
        BY <2>5, <3>2, <3>3, <3>4, <3>6, <4>5 DEF Matched
      <4> QED
        BY <4>3, <4>4, <4>6 DEF Matched
    <3>7. Agrees(a)
      BY <3>4, <3>6 DEF Agrees
    <3> QED
      BY <1>3, <2>3, <3>4, <3>5, <3>7 DEF Reasons, Has, IsRegs, a
  <2> QED
    BY <2>4, <2>5
<1> QED
  BY <1>1, <1>2, <1>3

LEMMA AcquireAllIs ==
  ASSUME NEW r, IsRegs(r), Agrees(r), NEW d \in Dirs, NEW n \in Nat
  PROVE  LET a == AcquireAll(r, d, n) IN
         /\ IsRegs(a) /\ Agrees(a)
         /\ \A e \in Dirs \ {d} : Reasons(a, e) = Reasons(r, e)
         /\ Reasons(a, d) = Reasons(r, d) + n
<1> DEFINE a == AcquireAll(r, d, n)
           b == Acquire(r, d, {})
<1>1. CASE n = 0
  BY <1>1, HasIs DEF AcquireAll
<1>2. CASE n # 0
  <2> DEFINE s == [b.set EXCEPT ![d].reasons = @ + n - 1]
  <2>1. a = [b EXCEPT !.set = s]
    BY <1>2 DEF AcquireAll
  <2>2. /\ IsRegs(b) /\ Agrees(b) /\ Reasons(b, d) = Reasons(r, d) + 1
        /\ \A e \in Dirs \ {d} : Reasons(b, e) = Reasons(r, e)
    BY AcquireIs
  <2> HIDE DEF b
  <2>3. d \in DOMAIN b.set /\ b.set[d].reasons = Reasons(r, d) + 1 /\ Reasons(r, d) \in Nat
    BY <2>2, HasIs DEF Has, Reasons
  <2>4. /\ IsFun(s) /\ DOMAIN s = DOMAIN b.set /\ s[d] = [id |-> b.set[d].id, reasons |-> b.set[d].reasons + n - 1]
        /\ \A e \in DOMAIN b.set \ {d} : s[e] = b.set[e]
    BY <2>2, <2>3 DEF IsRegs, IsFun
  <2> HIDE DEF s, a
  <2>5. a = [set |-> s, setNext |-> b.setNext, directories |-> b.directories, ids |-> b.ids, next |-> b.next]
    BY <2>1, <2>2 DEF IsRegs
  <2>6. s[d].reasons = Reasons(r, d) + n /\ s[d].id = b.set[d].id
    BY <2>3, <2>4
  <2>7. s[d] \in [id : Nat, reasons : Nat \ {0}]
    BY <1>2, <2>2, <2>3, <2>4 DEF IsRegs
  <2>8. IsRegs(a)
    BY <2>2, <2>4, <2>5, <2>7 DEF IsRegs
  <2>9. Agrees(a)
    BY <2>2, <2>4, <2>5, <2>6 DEF Agrees, Matched
  <2>10. \A e \in Dirs \ {d} : Reasons(a, e) = Reasons(b, e)
    BY <2>4, <2>5 DEF Reasons, Has
  <2>11. Reasons(a, d) = Reasons(r, d) + n
    BY <2>3, <2>4, <2>5, <2>6 DEF Reasons, Has
  <2> QED
    BY <2>2, <2>8, <2>9, <2>10, <2>11 DEF a
<1> QED
  BY <1>1, <1>2

\* A path whose directories are all watched in the end is a reason for each of them.
LEMMA WatchPathIs ==
  ASSUME NEW r, IsRegs(r), Agrees(r), NEW p, NEW full
  PROVE  LET a == WatchPath(r, p, full) IN
         /\ IsRegs(a) /\ Agrees(a)
         /\ \A d \in Dirs : Reasons(a, d) >= Reasons(r, d)
         /\ DirectoriesFor(p) \subseteq DOMAIN a.set =>
              \A d \in DirectoriesFor(p) : Reasons(a, d) >= Reasons(r, d) + 1
<1> DEFINE a == WatchPath(r, p, full)
           below == IF Sub \in DirectoriesFor(p) THEN Acquire(r, Sub, full) ELSE r
           goes == DirectoriesFor(p) \ {Root} \subseteq DOMAIN below.set
<1>1. Root \in Dirs /\ Sub \in Dirs /\ Root # Sub /\ Root \in DirectoriesFor(p) /\ DirectoriesFor(p) \subseteq Dirs
  BY PathsAreDistinct DEF Dirs, DirectoriesFor, Paths
<1>2. a = IF goes THEN Acquire(below, Root, full) ELSE below
  BY DEF WatchPath
<1>3. /\ IsRegs(below) /\ Agrees(below) /\ Reasons(below, Root) = Reasons(r, Root)
      /\ Reasons(below, Sub) >= Reasons(r, Sub)
      /\ (Sub \in DirectoriesFor(p) /\ Has(below, Sub)) => Reasons(below, Sub) = Reasons(r, Sub) + 1
  <2>1. CASE Sub \in DirectoriesFor(p)
    <3>1. below = Acquire(r, Sub, full)
      BY <2>1
    <3> HIDE DEF below
    <3>2. /\ IsRegs(below) /\ Agrees(below) /\ Reasons(below, Root) = Reasons(r, Root)
          /\ \/ Reasons(below, Sub) = Reasons(r, Sub) + 1
             \/ Reasons(below, Sub) = Reasons(r, Sub) /\ Reasons(below, Sub) = 0
      BY <1>1, <3>1, AcquireIs
    <3> QED
      BY <1>1, <3>2, HasIs
  <2>2. CASE Sub \notin DirectoriesFor(p)
    <3>1. below = r
      BY <2>2
    <3> QED
      BY <1>1, <2>2, <3>1, HasIs
  <2> QED
    BY <2>1, <2>2
<1> HIDE DEF below, a
<1>4. CASE goes
  <2>1. a = Acquire(below, Root, full)
    BY <1>2, <1>4
  <2>2. /\ IsRegs(a) /\ Agrees(a) /\ Reasons(a, Sub) = Reasons(below, Sub)
        /\ \/ Reasons(a, Root) = Reasons(below, Root) + 1
           \/ Reasons(a, Root) = Reasons(below, Root) /\ Reasons(a, Root) = 0
    BY <1>1, <1>3, <2>1, AcquireIs
  <2>3. \A d \in Dirs : Reasons(a, d) >= Reasons(r, d)
    BY <1>1, <1>3, <2>2, HasIs DEF Dirs
  <2>4. ASSUME DirectoriesFor(p) \subseteq DOMAIN a.set
        PROVE  \A d \in DirectoriesFor(p) : Reasons(a, d) >= Reasons(r, d) + 1
    <3>1. Has(a, Root) /\ (Sub \in DirectoriesFor(p) => Has(a, Sub))
      BY <1>1, <2>4 DEF Has
    <3>2. Sub \in DirectoriesFor(p) => Has(below, Sub)
      BY <1>1, <1>3, <2>2, <3>1, HasIs
    <3>3. Reasons(a, Root) = Reasons(r, Root) + 1
      BY <1>1, <1>3, <2>2, <3>1, HasIs
    <3>4. \A d \in Dirs : Reasons(r, d) \in Nat
      BY HasIs
    <3> QED
      BY <1>1, <1>3, <2>2, <3>2, <3>3, <3>4 DEF Dirs
  <2> QED
    BY <2>2, <2>3, <2>4 DEF a
<1>5. CASE ~goes
  <2>1. a = below
    BY <1>2, <1>5
  <2>2. ~(DirectoriesFor(p) \subseteq DOMAIN a.set)
    BY <1>5, <2>1
  <2> QED
    BY <1>1, <1>3, <2>1, <2>2, HasIs DEF Dirs, a
<1> QED
  BY <1>4, <1>5

LEMMA UnwatchPathIs ==
  ASSUME NEW r, IsRegs(r), Agrees(r), NEW p
  PROVE  LET a == UnwatchPath(r, p) IN
         /\ IsRegs(a) /\ Agrees(a)
         /\ p \notin exists => a = r
         /\ \A d \in Dirs : Reasons(a, d) >= Reasons(r, d) - 1
         /\ \A d \in Dirs \ DirectoriesFor(p) : Reasons(a, d) = Reasons(r, d)
<1> DEFINE a == UnwatchPath(r, p)
           below == IF Sub \in DirectoriesFor(p) THEN Release(r, Sub) ELSE r
<1>1. Root \in Dirs /\ Sub \in Dirs /\ Root # Sub /\ Root \in DirectoriesFor(p) /\ DirectoriesFor(p) \subseteq Dirs
  BY PathsAreDistinct DEF Dirs, DirectoriesFor, Paths
<1>2. a = IF p \in exists THEN Release(below, Root) ELSE r
  BY DEF UnwatchPath
<1>3. \A d \in Dirs : Reasons(r, d) \in Nat
  BY HasIs
<1>4. /\ IsRegs(below) /\ Agrees(below) /\ Reasons(below, Root) = Reasons(r, Root)
      /\ Reasons(below, Sub) >= Reasons(r, Sub) - 1
      /\ Sub \notin DirectoriesFor(p) => Reasons(below, Sub) = Reasons(r, Sub)
  <2>1. CASE Sub \in DirectoriesFor(p)
    <3>1. below = Release(r, Sub)
      BY <2>1
    <3> HIDE DEF below
    <3>2. /\ IsRegs(below) /\ Agrees(below) /\ Reasons(below, Root) = Reasons(r, Root)
          /\ Reasons(below, Sub) = IF Reasons(r, Sub) = 0 THEN 0 ELSE Reasons(r, Sub) - 1
      BY <1>1, <3>1, ReleaseIs
    <3> QED
      BY <1>1, <1>3, <2>1, <3>2
  <2>2. CASE Sub \notin DirectoriesFor(p)
    <3>1. below = r
      BY <2>2
    <3> QED
      BY <1>1, <1>3, <2>2, <3>1
  <2> QED
    BY <2>1, <2>2
<1> HIDE DEF below, a
<1>5. CASE p \in exists
  <2>1. a = Release(below, Root)
    BY <1>2, <1>5
  <2>2. /\ IsRegs(a) /\ Agrees(a) /\ Reasons(a, Sub) = Reasons(below, Sub)
        /\ Reasons(a, Root) = IF Reasons(below, Root) = 0 THEN 0 ELSE Reasons(below, Root) - 1
    BY <1>1, <1>4, <2>1, ReleaseIs
  <2> QED
    BY <1>1, <1>3, <1>4, <1>5, <2>2 DEF Dirs, a
<1>6. CASE p \notin exists
  BY <1>2, <1>3, <1>6 DEF a
<1> QED
  BY <1>5, <1>6
-----------------------------------------------------------------------------
\* The granted paths that need a directory; each of them is one of its reasons.
For(d) == {p \in granted : d \in DirectoriesFor(p)}
RegsInv == IsRegs(Registrations) /\ Agrees(Registrations)
CountInv ==
  /\ IsFiniteSet(wanted) /\ IsFiniteSet(granted)
  /\ ~unbalanced => \A d \in Dirs : Cardinality(For(d)) <= Reasons(Registrations, d)
Counted == RegsInv /\ CountInv

LEMMA DirectoriesAre == \A p : Root \in DirectoriesFor(p) /\ DirectoriesFor(p) \subseteq Dirs
BY DEF DirectoriesFor, Dirs

LEMMA ForIs ==
  ASSUME NEW d, IsFiniteSet(granted)
  PROVE  IsFiniteSet(For(d)) /\ Cardinality(For(d)) \in Nat
BY FS_Subset, FS_CardinalityType DEF For

LEMMA NeedingIs ==
  ASSUME NEW d, IsFiniteSet(wanted)
  PROVE  Needing(wanted, d) \in Nat
BY FS_Subset, FS_CardinalityType DEF Needing

\* What a request makes of the registrations becomes the thread's.
LEMMA KeptIs ==
  ASSUME NEW r, IsRegs(r), Keep(r)
  PROVE  Registrations' = r
BY DEF Keep, Registrations, IsRegs

LEMMA InitCounted == Init => Counted
<1> SUFFICES ASSUME Init PROVE Counted
  OBVIOUS
<1>1. set = Nothing /\ setNext = 0 /\ directories = Nothing /\ ids = Nothing /\ adapterNext = 0
  BY DEF Init
<1>2. IsFun(Nothing) /\ DOMAIN Nothing = {}
  BY DEF Nothing, IsFun
<1>3. IsRegs(Registrations)
  BY <1>1, <1>2 DEF IsRegs, Registrations
<1>4. Agrees(Registrations)
  BY <1>1, <1>2 DEF Agrees, Matched, Registrations
<1>5. granted = {} /\ wanted = {} /\ \A d : For(d) = {}
  BY DEF Init, For
<1>6. \A d \in Dirs : Cardinality(For(d)) = 0 /\ Reasons(Registrations, d) \in Nat
  BY <1>3, <1>5, FS_EmptySet, HasIs
<1> QED
  BY <1>3, <1>4, <1>5, <1>6, FS_EmptySet DEF Counted, RegsInv, CountInv

LEMMA WatchCounted ==
  ASSUME Counted, NEW p, NEW full, Watch(p, full)
  PROVE  Counted'
<1> DEFINE r == IF p \in exists \ Excluded THEN WatchPath(Registrations, p, full) ELSE Registrations
           gets == p \in exists \ Excluded /\ DirectoriesFor(p) \subseteq DOMAIN r.set
<1>1. /\ Keep(r) /\ p \notin wanted /\ wanted' = wanted \cup {p} /\ unbalanced' = unbalanced
      /\ granted' = IF gets THEN granted \cup {p} ELSE granted
  BY DEF Watch, Request
<1>2. /\ IsRegs(r) /\ Agrees(r)
      /\ \A d \in Dirs : Reasons(r, d) >= Reasons(Registrations, d)
      /\ gets => \A d \in DirectoriesFor(p) : Reasons(r, d) >= Reasons(Registrations, d) + 1
  <2>1. \A d \in Dirs : Reasons(Registrations, d) \in Nat
    BY HasIs DEF Counted, RegsInv
  <2>2. CASE p \in exists \ Excluded
    <3>1. r = WatchPath(Registrations, p, full)
      BY <2>2
    <3> HIDE DEF r
    <3> QED
      BY <3>1, WatchPathIs DEF Counted, RegsInv
  <2>3. CASE p \notin exists \ Excluded
    BY <2>1, <2>3 DEF Counted, RegsInv
  <2> QED
    BY <2>2, <2>3
<1> HIDE DEF r
<1>3. Registrations' = r
  BY <1>1, <1>2, KeptIs
<1>4. RegsInv'
  BY <1>2, <1>3 DEF RegsInv
<1>5. IsFiniteSet(wanted') /\ IsFiniteSet(granted')
  BY <1>1, FS_AddElement DEF Counted, CountInv
<1>6. ASSUME ~unbalanced', NEW d \in Dirs
      PROVE  Cardinality(For(d)') <= Reasons(Registrations', d)
  <2>1. Cardinality(For(d)) <= Reasons(Registrations, d)
    BY <1>1, <1>6 DEF Counted, CountInv
  <2>2. /\ IsFiniteSet(For(d)) /\ Cardinality(For(d)) \in Nat
        /\ Reasons(Registrations, d) \in Nat /\ Reasons(r, d) \in Nat
    BY <1>2, ForIs, HasIs DEF Counted, CountInv, RegsInv
  <2>3. CASE gets /\ d \in DirectoriesFor(p)
    <3>1. For(d)' = For(d) \cup {p}
      BY <1>1, <2>3 DEF For
    <3>2. Cardinality(For(d)') <= Cardinality(For(d)) + 1 /\ Cardinality(For(d)') \in Nat
      BY <2>2, <3>1, FS_AddElement, FS_CardinalityType
    <3> QED
      BY <1>2, <1>3, <2>1, <2>2, <2>3, <3>2
  <2>4. CASE ~(gets /\ d \in DirectoriesFor(p))
    <3>1. For(d)' = For(d)
      BY <1>1, <2>4 DEF For
    <3> QED
      BY <1>2, <1>3, <2>1, <2>2, <3>1
  <2> QED
    BY <2>3, <2>4
<1> QED
  BY <1>4, <1>5, <1>6 DEF Counted, CountInv

LEMMA ReestablishCounted ==
  ASSUME Counted, Reestablish
  PROVE  Counted'
<1>1. PICK order \in {<<Sub, Root>>, <<Root, Sub>>} :
        \E r \in {AcquireAll(Registrations, order[1], Needing(wanted, order[1]))} :
          \E s \in {AcquireAll(r, order[2], Needing(wanted, order[2]))} : Request(s)
  BY DEF Reestablish
<1>2. order[1] \in Dirs /\ order[2] \in Dirs
  BY <1>1 DEF Dirs
<1> DEFINE n(i) == Needing(wanted, order[i])
           r == AcquireAll(Registrations, order[1], n(1))
           s == AcquireAll(r, order[2], n(2))
<1>3. n(1) \in Nat /\ n(2) \in Nat
  BY NeedingIs DEF Counted, CountInv
<1>4. Keep(s)
  BY <1>1 DEF Request
<1> HIDE DEF n
<1>5. /\ IsRegs(r) /\ Agrees(r) /\ Reasons(r, order[1]) = Reasons(Registrations, order[1]) + n(1)
      /\ \A d \in Dirs \ {order[1]} : Reasons(r, d) = Reasons(Registrations, d)
  BY <1>2, <1>3, AcquireAllIs DEF Counted, RegsInv
<1> HIDE DEF r
<1>6. /\ IsRegs(s) /\ Agrees(s) /\ Reasons(s, order[2]) = Reasons(r, order[2]) + n(2)
      /\ \A d \in Dirs \ {order[2]} : Reasons(s, d) = Reasons(r, d)
  BY <1>2, <1>3, <1>5, AcquireAllIs
<1> HIDE DEF s
<1>7. Registrations' = s
  BY <1>4, <1>6, KeptIs
<1>8. \A d \in Dirs : Reasons(Registrations, d) \in Nat /\ Reasons(r, d) \in Nat /\ Reasons(s, d) \in Nat
  BY <1>5, <1>6, HasIs DEF Counted, RegsInv
<1>9. \A d \in Dirs : Reasons(s, d) >= Reasons(Registrations, d)
  BY <1>2, <1>3, <1>5, <1>6, <1>8
<1>10. UNCHANGED <<wanted, granted, unbalanced>>
  BY DEF Reestablish
<1>11. \A d : For(d)' = For(d)
  BY <1>10 DEF For
<1>12. RegsInv'
  BY <1>6, <1>7 DEF RegsInv
<1>13. \A d \in Dirs : Cardinality(For(d)) \in Nat
  BY ForIs DEF Counted, CountInv
<1>14. CountInv'
  BY <1>7, <1>8, <1>9, <1>10, <1>11, <1>13 DEF Counted, CountInv
<1> QED
  BY <1>12, <1>14 DEF Counted

LEMMA UnwatchCounted ==
  ASSUME Counted, NEW p, Unwatch(p)
  PROVE  Counted'
<1> DEFINE r == UnwatchPath(Registrations, p)
<1>1. /\ Keep(r) /\ wanted' = wanted \ {p} /\ granted' = granted \ {p}
      /\ unbalanced' = (unbalanced \/ p \in exists \ granted)
  BY DEF Unwatch, Request
<1>2. /\ IsRegs(r) /\ Agrees(r) /\ (p \notin exists => r = Registrations)
      /\ \A d \in Dirs : Reasons(r, d) >= Reasons(Registrations, d) - 1
      /\ \A d \in Dirs \ DirectoriesFor(p) : Reasons(r, d) = Reasons(Registrations, d)
  BY UnwatchPathIs DEF Counted, RegsInv
<1> HIDE DEF r
<1>3. Registrations' = r
  BY <1>1, <1>2, KeptIs
<1>4. RegsInv'
  BY <1>2, <1>3 DEF RegsInv
<1>5. IsFiniteSet(wanted') /\ IsFiniteSet(granted')
  BY <1>1, FS_RemoveElement DEF Counted, CountInv
<1>6. ASSUME ~unbalanced', NEW d \in Dirs
      PROVE  Cardinality(For(d)') <= Reasons(Registrations', d)
  <2>1. ~unbalanced /\ (p \in exists => p \in granted)
    BY <1>1, <1>6
  <2>2. Cardinality(For(d)) <= Reasons(Registrations, d)
    BY <1>6, <2>1 DEF Counted, CountInv
  <2>3. /\ IsFiniteSet(For(d)) /\ Cardinality(For(d)) \in Nat
        /\ Reasons(Registrations, d) \in Nat /\ Reasons(r, d) \in Nat
    BY <1>2, ForIs, HasIs DEF Counted, CountInv, RegsInv
  <2>4. For(d)' = For(d) \ {p}
    BY <1>1 DEF For
  <2>5. CASE p \in For(d)
    <3>1. Cardinality(For(d)') = Cardinality(For(d)) - 1
      BY <2>3, <2>4, <2>5, FS_RemoveElement
    <3> QED
      BY <1>2, <1>3, <2>2, <2>3, <3>1
  <2>6. CASE p \notin For(d)
    <3>1. For(d)' = For(d)
      BY <2>4, <2>6
    <3>2. Reasons(r, d) = Reasons(Registrations, d)
      BY <1>2, <2>1, <2>6 DEF For
    <3> QED
      BY <1>3, <2>2, <3>1, <3>2
  <2> QED
    BY <2>5, <2>6
<1> QED
  BY <1>4, <1>5, <1>6 DEF Counted, CountInv

LEMMA ForgetCounted ==
  ASSUME Forget
  PROVE  Counted'
<1> DEFINE none == [set |-> Nothing, setNext |-> 0, directories |-> Nothing, ids |-> Nothing, next |-> 0]
<1>1. Keep(none) /\ wanted' = {} /\ granted' = {}
  BY DEF Forget
<1>2. IsFun(Nothing) /\ DOMAIN Nothing = {}
  BY DEF Nothing, IsFun
<1>3. IsRegs(none) /\ Agrees(none)
  BY <1>2 DEF IsRegs, Agrees, Matched
<1> HIDE DEF none
<1>4. Registrations' = none
  BY <1>1, <1>3, KeptIs
<1>5. \A d : For(d)' = {}
  BY <1>1 DEF For
<1>6. \A d \in Dirs : Cardinality(For(d)') = 0 /\ Reasons(Registrations', d) \in Nat
  BY <1>3, <1>4, <1>5, FS_EmptySet, HasIs
<1> QED
  BY <1>1, <1>3, <1>4, <1>6, FS_EmptySet DEF Counted, RegsInv, CountInv

\* Nothing else touches the registrations or what is granted.
LEMMA OtherCounted ==
  ASSUME Counted, UNCHANGED <<registered, asked>>
  PROVE  Counted'
<1>1. UNCHANGED <<set, setNext, directories, ids, adapterNext, wanted, granted, unbalanced>>
  BY DEF registered, asked
<1>2. Registrations' = Registrations /\ \A d : For(d)' = For(d)
  BY <1>1 DEF Registrations, For
<1> QED
  BY <1>1, <1>2 DEF Counted, RegsInv, CountInv

LEMMA NextCounted == Counted /\ [Next]_vars => Counted'
<1> SUFFICES ASSUME Counted, [Next]_vars PROVE Counted'
  OBVIOUS
<1>1. CASE Changes
  <2>1. UNCHANGED <<registered, asked>>
    BY <1>1 DEF Changes, CreateFile, Write, Delete, Move, MakeSub, RemoveSub
  <2> QED
    BY <2>1, OtherCounted
<1>2. CASE Requests
  BY <1>2, WatchCounted, UnwatchCounted, ReestablishCounted, ForgetCounted DEF Requests
<1>3. CASE Turn \/ Tick
  <2>1. UNCHANGED <<registered, asked>>
    BY <1>3 DEF Turn, Tick
  <2> QED
    BY <2>1, OtherCounted
<1>4. CASE UNCHANGED vars
  <2>1. UNCHANGED <<registered, asked>>
    BY <1>4 DEF vars
  <2> QED
    BY <2>1, OtherCounted
<1> QED
  BY <1>1, <1>2, <1>3, <1>4 DEF Next

LEMMA AlwaysCounted == Spec => []Counted
<1>1. Init => Counted
  BY InitCounted
<1>2. Counted /\ [Next]_vars => Counted'
  BY NextCounted
<1> QED
  BY <1>1, <1>2, PTL DEF Spec

\* For any exclusions, files and refusals of the kernel: what has been granted keeps the
\* entries of its directories through every release of another path, and as long as the
\* kernel refused nothing the adapter keeps their descriptors
\* (WatchSet::acquire and release, watch_paths and unwatch_paths, InotifyWatcher::unwatch).
THEOREM WhatIsGrantedStaysWatched == Spec => []GrantedIsWatched
<1>1. Counted => GrantedIsWatched
  <2> SUFFICES ASSUME Counted, ~unbalanced, NEW p \in granted, NEW d \in DirectoriesFor(p)
               PROVE  /\ d \in DOMAIN set
                      /\ setNext = adapterNext => \E wd \in DOMAIN directories : wd[1] = d
    BY DEF GrantedIsWatched
  <2>1. d \in Dirs
    BY DirectoriesAre
  <2>2. IsFiniteSet(For(d)) /\ Cardinality(For(d)) \in Nat /\ p \in For(d)
    BY ForIs DEF Counted, CountInv, For
  <2>3. Cardinality(For(d)) # 0
    BY <2>2, FS_EmptySet
  <2>4. Reasons(Registrations, d) > 0
    BY <2>1, <2>2, <2>3, HasIs DEF Counted, CountInv, RegsInv
  <2>5. Has(Registrations, d)
    BY <2>1, <2>4, HasIs DEF Counted, RegsInv
  <2>6. d \in DOMAIN set
    BY <2>5 DEF Has, Registrations
  <2>7. ASSUME setNext = adapterNext PROVE \E wd \in DOMAIN directories : wd[1] = d
    <3>1. Matched(Registrations)
      BY <2>7 DEF Counted, RegsInv, Agrees, Registrations
    <3>2. /\ set[d].id \in DOMAIN ids /\ ids[set[d].id][1] = d
          /\ \A w : w \in DOMAIN directories <=> \E i \in DOMAIN ids : w = ids[i]
      BY <2>6, <3>1 DEF Matched, Registrations
    <3> QED
      BY <3>2
  <2> QED
    BY <2>6, <2>7
<1> QED
  BY <1>1, AlwaysCounted, PTL

\* As long as the kernel refused nothing, the numbers the set gives out are those the
\* adapter gives out, so unwatch(id) ends the watch of the directory that was released
\* and none outlives its directory's last reason.
THEOREM TheNumbersAgree == Spec => []NumbersAgree
<1>1. Counted => NumbersAgree
  <2> SUFFICES ASSUME Counted, setNext = adapterNext
               PROVE  /\ \A d \in DOMAIN set : set[d].id \in DOMAIN ids /\ ids[set[d].id][1] = d
                      /\ DOMAIN ids = {set[d].id : d \in DOMAIN set}
                      /\ DOMAIN directories = Range(ids)
    BY DEF NumbersAgree
  <2>1. Matched(Registrations)
    BY DEF Counted, RegsInv, Agrees, Registrations
  <2>2. /\ \A d \in DOMAIN set : set[d].id \in DOMAIN ids /\ ids[set[d].id][1] = d
        /\ \A i \in DOMAIN ids : \E d \in DOMAIN set : i = set[d].id
        /\ \A w : w \in DOMAIN directories <=> \E i \in DOMAIN ids : w = ids[i]
    BY <2>1 DEF Matched, Registrations
  <2>3. DOMAIN ids = {set[d].id : d \in DOMAIN set}
    BY <2>2
  <2>4. DOMAIN directories = Range(ids)
    BY <2>2 DEF Range
  <2> QED
    BY <2>2, <2>3, <2>4
<1> QED
  BY <1>1, AlwaysCounted, PTL

-----------------------------------------------------------------------------
(* WatchRequests: what is shown, asked for, recorded and watched.          *)

\* What an asker may have left to do.
U  == <<"unwatch">>
UW == <<"unwatch", "watch">>
W  == <<"watch">>
RW == <<"register", "watch">>
Todos == {<<>>, U, UW, W, RW}

Asking     == [at : {"idle", "asks", "waits", "answered"}, todo : Todos, add : SUBSET Entries,
               remove : SUBSET Entries, ok : BOOLEAN, refused : SUBSET Entries]
RequestSet == [from : Askers, kind : {"register", "watch", "unwatch"}, paths : SUBSET Entries]
ReplySet   == [to : Askers, ok : BOOLEAN, refused : SUBSET Entries]
Deltas    == [add : SUBSET Entries, remove : SUBSET Entries]

WindowT == /\ declared \subseteq Entries /\ timer \in Deltas
           /\ timer.add \subseteq declared /\ timer.remove \cap declared = {}
           /\ updates \in 0..MaxUpdates /\ (timer # NoDelta => updates > 0)
AskerT  == asker \in [Askers -> Asking]
LinkT   == link \in {"up", "down"} /\ losses \in 0..MaxLosses /\ (link = "down" => losses > 0)
WireT   == wire \in Seq(RequestSet)
ReplyT  == replies \in Seq(ReplySet)
EngineT == engine \in [registered : BOOLEAN, reasons : [Entries -> Nat]]
Types   == WindowT /\ AskerT /\ LinkT /\ WireT /\ ReplyT /\ EngineT /\ recorded \subseteq Entries

Watches(k)   == asker[k].todo = W
Unwatches(k) == asker[k].todo \in {U, UW}

\* A call has what it was fired with; no call is fired twice.
CallOK(k) ==
  \/ asker[k] = Idle
  \/ /\ asker[k].at # "idle" /\ k <= updates /\ (timer # NoDelta => k # updates)
     /\ asker[k].add \cap asker[k].remove = {}
     /\ \/ asker[k].todo = U /\ asker[k].add = {} /\ asker[k].remove # {}
        \/ asker[k].todo = UW /\ asker[k].add # {} /\ asker[k].remove # {}
        \/ asker[k].todo = W /\ asker[k].add # {}

\* The resume of the last loss comes with the connection.
Latest == MaxUpdates + losses
ResumeOK(k) ==
  \/ asker[k] = Idle
  \/ /\ asker[k].at # "idle" /\ asker[k].todo \in {RW, W}
     /\ asker[k].add = {} /\ asker[k].remove = {}
     /\ k <= Latest /\ (k = Latest => link = "up")

\* An asker whose time is up has ended, and asks for nothing again.
Ended(k) == asker[k] = Idle /\ (k \in Calls => k <= updates /\ (timer # NoDelta => k # updates))

\* Who waits has one request or one answer on its way at most, and they are its; the
\* others on their way are of askers that have ended.
Sent == {wire[i] : i \in DOMAIN wire}
Said == {replies[i] : i \in DOMAIN replies}
SentOK(r) ==
  \/ Ended(r.from)
  \/ /\ asker[r.from].at = "waits" /\ r.kind = Head(asker[r.from].todo)
     /\ r.from \in Calls =>
          r.paths = IF r.kind = "unwatch" THEN asker[r.from].remove ELSE asker[r.from].add
SaidOK(s) == Ended(s.to) \/ (asker[s.to].at = "waits" /\ (Unwatches(s.to) => s.refused = {}))
Apart ==
  /\ \A i, j \in DOMAIN wire : wire[i].from = wire[j].from => i = j
  /\ \A i, j \in DOMAIN replies : replies[i].to = replies[j].to => i = j
  /\ \A r \in Sent : \A s \in Said : r.from # s.to
Mail == /\ \A r \in Sent : SentOK(r)
        /\ \A s \in Said : SaidOK(s)
        /\ Apart
        /\ link = "down" => wire = <<>> /\ replies = <<>>

\* The last resume asks an engine that is there to watch when it has registered its
\* workspace, and not before.
Registered ==
  /\ (losses > 0 /\ link = "up") =>
       /\ asker[Latest].todo = W => engine.registered
       /\ asker[Latest].at = "answered" /\ asker[Latest].ok => engine.registered
  /\ \A s \in Said : s.ok => engine.registered

\* One call at a time is about a path.
OneCall == \A p \in Entries \ raced : \A j, k \in Calls : p \in Touches(j) /\ p \in Touches(k) => j = k

StructInv == /\ Types /\ Mail /\ Registered /\ OneCall
             /\ \A k \in Calls : CallOK(k)
             /\ \A k \in Resumes : ResumeOK(k)
-----------------------------------------------------------------------------
LEMMA TodoIs ==
  /\ Head(U) = "unwatch" /\ Head(UW) = "unwatch" /\ Head(W) = "watch" /\ Head(RW) = "register"
  /\ Tail(U) = <<>> /\ Tail(UW) = W /\ Tail(W) = <<>> /\ Tail(RW) = W
  /\ U # <<>> /\ UW # <<>> /\ W # <<>> /\ RW # <<>>
  /\ U # UW /\ U # W /\ U # RW /\ UW # W /\ UW # RW /\ W # RW
  /\ Order = RW
<1>1. /\ Len(U) = 1 /\ Len(UW) = 2 /\ Len(W) = 1 /\ Len(RW) = 2
      /\ U[1] = "unwatch" /\ UW[1] = "unwatch" /\ UW[2] = "watch" /\ W[1] = "watch"
      /\ RW[1] = "register" /\ RW[2] = "watch"
  BY DEF U, UW, W, RW
<1>2. /\ Tail(U) = <<>> /\ Tail(W) = <<>>
  BY DEF U, W
<1>3. /\ Tail(UW) = W /\ Tail(RW) = W
  BY DEF UW, RW, W
<1> QED
  BY <1>1, <1>2, <1>3 DEF U, UW, W, RW, Order

LEMMA IdleIs == /\ Idle \in Asking /\ Idle.at = "idle" /\ Idle.todo = <<>> /\ Idle.add = {} /\ Idle.remove = {}
                /\ Idle.ok = FALSE /\ Idle.refused = {}
BY DEF Idle, Asking, Todos

LEMMA StepsAre ==
  ASSUME NEW c \in Deltas, c # NoDelta
  PROVE  \/ Steps(c) = U /\ c.add = {} /\ c.remove # {}
         \/ Steps(c) = UW /\ c.add # {} /\ c.remove # {}
         \/ Steps(c) = W /\ c.add # {} /\ c.remove = {}
<1>1. c.add # {} \/ c.remove # {}
  BY DEF Deltas, NoDelta
<1> DEFINE Kinds == {"unwatch", "watch"}
<1>2. U \in Seq(Kinds) /\ W \in Seq(Kinds) /\ UW \in Seq(Kinds)
  BY DEF U, W, UW
<1>3. <<>> \o W = W /\ U \o <<>> = U
  BY <1>2, ConcatEmptySeq
<1> HIDE DEF Kinds
<1>4. Len(U) = 1 /\ Len(W) = 1 /\ U[1] = "unwatch" /\ W[1] = "watch"
  BY DEF U, W
<1>5. U \o W \in Seq(Kinds) /\ Len(U \o W) = Len(U) + Len(W)
  BY <1>2, ConcatProperties
<1>6. \A i \in 1..(Len(U) + Len(W)) : (U \o W)[i] = IF i <= Len(U) THEN U[i] ELSE W[i - Len(U)]
  BY <1>2, ConcatProperties
<1>7. Len(U \o W) = 2 /\ (U \o W)[1] = "unwatch"
  BY <1>4, <1>5, <1>6
<1>8. (U \o W)[2] = "watch"
  BY <1>4, <1>5, <1>6
<1>9. Len(UW) = 2 /\ UW[1] = "unwatch" /\ UW[2] = "watch"
  BY DEF UW
<1>10. U \o W = UW
  BY <1>2, <1>9, <1>5, <1>7, <1>8, SeqEqual
<1> QED
  BY <1>1, <1>3, <1>10 DEF Steps, U, W

LEMMA AskersAre ==
  /\ \A k \in Calls : k \in Askers /\ k \notin Resumes /\ k \in Nat /\ k >= 1 /\ k <= MaxUpdates
  /\ \A k \in Resumes : k \in Askers /\ k \notin Calls /\ k \in Nat
  /\ \A k \in Askers : k \in Calls \/ k \in Resumes
  /\ LinkT => (losses > 0 => Latest \in Resumes) /\ Latest \in Nat
  /\ WindowT => (updates > 0 => updates \in Calls) /\ updates \in Nat
BY BoundsAreNumbers DEF Askers, Calls, Resumes, LinkT, WindowT, Latest

\* A message is sent behind the others, or nowhere ...
LEMMA SendsIs ==
  ASSUME WireT, LinkT, NEW k \in Askers, NEW request \in RequestSet, Sends(k, request)
  PROVE  /\ asker' = [asker EXCEPT ![k].at = "waits"]
         /\ wire' \in Seq(RequestSet) /\ Sent \subseteq Sent' /\ Sent' \subseteq Sent \cup {request}
         /\ \A i \in DOMAIN wire : i \in DOMAIN wire' /\ wire'[i] = wire[i]
         /\ DOMAIN wire = 1..Len(wire) /\ Len(wire) \in Nat
         /\ link = "up" => /\ Sent' = Sent \cup {request} /\ wire'[Len(wire) + 1] = request
                           /\ DOMAIN wire' = 1..(Len(wire) + 1)
         /\ link # "up" => wire' = wire
         /\ replies' = replies /\ link' = link /\ losses' = losses /\ Said' = Said
<1>1. /\ wire' = IF link = "up" THEN Append(wire, request) ELSE wire
      /\ asker' = [asker EXCEPT ![k].at = "waits"]
      /\ replies' = replies /\ link' = link /\ losses' = losses /\ Said' = Said
  BY DEF Sends, Said
<1>2. DOMAIN wire = 1..Len(wire) /\ Len(wire) \in Nat
  BY DEF WireT
<1>3. CASE link = "up"
  <2>1. /\ wire' \in Seq(RequestSet) /\ wire'[Len(wire) + 1] = request
        /\ \A i \in 1..Len(wire) : wire'[i] = wire[i]
        /\ DOMAIN wire' = 1..(Len(wire) + 1)
    BY <1>1, <1>3 DEF WireT
  <2>2. \A i \in DOMAIN wire' : i \in DOMAIN wire \/ i = Len(wire) + 1
    BY <1>2, <2>1
  <2>3. Sent' = Sent \cup {request}
    BY <1>2, <2>1, <2>2 DEF Sent
  <2> QED
    BY <1>1, <1>2, <1>3, <2>1, <2>3
<1>4. CASE link # "up"
  BY <1>1, <1>2, <1>4 DEF Sent, WireT
<1> QED
  BY <1>3, <1>4

\* ... the first is served, and answered behind the other answers ...
LEMMA AnswersIs ==
  ASSUME Types, NEW to \in Askers, NEW ok \in BOOLEAN, NEW refused \in SUBSET Entries,
         wire # <<>>, Answers(to, ok, refused)
  PROVE  /\ wire' \in Seq(RequestSet) /\ Sent' \subseteq Sent /\ wire[1] \in Sent /\ wire[1] \in RequestSet
         /\ \A r \in Sent : r = wire[1] \/ r \in Sent'
         /\ DOMAIN wire' = 1..(Len(wire) - 1) /\ DOMAIN wire = 1..Len(wire) /\ Len(wire) \in Nat
         /\ Len(wire) >= 1
         /\ \A i \in DOMAIN wire' : i + 1 \in DOMAIN wire /\ wire'[i] = wire[i + 1]
         /\ replies' \in Seq(ReplySet)
         /\ Said' = Said \cup {[to |-> to, ok |-> ok, refused |-> refused]}
         /\ DOMAIN replies' = 1..(Len(replies) + 1) /\ DOMAIN replies = 1..Len(replies) /\ Len(replies) \in Nat
         /\ replies'[Len(replies) + 1].to = to
         /\ \A i \in DOMAIN replies : i \in DOMAIN replies' /\ replies'[i] = replies[i]
         /\ UNCHANGED <<declared, timer, updates, asker, recorded, link, losses, unasked, unresumed, raced>>
<1> DEFINE s == [to |-> to, ok |-> ok, refused |-> refused]
<1>1. /\ wire' = Tail(wire) /\ replies' = Append(replies, s) /\ s \in ReplySet /\ s.to = to
      /\ UNCHANGED <<declared, timer, updates, asker, recorded, link, losses, unasked, unresumed, raced>>
  BY DEF Answers, ReplySet, window
<1>2. /\ wire \in Seq(RequestSet) /\ replies \in Seq(ReplySet)
  BY DEF Types, WireT, ReplyT
<1>3. /\ wire' \in Seq(RequestSet) /\ Len(wire) >= 1 /\ Len(wire) \in Nat
      /\ DOMAIN wire' = 1..(Len(wire) - 1) /\ DOMAIN wire = 1..Len(wire)
      /\ \A i \in 1..(Len(wire) - 1) : wire'[i] = wire[i + 1]
  BY <1>1, <1>2
<1>4. /\ replies' \in Seq(ReplySet) /\ Len(replies) \in Nat
      /\ DOMAIN replies' = 1..(Len(replies) + 1) /\ DOMAIN replies = 1..Len(replies)
      /\ \A i \in 1..Len(replies) : replies'[i] = replies[i]
      /\ replies'[Len(replies) + 1] = s
  BY <1>1, <1>2
<1> HIDE DEF s
<1>5. /\ \A i \in DOMAIN wire' : i + 1 \in DOMAIN wire /\ wire'[i] = wire[i + 1]
      /\ 1 \in DOMAIN wire
  BY <1>3
<1>6. Sent' \subseteq Sent /\ wire[1] \in Sent /\ wire[1] \in RequestSet
  BY <1>2, <1>5 DEF Sent
<1>7. \A r \in Sent : r = wire[1] \/ r \in Sent'
  <2>1. \A i \in DOMAIN wire : i = 1 \/ (i - 1 \in DOMAIN wire' /\ wire'[i - 1] = wire[i])
    BY <1>3
  <2> QED
    BY <2>1 DEF Sent
<1>8. \A i \in DOMAIN replies' : i \in DOMAIN replies \/ i = Len(replies) + 1
  BY <1>4
<1>9. Said' = Said \cup {s}
  BY <1>4, <1>8 DEF Said
<1>10. \A i \in DOMAIN replies : i \in DOMAIN replies' /\ replies'[i] = replies[i]
  BY <1>4
<1> QED
  BY <1>1, <1>3, <1>4, <1>5, <1>6, <1>9, <1>10, <1>7 DEF s

\* ... and an answer reaches who waits for it, or nobody.
LEMMA DeliverIs ==
  ASSUME Types, Mail, Deliver
  PROVE  \E s \in Said :
         /\ s \in ReplySet /\ s.to \in Askers /\ Said' = Said \ {s} /\ replies' \in Seq(ReplySet)
         /\ \A t \in Said' : t.to # s.to
         /\ \A i \in DOMAIN replies' : i + 1 \in DOMAIN replies /\ i \in Nat /\ replies'[i] = replies[i + 1]
         /\ \/ /\ asker[s.to].at = "waits" /\ asker'[s.to].at = "answered"
               /\ asker'[s.to].ok = s.ok /\ asker'[s.to].refused = s.refused
            \/ Ended(s.to) /\ asker'[s.to] = asker[s.to]
         /\ \A k \in Askers : /\ k # s.to => asker'[k] = asker[k]
                              /\ asker'[k].todo = asker[k].todo /\ asker'[k].add = asker[k].add
                              /\ asker'[k].remove = asker[k].remove
         /\ asker' \in [Askers -> Asking]
         /\ UNCHANGED <<declared, timer, updates, recorded, link, wire, losses, engine,
                        unasked, unresumed, kept, raced>>
<1>1. /\ replies # <<>> /\ replies' = Tail(replies) /\ replies \in Seq(ReplySet)
      /\ UNCHANGED <<declared, timer, updates, recorded, link, wire, losses, engine,
                     unasked, unresumed, kept, raced>>
  BY DEF Deliver, Types, ReplyT, window, ghosts
<1>2. /\ replies' \in Seq(ReplySet) /\ Len(replies) >= 1 /\ Len(replies) \in Nat
      /\ DOMAIN replies' = 1..(Len(replies) - 1) /\ DOMAIN replies = 1..Len(replies)
      /\ \A i \in 1..(Len(replies) - 1) : replies'[i] = replies[i + 1]
      /\ Head(replies) = replies[1]
  BY <1>1
<1> DEFINE s == replies[1]
<1>3. 1 \in DOMAIN replies /\ s \in ReplySet /\ s \in Said
  BY <1>1, <1>2 DEF Said
<1>4. \A i \in DOMAIN replies' : /\ i + 1 \in DOMAIN replies /\ replies'[i] = replies[i + 1] /\ i + 1 # 1
                                 /\ i \in Nat
  BY <1>2
<1>5. \A i \in DOMAIN replies : i = 1 \/ (i - 1 \in DOMAIN replies' /\ replies'[i - 1] = replies[i])
  BY <1>2
<1>6. \A t \in Said' : t \in Said /\ t.to # s.to
  BY <1>3, <1>4 DEF Said, Mail, Apart
<1>7. \A t \in Said : t = s \/ t \in Said'
  BY <1>5 DEF Said
<1>8. /\ s.to \in Askers /\ s.ok \in BOOLEAN /\ s.refused \in SUBSET Entries
      /\ Ended(s.to) \/ asker[s.to].at = "waits"
  BY <1>3 DEF ReplySet, Mail, SaidOK
<1>9. asker' = [asker EXCEPT ![s.to] = IF @.at # "waits" THEN @
                  ELSE [@ EXCEPT !.at = "answered", !.ok = s.ok, !.refused = s.refused]]
  BY <1>2 DEF Deliver
<1> HIDE DEF s
<1>10. \A k \in Askers : asker[k] \in Asking
  BY DEF Types, AskerT
<1>11. CASE asker[s.to].at = "waits"
  <2>1. /\ asker'[s.to] = [asker[s.to] EXCEPT !.at = "answered", !.ok = s.ok, !.refused = s.refused]
        /\ \A k \in Askers : k # s.to => asker'[k] = asker[k]
    BY <1>8, <1>9, <1>11 DEF Types, AskerT
  <2>2. /\ asker'[s.to].at = "answered" /\ asker'[s.to].ok = s.ok /\ asker'[s.to].refused = s.refused
        /\ asker'[s.to].todo = asker[s.to].todo /\ asker'[s.to].add = asker[s.to].add
        /\ asker'[s.to].remove = asker[s.to].remove /\ asker'[s.to] \in Asking
    <3>1. asker[s.to] \in Asking
      BY <1>8, <1>10
    <3> QED
      BY <1>8, <2>1, <3>1 DEF Asking
  <2>3. asker' \in [Askers -> Asking]
    BY <1>8, <1>9, <1>10, <2>1, <2>2 DEF Types, AskerT
  <2> QED
    <3>1. \A k \in Askers : /\ asker'[k].todo = asker[k].todo /\ asker'[k].add = asker[k].add
                            /\ asker'[k].remove = asker[k].remove
      BY <2>1, <2>2
    <3>2. Said' = Said \ {s} /\ \A t \in Said' : t.to # s.to
      BY <1>6, <1>7
    <3> QED
      BY <1>1, <1>2, <1>3, <1>4, <1>8, <1>11, <2>1, <2>2, <2>3, <3>1, <3>2
<1>12. CASE asker[s.to].at # "waits"
  <2>1. Ended(s.to) /\ asker' = asker
    BY <1>8, <1>9, <1>12 DEF Types, AskerT
  <2> QED
    BY <1>1, <1>2, <1>3, <1>4, <1>6, <1>7, <1>8, <2>1 DEF Types, AskerT
<1> QED
  BY <1>11, <1>12
-----------------------------------------------------------------------------
LEMMA InitStruct == RequestsInit => StructInv
<1> SUFFICES ASSUME RequestsInit PROVE StructInv
  OBVIOUS
<1>1. Idle \in Asking /\ NoDelta \in Deltas /\ <<>> \in Seq(RequestSet) /\ <<>> \in Seq(ReplySet)
  BY DEF Idle, Asking, Todos, NoDelta, Deltas
<1>2. WindowT /\ LinkT /\ WireT /\ ReplyT /\ AskerT
  BY <1>1, BoundsAreNumbers DEF RequestsInit, WindowT, LinkT, WireT, ReplyT, AskerT, NoDelta
<1>3. Types
  BY <1>2 DEF RequestsInit, Types, EngineT, NewEngine
<1>4. Mail
  BY DEF RequestsInit, Mail, Sent, Said, Apart
<1>5. OneCall
  BY AskersAre DEF RequestsInit, OneCall, Touches, Idle
<1>6. Registered
  BY DEF RequestsInit, Registered
<1>7. /\ \A k \in Calls : CallOK(k)
      /\ \A k \in Resumes : ResumeOK(k)
  BY AskersAre DEF RequestsInit, CallOK, ResumeOK
<1> QED
  BY <1>3, <1>4, <1>5, <1>6, <1>7 DEF StructInv

LEMMA MessagesAre ==
  ASSUME StructInv
  PROVE  /\ \A r \in Sent : r \in RequestSet /\ r.from \in Askers
         /\ \A s \in Said : s \in ReplySet /\ s.to \in Askers /\ s.ok \in BOOLEAN /\ s.refused \in SUBSET Entries
<1>1. /\ \A i \in DOMAIN wire : wire[i] \in RequestSet
      /\ \A i \in DOMAIN replies : replies[i] \in ReplySet
  BY DEF StructInv, Types, WireT, ReplyT
<1>2. /\ \A r \in Sent : r \in RequestSet
      /\ \A s \in Said : s \in ReplySet
  BY <1>1 DEF Sent, Said
<1> QED
  BY <1>2 DEF RequestSet, ReplySet

\* Who has something on its way waits: the others change without it.
LEMMA MailKept ==
  ASSUME StructInv, NEW k \in Askers, asker[k].at # "waits", ~Ended(k),
         \A j \in Askers \ {k} : asker'[j] = asker[j],
         timer' = timer \/ timer' = NoDelta,
         UNCHANGED <<updates, wire, replies, link>>
  PROVE  Mail'
<1>1. Sent' = Sent /\ Said' = Said /\ wire' = wire /\ replies' = replies /\ link' = link
  BY DEF Sent, Said
<1>2. /\ \A r \in Sent : r \in RequestSet /\ SentOK(r)
      /\ \A s \in Said : s \in ReplySet /\ SaidOK(s)
  BY MessagesAre DEF StructInv, Mail
<1>3. \A r \in Sent : r.from \in Askers /\ asker'[r.from] = asker[r.from]
  BY <1>2 DEF RequestSet, SentOK
<1>4. \A s \in Said : s.to \in Askers /\ asker'[s.to] = asker[s.to]
  BY <1>2 DEF ReplySet, SaidOK
<1>5. \A j \in Askers : Ended(j) /\ asker'[j] = asker[j] => Ended(j)'
  BY DEF Ended
<1>6. /\ \A r \in Sent' : SentOK(r)'
      /\ \A s \in Said' : SaidOK(s)'
  BY <1>1, <1>2, <1>3, <1>4, <1>5 DEF SentOK, SaidOK, Unwatches
<1>7. Apart'
  BY <1>1 DEF StructInv, Mail, Apart
<1> QED
  BY <1>1, <1>6, <1>7 DEF StructInv, Mail

\* Who sends a request waits for its answer.
LEMMA MailSent ==
  ASSUME StructInv, NEW k \in Askers, asker[k].at \notin {"waits", "idle"},
         NEW request \in RequestSet, Sends(k, request), request.from = k,
         request.kind = Head(asker[k].todo),
         k \in Calls => request.paths = IF request.kind = "unwatch" THEN asker[k].remove ELSE asker[k].add,
         UNCHANGED window
  PROVE  Mail'
<1>1. /\ Sent' \subseteq Sent \cup {request} /\ replies' = replies /\ Said' = Said /\ link' = link
      /\ asker' = [asker EXCEPT ![k].at = "waits"]
      /\ DOMAIN wire = 1..Len(wire) /\ Len(wire) \in Nat
      /\ \A i \in DOMAIN wire : wire'[i] = wire[i]
      /\ link = "up" => DOMAIN wire' = 1..(Len(wire) + 1) /\ wire'[Len(wire) + 1] = request
      /\ link # "up" => wire' = wire
      /\ timer' = timer /\ updates' = updates
  BY SendsIs DEF StructInv, Types, window
<1>2. /\ \A r \in Sent : r.from \in Askers /\ r.from # k /\ SentOK(r)
      /\ \A s \in Said : s.to \in Askers /\ s.to # k /\ SaidOK(s)
  BY MessagesAre, IdleIs DEF StructInv, Mail, SentOK, SaidOK, Ended
<1>3. /\ asker'[k] = [asker[k] EXCEPT !.at = "waits"]
      /\ \A j \in Askers \ {k} : asker'[j] = asker[j]
      /\ asker[k] \in Asking
  BY <1>1 DEF StructInv, Types, AskerT
<1>4. /\ asker'[k].at = "waits" /\ asker'[k].todo = asker[k].todo
      /\ asker'[k].add = asker[k].add /\ asker'[k].remove = asker[k].remove
  BY <1>3 DEF Asking
<1>5. \A j \in Askers \ {k} : Ended(j) => Ended(j)'
  BY <1>1, <1>3 DEF Ended
<1>6. \A s \in Said' : SaidOK(s)'
  BY <1>1, <1>2, <1>3, <1>5 DEF SaidOK, Unwatches
<1>7. \A r \in Sent : SentOK(r)'
  BY <1>2, <1>3, <1>5 DEF SentOK
<1>8. SentOK(request)'
  BY <1>4 DEF SentOK
<1>9. \A i \in DOMAIN wire : wire[i].from # k
  BY <1>2 DEF Sent
<1>10. \A i, j \in DOMAIN wire' : wire'[i].from = wire'[j].from => i = j
  <2> SUFFICES ASSUME NEW i \in DOMAIN wire', NEW j \in DOMAIN wire', wire'[i].from = wire'[j].from
               PROVE  i = j
    OBVIOUS
  <2>1. /\ i \in DOMAIN wire \/ (i = Len(wire) + 1 /\ wire'[i] = request)
        /\ j \in DOMAIN wire \/ (j = Len(wire) + 1 /\ wire'[j] = request)
    BY <1>1
  <2> QED
    BY <1>1, <1>9, <2>1 DEF StructInv, Mail, Apart
<1>11. Apart'
  BY <1>1, <1>2, <1>10 DEF StructInv, Mail, Apart
<1>12. link' = "down" => wire' = <<>> /\ replies' = <<>>
  BY <1>1 DEF StructInv, Mail
<1> QED
  BY <1>1, <1>6, <1>7, <1>8, <1>11, <1>12 DEF Mail

\* What an asker that is about something has left to do.
LEMMA TasksAre ==
  ASSUME StructInv
  PROVE  /\ \A k \in Calls : /\ asker[k].at # "idle" => asker[k].todo \in {U, UW, W}
                             /\ asker[k].at = "idle" => asker[k] = Idle
         /\ \A k \in Resumes : /\ asker[k].at # "idle" => asker[k].todo \in {RW, W}
                               /\ asker[k].add = {} /\ asker[k].remove = {}
                               /\ asker[k].at = "idle" => asker[k] = Idle
<1>1. Idle.at = "idle" /\ Idle.add = {} /\ Idle.remove = {}
  BY DEF Idle
<1>2. /\ \A k \in Calls : CallOK(k)
      /\ \A k \in Resumes : ResumeOK(k)
  BY DEF StructInv
<1> QED
  BY <1>1, <1>2 DEF CallOK, ResumeOK

\* One asker sends the request it is at, ...
LEMMA SendingStruct ==
  ASSUME StructInv, NEW k \in Askers, asker[k].at = "asks",
         NEW request \in RequestSet, Sends(k, request), request.from = k,
         request.kind = Head(asker[k].todo),
         k \in Calls => request.paths = IF request.kind = "unwatch" THEN asker[k].remove ELSE asker[k].add,
         UNCHANGED <<window, recorded, engine, raced>>
  PROVE  StructInv'
<1>1. /\ declared' = declared /\ timer' = timer /\ updates' = updates /\ recorded' = recorded
      /\ engine' = engine /\ raced' = raced
      /\ wire' \in Seq(RequestSet) /\ replies' = replies /\ link' = link /\ losses' = losses
      /\ Latest' = Latest /\ Said' = Said /\ asker' = [asker EXCEPT ![k].at = "waits"]
  BY SendsIs DEF window, StructInv, Types, Latest
<1>2. /\ asker'[k] = [asker[k] EXCEPT !.at = "waits"]
      /\ \A j \in Askers \ {k} : asker'[j] = asker[j]
      /\ asker[k] \in Asking
  BY <1>1 DEF StructInv, Types, AskerT
<1>3. /\ asker'[k].at = "waits" /\ asker'[k].todo = asker[k].todo
      /\ asker'[k].add = asker[k].add /\ asker'[k].remove = asker[k].remove
  BY <1>2 DEF Asking
<1>4. Types'
  <2>1. AskerT'
    BY <1>1 DEF StructInv, Types, AskerT, Asking
  <2> QED
    BY <1>1, <2>1 DEF StructInv, Types, WindowT, LinkT, WireT, ReplyT, EngineT
<1>5. Mail'
  BY MailSent
<1>6. \A j \in Askers : /\ asker'[j].todo = asker[j].todo /\ asker'[j].add = asker[j].add
                        /\ asker'[j].remove = asker[j].remove
                        /\ asker'[j].at = "answered" => asker[j].at = "answered" /\ asker'[j] = asker[j]
  BY <1>2, <1>3
<1>7. Registered'
  BY <1>1, <1>6, AskersAre DEF StructInv, Types, Registered
<1>8. OneCall'
  BY <1>1, <1>6, AskersAre DEF StructInv, OneCall, Touches
<1>9. ASSUME NEW j \in Calls PROVE CallOK(j)'
  <2>1. CASE j = k
    BY <1>1, <1>3, <2>1 DEF StructInv, CallOK, Idle
  <2>2. CASE j # k
    BY <1>1, <1>2, <2>2, AskersAre DEF StructInv, CallOK
  <2> QED
    BY <2>1, <2>2
<1>10. ASSUME NEW j \in Resumes PROVE ResumeOK(j)'
  <2>1. CASE j = k
    BY <1>1, <1>3, <2>1 DEF StructInv, ResumeOK, Idle
  <2>2. CASE j # k
    BY <1>1, <1>2, <2>2, AskersAre DEF StructInv, ResumeOK
  <2> QED
    BY <2>1, <2>2
<1> QED
  BY <1>4, <1>5, <1>7, <1>8, <1>9, <1>10 DEF StructInv

\* ... or goes on without one, or ends.
LEMMA GoingOnStruct ==
  ASSUME StructInv, NEW k \in Askers, asker[k].at # "idle", NEW a \in Asking,
         asker' = [asker EXCEPT ![k] = a],
         \/ a = Idle
         \/ /\ a.at = "asks" /\ asker[k].at = "answered"
            /\ asker[k].todo = UW \/ (asker[k].todo = RW /\ asker[k].ok)
            /\ a.todo = W /\ a.add = asker[k].add /\ a.remove = asker[k].remove,
         recorded' \subseteq Entries,
         UNCHANGED <<window, connection, engine, raced>>
  PROVE  StructInv'
<1>1. /\ declared' = declared /\ timer' = timer /\ updates' = updates
      /\ engine' = engine /\ raced' = raced
      /\ wire' = wire /\ replies' = replies /\ link' = link /\ losses' = losses
      /\ Latest' = Latest /\ Said' = Said
  BY DEF window, connection, Latest, Said
<1>2. /\ asker'[k] = a /\ AskerT'
      /\ \A j \in Askers \ {k} : asker'[j] = asker[j]
  BY DEF StructInv, Types, AskerT
<1>3. Types'
  BY <1>1, <1>2 DEF StructInv, Types, WindowT, LinkT, WireT, ReplyT, EngineT
<1>4. Mail'
  <2>1. CASE a = Idle
    <3>1. Sent' = Sent
      BY <1>1 DEF Sent
    <3>2. Ended(k)'
      BY <1>1, <1>2, <2>1, IdleIs DEF StructInv, CallOK, Ended
    <3>3. \A j \in Askers \ {k} : Ended(j) => Ended(j)'
      BY <1>1, <1>2 DEF Ended
    <3>4. \A r \in Sent' : SentOK(r)'
      BY <1>2, <3>1, <3>2, <3>3, MessagesAre DEF StructInv, Mail, SentOK
    <3>5. \A s \in Said' : SaidOK(s)'
      BY <1>1, <1>2, <3>2, <3>3, MessagesAre DEF StructInv, Mail, SaidOK, Unwatches
    <3>6. Apart'
      BY <1>1, <3>1 DEF StructInv, Mail, Apart
    <3> QED
      BY <1>1, <3>4, <3>5, <3>6 DEF StructInv, Mail
  <2>2. CASE a # Idle
    BY <1>1, <1>2, <2>2, IdleIs, MailKept DEF Ended
  <2> QED
    BY <2>1, <2>2
<1>5. Idle.at = "idle" /\ Idle.todo = <<>> /\ Idle.add = {} /\ Idle.remove = {} /\ <<>> # W
  BY TodoIs DEF Idle
<1>6. Registered'
  BY <1>1, <1>2, <1>5, AskersAre, TasksAre, TodoIs DEF StructInv, Types, Registered
<1>7. OneCall'
  <2>1. \A j \in Calls : Touches(j)' \subseteq Touches(j)
    BY <1>2, <1>5, AskersAre DEF Touches
  <2> QED
    BY <1>1, <2>1 DEF StructInv, OneCall
<1>8. ASSUME NEW j \in Calls PROVE CallOK(j)'
  <2>1. CASE j = k
    <3>1. CASE a = Idle
      BY <1>2, <2>1, <3>1 DEF CallOK
    <3>2. CASE a # Idle
      <4>1. CallOK(k) /\ asker[k] # Idle
        BY <1>5, <2>1, <3>2 DEF StructInv
      <4> QED
        BY <1>1, <1>2, <2>1, <3>2, <4>1, AskersAre, TodoIs DEF CallOK
    <3> QED
      BY <3>1, <3>2
  <2>2. CASE j # k
    BY <1>1, <1>2, <2>2, AskersAre DEF StructInv, CallOK
  <2> QED
    BY <2>1, <2>2
<1>9. ASSUME NEW j \in Resumes PROVE ResumeOK(j)'
  <2>1. CASE j = k
    <3>1. CASE a = Idle
      BY <1>2, <2>1, <3>1 DEF ResumeOK
    <3>2. CASE a # Idle
      <4>1. ResumeOK(k) /\ asker[k] # Idle
        BY <1>5, <2>1, <3>2 DEF StructInv
      <4> QED
        BY <1>1, <1>2, <2>1, <3>2, <4>1, AskersAre, TodoIs DEF ResumeOK
    <3> QED
      BY <3>1, <3>2
  <2>2. CASE j # k
    BY <1>1, <1>2, <2>2, AskersAre DEF StructInv, ResumeOK
  <2> QED
    BY <2>1, <2>2
<1> QED
  BY <1>3, <1>4, <1>6, <1>7, <1>8, <1>9 DEF StructInv

LEMMA UpdateStruct ==
  ASSUME StructInv, NEW next \in SUBSET Entries, Update(next)
  PROVE  StructInv'
<1>1. /\ declared' = next /\ timer' = Delta(declared, next) /\ updates' = updates + 1 /\ updates < MaxUpdates
      /\ UNCHANGED <<asker, recorded, link, wire, replies, losses, engine, raced>>
  BY DEF Update, connection
<1>2. WindowT'
  BY <1>1, BoundsAreNumbers DEF StructInv, Types, WindowT, Delta, Deltas
<1>3. Types'
  BY <1>1, <1>2 DEF StructInv, Types, AskerT, LinkT, WireT, ReplyT, EngineT
<1>4. Mail'
  <2>1. \A k \in Askers : Ended(k) => Ended(k)'
    BY <1>1, AskersAre DEF StructInv, Types, WindowT, Ended
  <2> QED
    BY <1>1, <2>1, MessagesAre DEF StructInv, Mail, Sent, Said, SentOK, SaidOK, Apart, Unwatches
<1>5. Registered' /\ OneCall'
  BY <1>1 DEF StructInv, Registered, OneCall, Touches, Said, Latest
<1>6. \A k \in Calls : CallOK(k)'
  BY <1>1, AskersAre DEF StructInv, Types, WindowT, CallOK
<1>7. \A k \in Resumes : ResumeOK(k)'
  BY <1>1 DEF StructInv, ResumeOK, Latest
<1> QED
  BY <1>3, <1>4, <1>5, <1>6, <1>7 DEF StructInv

\* The call that is made was idle.
LEMMA FireIs ==
  ASSUME StructInv, Fire
  PROVE  /\ updates \in Calls /\ asker[updates] = Idle /\ timer' = NoDelta
         /\ \A k \in Askers \ {updates} : asker'[k] = asker[k]
         /\ asker' \in [Askers -> Asking]
         /\ asker'[updates].at = "asks"
         /\ asker'[updates].add = timer.add /\ asker'[updates].remove = timer.remove
         /\ \/ asker'[updates].todo = U /\ timer.add = {} /\ timer.remove # {}
            \/ asker'[updates].todo = UW /\ timer.add # {} /\ timer.remove # {}
            \/ asker'[updates].todo = W /\ timer.add # {} /\ timer.remove = {}
         /\ raced' = raced \cup ((timer.add \cup timer.remove) \cap UNION {Touches(k) : k \in Busy \cap Calls})
         /\ UNCHANGED <<declared, updates, recorded, link, wire, replies, losses, engine, unasked, unresumed, kept>>
<1>1. /\ timer # NoDelta /\ timer' = NoDelta
      /\ asker' = [asker EXCEPT ![updates] = [Idle EXCEPT !.at = "asks", !.todo = Steps(timer),
                                                !.add = timer.add, !.remove = timer.remove]]
      /\ raced' = raced \cup ((timer.add \cup timer.remove) \cap UNION {Touches(k) : k \in Busy \cap Calls})
      /\ UNCHANGED <<declared, updates, recorded, link, wire, replies, losses, engine, unasked, unresumed, kept>>
  BY DEF Fire, connection
<1>2. updates \in Calls
  BY <1>1, AskersAre DEF StructInv, Types, WindowT
<1>3. asker[updates] = Idle
  BY <1>1, <1>2 DEF StructInv, CallOK
<1> DEFINE a == [Idle EXCEPT !.at = "asks", !.todo = Steps(timer), !.add = timer.add, !.remove = timer.remove]
<1>4. timer \in Deltas
  BY DEF StructInv, Types, WindowT
<1>5. a.at = "asks" /\ a.todo = Steps(timer) /\ a.add = timer.add /\ a.remove = timer.remove
  BY DEF Idle
<1>6. a \in Asking
  BY <1>1, <1>4, StepsAre DEF Asking, Idle, Todos, Deltas
<1> HIDE DEF a
<1>7. /\ asker'[updates] = a /\ asker' \in [Askers -> Asking]
      /\ \A k \in Askers \ {updates} : asker'[k] = asker[k]
  BY <1>1, <1>2, <1>6, AskersAre DEF a, StructInv, Types, AskerT
<1> QED
  BY <1>1, <1>2, <1>3, <1>4, <1>5, <1>7, StepsAre

LEMMA FireStruct ==
  ASSUME StructInv, Fire
  PROVE  StructInv'
<1>1. /\ updates \in Calls /\ updates \in Askers /\ asker[updates] = Idle /\ timer' = NoDelta
      /\ \A k \in Askers \ {updates} : asker'[k] = asker[k]
      /\ asker' \in [Askers -> Asking]
      /\ asker'[updates].at = "asks"
      /\ asker'[updates].add = timer.add /\ asker'[updates].remove = timer.remove
      /\ raced' = raced \cup ((timer.add \cup timer.remove) \cap UNION {Touches(k) : k \in Busy \cap Calls})
      /\ UNCHANGED <<declared, updates, recorded, link, wire, replies, losses, engine, unasked, unresumed, kept>>
  BY FireIs, AskersAre
<1>2. Types'
  BY <1>1 DEF StructInv, Types, WindowT, AskerT, LinkT, WireT, ReplyT, EngineT, NoDelta, Deltas
<1>3. Idle.at = "idle" /\ Idle.add = {} /\ Idle.remove = {} /\ ~Ended(updates)
  BY <1>1 DEF Idle, Ended, Fire
<1>4. Mail'
  BY <1>1, <1>3, MailKept
<1>5. Registered'
  BY <1>1, AskersAre DEF StructInv, Types, Registered, Latest, Said
<1>6. OneCall'
  <2> SUFFICES ASSUME NEW p \in Entries \ raced', NEW j \in Calls, NEW k \in Calls,
                      p \in Touches(j)', p \in Touches(k)'
               PROVE  j = k
    BY DEF OneCall
  <2>1. /\ Touches(updates)' = timer.add \cup timer.remove
        /\ \A l \in Calls \ {updates} : Touches(l)' = Touches(l)
    BY <1>1, AskersAre DEF Touches
  <2>2. \A l \in Calls : p \in Touches(l) => l \in Busy
    BY <1>3, AskersAre, TasksAre DEF Touches, Busy
  <2>3. \A l \in Calls : p \in Touches(l) => p \notin timer.add \cup timer.remove
    BY <1>1, <2>2
  <2> QED
    BY <1>1, <2>1, <2>3 DEF StructInv, OneCall
<1>7. ASSUME NEW k \in Calls PROVE CallOK(k)'
  <2>1. CASE k = updates
    BY <1>1, <2>1, FireIs, AskersAre DEF CallOK, StructInv, Types, WindowT, Deltas
  <2>2. CASE k # updates
    BY <1>1, <2>2, AskersAre DEF CallOK, StructInv
  <2> QED
    BY <2>1, <2>2
<1>8. \A k \in Resumes : ResumeOK(k)'
  BY <1>1, AskersAre DEF StructInv, ResumeOK, Latest
<1> QED
  BY <1>2, <1>4, <1>5, <1>6, <1>7, <1>8 DEF StructInv

LEMMA DeliverStruct ==
  ASSUME StructInv, Deliver
  PROVE  StructInv'
<1>1. PICK s \in Said :
         /\ s \in ReplySet /\ s.to \in Askers /\ Said' = Said \ {s} /\ replies' \in Seq(ReplySet)
         /\ \A t \in Said' : t.to # s.to
         /\ \A i \in DOMAIN replies' : i + 1 \in DOMAIN replies /\ i \in Nat /\ replies'[i] = replies[i + 1]
         /\ \/ /\ asker[s.to].at = "waits" /\ asker'[s.to].at = "answered"
               /\ asker'[s.to].ok = s.ok /\ asker'[s.to].refused = s.refused
            \/ Ended(s.to) /\ asker'[s.to] = asker[s.to]
         /\ \A k \in Askers : /\ k # s.to => asker'[k] = asker[k]
                              /\ asker'[k].todo = asker[k].todo /\ asker'[k].add = asker[k].add
                              /\ asker'[k].remove = asker[k].remove
         /\ asker' \in [Askers -> Asking]
         /\ UNCHANGED <<declared, timer, updates, recorded, link, wire, losses, engine,
                        unasked, unresumed, kept, raced>>
  BY DeliverIs DEF StructInv
<1>2. Sent' = Sent /\ Latest' = Latest
  BY <1>1 DEF Sent, Latest
<1>3. Types'
  BY <1>1 DEF StructInv, Types, WindowT, AskerT, LinkT, WireT, ReplyT, EngineT
<1>4. \A j \in Askers : Ended(j) /\ asker'[j] = asker[j] => Ended(j)'
  BY <1>1 DEF Ended
<1>5. \A r \in Sent' : SentOK(r)'
  <2> SUFFICES ASSUME NEW r \in Sent PROVE SentOK(r)'
    BY <1>2
  <2>1. r.from # s.to /\ r.from \in Askers /\ SentOK(r)
    BY MessagesAre DEF StructInv, Mail, Apart
  <2>2. asker'[r.from] = asker[r.from]
    BY <1>1, <2>1
  <2> QED
    BY <1>4, <2>1, <2>2 DEF SentOK
<1>6. \A t \in Said' : SaidOK(t)'
  <2> SUFFICES ASSUME NEW t \in Said' PROVE SaidOK(t)'
    OBVIOUS
  <2>1. t \in Said /\ t.to # s.to /\ t.to \in Askers /\ SaidOK(t)
    BY <1>1, MessagesAre DEF StructInv, Mail
  <2>2. asker'[t.to] = asker[t.to]
    BY <1>1, <2>1
  <2> QED
    BY <1>4, <2>1, <2>2 DEF SaidOK, Unwatches
<1>7. Apart'
  <2>1. \A i, j \in DOMAIN replies' : replies'[i].to = replies'[j].to => i = j
    <3> SUFFICES ASSUME NEW i \in DOMAIN replies', NEW j \in DOMAIN replies', replies'[i].to = replies'[j].to
                 PROVE  i = j
      OBVIOUS
    <3>1. /\ i + 1 \in DOMAIN replies /\ j + 1 \in DOMAIN replies /\ i \in Nat /\ j \in Nat
          /\ replies[i + 1].to = replies[j + 1].to
      BY <1>1
    <3>2. i + 1 = j + 1
      BY <3>1 DEF StructInv, Mail, Apart
    <3> QED
      BY <3>1, <3>2
  <2> QED
    BY <1>1, <1>2, <2>1 DEF StructInv, Mail, Apart
<1>8. link' = "down" => wire' = <<>> /\ replies' = <<>>
  <2>1. replies # <<>>
    BY DEF Deliver
  <2> QED
    BY <1>1, <2>1 DEF StructInv, Mail
<1>9. Mail'
  BY <1>5, <1>6, <1>7, <1>8 DEF Mail
<1>10. Registered'
  BY <1>1, <1>2, AskersAre DEF StructInv, Types, Registered
<1>11. OneCall'
  BY <1>1, AskersAre DEF StructInv, OneCall, Touches
<1>12. ASSUME NEW j \in Calls PROVE CallOK(j)'
  <2>1. CASE j = s.to /\ asker[j].at = "waits" /\ asker'[j].at = "answered"
    BY <1>1, <2>1, AskersAre, IdleIs DEF StructInv, CallOK
  <2>2. CASE asker'[j] = asker[j]
    BY <1>1, <2>2 DEF StructInv, CallOK
  <2> QED
    BY <1>1, <2>1, <2>2, AskersAre
<1>13. ASSUME NEW j \in Resumes PROVE ResumeOK(j)'
  <2>1. CASE j = s.to /\ asker[j].at = "waits" /\ asker'[j].at = "answered"
    BY <1>1, <1>2, <2>1, AskersAre, IdleIs DEF StructInv, ResumeOK
  <2>2. CASE asker'[j] = asker[j]
    BY <1>1, <1>2, <2>2 DEF StructInv, ResumeOK
  <2> QED
    BY <1>1, <2>1, <2>2, AskersAre
<1> QED
  BY <1>3, <1>9, <1>10, <1>11, <1>12, <1>13 DEF StructInv

\* A request is served: it succeeds for a workspace that the engine knows.
LEMMA ServingStruct ==
  ASSUME StructInv, wire # <<>>, NEW ok \in BOOLEAN, NEW refused \in SUBSET Entries,
         Answers(wire[1].from, ok, refused), EngineT',
         engine.registered => engine'.registered,
         wire[1].kind = "unwatch" => refused = {},
         ok => engine'.registered
  PROVE  StructInv'
<1>1. PICK k \in Askers : k = wire[1].from /\ wire[1] \in Sent /\ SentOK(wire[1])
  <2>1. 1 \in DOMAIN wire
    BY DEF StructInv, Types, WireT
  <2> QED
    BY <2>1, MessagesAre DEF Sent, StructInv, Mail
<1> DEFINE s == [to |-> k, ok |-> ok, refused |-> refused]
<1>2. /\ wire' \in Seq(RequestSet) /\ Sent' \subseteq Sent
      /\ DOMAIN wire' = 1..(Len(wire) - 1) /\ DOMAIN wire = 1..Len(wire) /\ Len(wire) \in Nat
      /\ \A i \in DOMAIN wire' : i + 1 \in DOMAIN wire /\ wire'[i] = wire[i + 1]
      /\ replies' \in Seq(ReplySet)
      /\ Said' = Said \cup {s}
      /\ DOMAIN replies' = 1..(Len(replies) + 1) /\ DOMAIN replies = 1..Len(replies) /\ Len(replies) \in Nat
      /\ replies'[Len(replies) + 1].to = k
      /\ \A i \in DOMAIN replies : i \in DOMAIN replies' /\ replies'[i] = replies[i]
      /\ UNCHANGED <<declared, timer, updates, asker, recorded, link, losses, unasked, unresumed, raced>>
  BY <1>1, AnswersIs DEF StructInv
<1>3. s.to = k /\ s.ok = ok /\ s.refused = refused
  OBVIOUS
<1> HIDE DEF s
<1>4. Types'
  BY <1>2 DEF StructInv, Types, WindowT, AskerT, LinkT, WireT, ReplyT, EngineT
<1>5. \A r \in Sent' : SentOK(r)'
  BY <1>2 DEF StructInv, Mail, SentOK, Ended
<1>6. Unwatches(k) => wire[1].kind = "unwatch"
  BY <1>1, TodoIs, IdleIs DEF SentOK, Unwatches, Ended
<1>7. \A t \in Said' : SaidOK(t)'
  BY <1>1, <1>2, <1>3, <1>6 DEF StructInv, Mail, SaidOK, SentOK, Unwatches, Ended
<1>8. \A r \in Sent' : r.from # k
  <2> SUFFICES ASSUME NEW i \in DOMAIN wire' PROVE wire'[i].from # k
    BY DEF Sent
  <2>1. i + 1 \in DOMAIN wire /\ wire'[i] = wire[i + 1] /\ i + 1 # 1 /\ 1 \in DOMAIN wire
    BY <1>2
  <2> QED
    BY <1>1, <2>1 DEF StructInv, Mail, Apart
<1>9. \A t \in Said : t.to # k
  BY <1>1 DEF StructInv, Mail, Apart
<1>10. \A i, j \in DOMAIN wire' : wire'[i].from = wire'[j].from => i = j
  <2> SUFFICES ASSUME NEW i \in DOMAIN wire', NEW j \in DOMAIN wire', wire'[i].from = wire'[j].from
               PROVE  i = j
    OBVIOUS
  <2>1. /\ i + 1 \in DOMAIN wire /\ j + 1 \in DOMAIN wire /\ i \in Nat /\ j \in Nat
        /\ wire[i + 1].from = wire[j + 1].from
    BY <1>2
  <2> QED
    BY <2>1 DEF StructInv, Mail, Apart
<1>11. \A i, j \in DOMAIN replies' : replies'[i].to = replies'[j].to => i = j
  <2> SUFFICES ASSUME NEW i \in DOMAIN replies', NEW j \in DOMAIN replies', replies'[i].to = replies'[j].to
               PROVE  i = j
    OBVIOUS
  <2>1. (i \in DOMAIN replies \/ i = Len(replies) + 1) /\ (j \in DOMAIN replies \/ j = Len(replies) + 1)
    BY <1>2
  <2>2. \A l \in DOMAIN replies : replies[l].to # k
    BY <1>9 DEF Said
  <2> QED
    BY <1>2, <2>1, <2>2 DEF StructInv, Mail, Apart
<1>12. Apart'
  BY <1>2, <1>3, <1>8, <1>10, <1>11 DEF StructInv, Mail, Apart
<1>13. link # "down"
  BY DEF StructInv, Mail
<1>14. Mail'
  BY <1>2, <1>5, <1>7, <1>12, <1>13 DEF Mail
<1>15. Registered'
  BY <1>2, <1>3 DEF StructInv, Registered, Latest
<1>16. OneCall' /\ (\A j \in Calls : CallOK(j)') /\ (\A j \in Resumes : ResumeOK(j)')
  BY <1>2 DEF StructInv, OneCall, Touches, CallOK, ResumeOK, Latest
<1> QED
  BY <1>4, <1>14, <1>15, <1>16 DEF StructInv

LEMMA ServeRegisterIs ==
  ASSUME StructInv, ServeRegister
  PROVE  /\ wire # <<>> /\ wire[1].kind = "register" /\ EngineT' /\ engine'.reasons = engine.reasons
         /\ kept' = kept /\ (engine.registered => engine'.registered)
         /\ \E ok \in BOOLEAN : Answers(wire[1].from, ok, {}) /\ (ok => engine'.registered)
<1>1. PICK r \in {wire[i] : i \in {1} \cap DOMAIN wire} :
        /\ r.kind = "register" /\ kept' = kept
        /\ \/ engine' = [engine EXCEPT !.registered = TRUE] /\ Answers(r.from, TRUE, {})
           \/ Answers(r.from, FALSE, {}) /\ UNCHANGED engine
  BY DEF ServeRegister
<1>2. r = wire[1] /\ wire # <<>>
  BY <1>1
<1>3. CASE engine' = [engine EXCEPT !.registered = TRUE] /\ Answers(r.from, TRUE, {})
  BY <1>1, <1>2, <1>3 DEF StructInv, Types, EngineT
<1>4. CASE Answers(r.from, FALSE, {}) /\ UNCHANGED engine
  BY <1>1, <1>2, <1>4 DEF StructInv, Types, EngineT
<1> QED
  BY <1>1, <1>3, <1>4

LEMMA ServeRegisterStruct ==
  ASSUME StructInv, ServeRegister
  PROVE  StructInv'
<1>1. PICK ok \in BOOLEAN : Answers(wire[1].from, ok, {}) /\ (ok => engine'.registered)
  BY ServeRegisterIs
<1>2. /\ wire # <<>> /\ wire[1].kind # "unwatch" /\ EngineT' /\ (engine.registered => engine'.registered)
      /\ {} \in SUBSET Entries
  BY ServeRegisterIs
<1> QED
  BY <1>1, <1>2, ServingStruct

\* What the engine grants counts; it may refuse a path, and refuses all of a workspace
\* it does not know.
LEMMA ServeWatchIs ==
  ASSUME StructInv, ServeWatch
  PROVE  /\ wire # <<>> /\ wire[1].kind = "watch" /\ wire[1] \in RequestSet /\ wire[1] \in Sent
         /\ \E refused \in SUBSET Entries :
              /\ refused \subseteq wire[1].paths
              /\ engine'.registered = engine.registered /\ EngineT'
              /\ Answers(wire[1].from, engine.registered, refused)
              /\ \A p \in Entries : /\ p \in kept' <=> p \in kept \/ (engine.registered /\ p \in wire[1].paths
                                                                    /\ engine.reasons[p] > 0)
                                  /\ engine'.reasons[p] = IF engine.registered /\ p \in wire[1].paths \ refused
                                                          THEN engine.reasons[p] + 1 ELSE engine.reasons[p]
<1>1. PICK r \in {wire[i] : i \in {1} \cap DOMAIN wire} :
        /\ r.kind = "watch"
        /\ \/ /\ ~engine.registered /\ Answers(r.from, FALSE, {}) /\ UNCHANGED <<engine, kept>>
           \/ /\ engine.registered
              /\ \E refused \in {{}} \cup {{p} : p \in r.paths} :
                   /\ engine' = [engine EXCEPT !.reasons =
                                   [p \in Entries |-> IF p \in r.paths \ refused THEN @[p] + 1 ELSE @[p]]]
                   /\ kept' = kept \cup {p \in r.paths : engine.reasons[p] > 0}
                   /\ Answers(r.from, TRUE, refused)
  BY DEF ServeWatch
<1>2. r = wire[1] /\ 1 \in DOMAIN wire /\ wire[1] \in Sent /\ wire[1] \in RequestSet /\ wire # <<>>
  BY <1>1 DEF Sent, StructInv, Types, WireT
<1>3. wire[1].paths \in SUBSET Entries
  BY <1>2 DEF RequestSet
<1>4. EngineT /\ engine.registered \in BOOLEAN
  BY DEF StructInv, Types, EngineT
<1>5. ASSUME ~engine.registered, Answers(r.from, FALSE, {}), UNCHANGED <<engine, kept>>
      PROVE  \E refused \in SUBSET Entries :
              /\ refused \subseteq wire[1].paths
              /\ engine'.registered = engine.registered /\ EngineT'
              /\ Answers(wire[1].from, engine.registered, refused)
              /\ \A p \in Entries : /\ p \in kept' <=> p \in kept \/ (engine.registered /\ p \in wire[1].paths
                                                                    /\ engine.reasons[p] > 0)
                                  /\ engine'.reasons[p] = IF engine.registered /\ p \in wire[1].paths \ refused
                                                          THEN engine.reasons[p] + 1 ELSE engine.reasons[p]
  <2>1. engine.registered = FALSE
    BY <1>4, <1>5
  <2>2. /\ {} \in SUBSET Entries /\ {} \subseteq wire[1].paths /\ Answers(wire[1].from, engine.registered, {})
        /\ engine' = engine /\ kept' = kept
    BY <1>2, <1>5, <2>1
  <2>3. EngineT'
    BY <1>4, <2>2 DEF EngineT
  <2> QED
    BY <1>5, <2>2, <2>3
<1>6. ASSUME engine.registered, NEW refused \in {{}} \cup {{p} : p \in r.paths},
             engine' = [engine EXCEPT !.reasons =
                          [p \in Entries |-> IF p \in r.paths \ refused THEN @[p] + 1 ELSE @[p]]],
             kept' = kept \cup {p \in r.paths : engine.reasons[p] > 0},
             Answers(r.from, TRUE, refused)
      PROVE  /\ refused \in SUBSET Entries /\ refused \subseteq wire[1].paths
             /\ engine'.registered = engine.registered /\ EngineT'
             /\ Answers(wire[1].from, engine.registered, refused)
             /\ \A p \in Entries : /\ p \in kept' <=> p \in kept \/ (engine.registered /\ p \in wire[1].paths
                                                                   /\ engine.reasons[p] > 0)
                                 /\ engine'.reasons[p] = IF engine.registered /\ p \in wire[1].paths \ refused
                                                         THEN engine.reasons[p] + 1 ELSE engine.reasons[p]
  <2>1. engine.registered = TRUE
    BY <1>4, <1>6
  <2>2. refused \in SUBSET Entries /\ refused \subseteq wire[1].paths
    BY <1>2, <1>3, <1>6
  <2>3. /\ engine'.registered = engine.registered /\ EngineT'
        /\ \A p \in Entries : engine'.reasons[p] = IF p \in wire[1].paths \ refused
                                                 THEN engine.reasons[p] + 1 ELSE engine.reasons[p]
    <3> DEFINE f == [p \in Entries |-> IF p \in wire[1].paths \ refused THEN engine.reasons[p] + 1
                                    ELSE engine.reasons[p]]
    <3>1. engine' = [engine EXCEPT !.reasons = f]
      BY <1>2, <1>6
    <3>2. engine.reasons \in [Entries -> Nat] /\ f \in [Entries -> Nat]
      BY <1>4 DEF EngineT
    <3> HIDE DEF f
    <3>3. engine'.reasons = f /\ engine'.registered = engine.registered /\ EngineT'
      BY <1>4, <3>1, <3>2 DEF EngineT
    <3> QED
      BY <3>3 DEF f
  <2>4. \A p \in Entries : p \in kept' <=> p \in kept \/ (p \in wire[1].paths /\ engine.reasons[p] > 0)
    BY <1>2, <1>6
  <2> QED
    BY <1>2, <1>6, <2>1, <2>2, <2>3, <2>4
<1> QED
  BY <1>1, <1>2, <1>5, <1>6

LEMMA ServeWatchStruct ==
  ASSUME StructInv, ServeWatch
  PROVE  StructInv'
<1>1. PICK refused \in SUBSET Entries :
        /\ wire # <<>> /\ wire[1].kind = "watch"
        /\ engine'.registered = engine.registered /\ EngineT'
        /\ Answers(wire[1].from, engine.registered, refused)
  BY ServeWatchIs
<1>2. engine.registered \in BOOLEAN /\ wire[1].kind # "unwatch"
  BY <1>1 DEF StructInv, Types, EngineT
<1> QED
  BY <1>1, <1>2, ServingStruct

LEMMA ServeUnwatchIs ==
  ASSUME StructInv, ServeUnwatch
  PROVE  /\ wire # <<>> /\ wire[1].kind = "unwatch" /\ wire[1] \in RequestSet /\ wire[1] \in Sent
         /\ engine.registered \in BOOLEAN /\ engine'.registered = engine.registered /\ EngineT'
         /\ Answers(wire[1].from, engine.registered, {}) /\ kept' = kept
         /\ \A p \in Entries :
              engine'.reasons[p] = IF engine.registered /\ p \in wire[1].paths /\ engine.reasons[p] > 0
                                   THEN engine.reasons[p] - 1 ELSE engine.reasons[p]
<1>1. PICK r \in {wire[i] : i \in {1} \cap DOMAIN wire} :
        /\ r.kind = "unwatch"
        /\ Answers(r.from, engine.registered, {})
        /\ engine' = IF ~engine.registered THEN engine
                     ELSE [engine EXCEPT !.reasons =
                             [p \in Entries |-> IF p \in r.paths /\ @[p] > 0 THEN @[p] - 1 ELSE @[p]]]
        /\ kept' = kept
  BY DEF ServeUnwatch
<1>2. r = wire[1] /\ 1 \in DOMAIN wire /\ wire[1] \in Sent /\ wire[1] \in RequestSet /\ wire # <<>>
  BY <1>1 DEF Sent, StructInv, Types, WireT
<1>3. EngineT /\ engine.registered \in BOOLEAN
  BY DEF StructInv, Types, EngineT
<1>4. /\ engine'.registered = engine.registered /\ EngineT'
      /\ \A p \in Entries :
           engine'.reasons[p] = IF engine.registered /\ p \in wire[1].paths /\ engine.reasons[p] > 0
                                THEN engine.reasons[p] - 1 ELSE engine.reasons[p]
  <2>1. CASE engine.registered
    <3> DEFINE f == [p \in Entries |-> IF p \in wire[1].paths /\ engine.reasons[p] > 0 THEN engine.reasons[p] - 1
                                    ELSE engine.reasons[p]]
    <3>1. engine' = [engine EXCEPT !.reasons = f]
      BY <1>1, <1>2, <2>1
    <3>2. engine.reasons \in [Entries -> Nat] /\ f \in [Entries -> Nat]
      BY <1>3 DEF EngineT
    <3> HIDE DEF f
    <3>3. engine'.reasons = f /\ engine'.registered = engine.registered /\ EngineT'
      BY <1>3, <3>1, <3>2 DEF EngineT
    <3> QED
      BY <2>1, <3>3 DEF f
  <2>2. CASE ~engine.registered
    BY <1>1, <1>2, <1>3, <2>2 DEF EngineT
  <2> QED
    BY <2>1, <2>2
<1> QED
  BY <1>1, <1>2, <1>3, <1>4

LEMMA ServeUnwatchStruct ==
  ASSUME StructInv, ServeUnwatch
  PROVE  StructInv'
BY ServeUnwatchIs, ServingStruct

\* The connection is lost: who waited has lost its answer.
LEMMA LoseIs ==
  ASSUME StructInv, Lose
  PROVE  /\ link = "up" /\ link' = "down" /\ losses' = losses + 1 /\ losses < MaxLosses
         /\ wire' = <<>> /\ replies' = <<>> /\ Sent' = {} /\ Said' = {}
         /\ AskerT' /\ EngineT'
         /\ \A k \in Askers :
              /\ asker'[k].todo = asker[k].todo /\ asker'[k].add = asker[k].add
              /\ asker'[k].remove = asker[k].remove
              /\ asker[k].at = "waits" => asker'[k].at = "answered" /\ asker'[k].ok = FALSE
              /\ asker[k].at # "waits" => asker'[k] = asker[k]
         /\ \A p \in Entries : engine'.reasons[p] = engine.reasons[p] \/ engine'.reasons[p] = 0
         /\ unresumed' = {} /\ UNCHANGED <<declared, timer, updates, recorded, unasked, kept, raced>>
<1>1. /\ link = "up" /\ link' = "down" /\ losses' = losses + 1 /\ losses < MaxLosses
      /\ wire' = <<>> /\ replies' = <<>>
      /\ asker' = [k \in Askers |-> IF asker[k].at = "waits"
                                    THEN [asker[k] EXCEPT !.at = "answered", !.ok = FALSE] ELSE asker[k]]
      /\ engine' \in {engine, NewEngine}
      /\ unresumed' = {} /\ UNCHANGED <<declared, timer, updates, recorded, unasked, kept, raced>>
  BY DEF Lose, window
<1>2. Sent' = {} /\ Said' = {}
  <2>1. \A i : i \notin DOMAIN <<>>
    OBVIOUS
  <2> QED
    BY <1>1, <2>1 DEF Sent, Said
<1>3. \A k \in Askers : asker[k] \in Asking
  BY DEF StructInv, Types, AskerT
<1>4. ASSUME NEW k \in Askers
      PROVE  /\ asker'[k] \in Asking
             /\ asker'[k].todo = asker[k].todo /\ asker'[k].add = asker[k].add
             /\ asker'[k].remove = asker[k].remove
             /\ asker[k].at = "waits" => asker'[k].at = "answered" /\ asker'[k].ok = FALSE
             /\ asker[k].at # "waits" => asker'[k] = asker[k]
  BY <1>1, <1>3 DEF Asking
<1>5. AskerT'
  BY <1>1, <1>4 DEF AskerT
<1>6. EngineT' /\ \A p \in Entries : engine'.reasons[p] = engine.reasons[p] \/ engine'.reasons[p] = 0
  <2>1. CASE engine' = engine
    BY <2>1 DEF StructInv, Types, EngineT
  <2>2. CASE engine' = NewEngine
    BY <2>2 DEF EngineT, NewEngine
  <2> QED
    BY <1>1, <2>1, <2>2
<1> QED
  BY <1>1, <1>2, <1>4, <1>5, <1>6

LEMMA LoseStruct ==
  ASSUME StructInv, Lose
  PROVE  StructInv'
<1>1. /\ link = "up" /\ link' = "down" /\ losses' = losses + 1 /\ losses < MaxLosses
      /\ wire' = <<>> /\ replies' = <<>> /\ Sent' = {} /\ Said' = {}
      /\ AskerT' /\ EngineT'
      /\ UNCHANGED <<declared, timer, updates, recorded, unasked, kept, raced>>
  BY LoseIs
<1>2. \A k \in Askers :
        /\ asker'[k].todo = asker[k].todo /\ asker'[k].add = asker[k].add
        /\ asker'[k].remove = asker[k].remove
        /\ asker[k].at = "waits" => asker'[k].at = "answered"
        /\ asker[k].at # "waits" => asker'[k] = asker[k]
  BY LoseIs
<1>3. Types'
  <2>1. losses' \in 0..MaxLosses /\ losses' > 0
    BY <1>1, BoundsAreNumbers DEF StructInv, Types, LinkT
  <2>2. wire' \in Seq(RequestSet) /\ replies' \in Seq(ReplySet)
    BY <1>1
  <2> QED
    BY <1>1, <2>1, <2>2 DEF StructInv, Types, WindowT, LinkT, WireT, ReplyT
<1>4. Mail'
  BY <1>1 DEF Mail, Apart
<1>5. Registered' /\ OneCall'
  BY <1>1, <1>2, AskersAre DEF StructInv, Registered, OneCall, Touches
<1>6. ASSUME NEW k \in Calls PROVE CallOK(k)'
  BY <1>1, <1>2, AskersAre DEF StructInv, CallOK, Idle
<1>7. ASSUME NEW k \in Resumes PROVE ResumeOK(k)'
  <2>1. Latest' = Latest + 1 /\ Latest \in Nat /\ k \in Nat
    BY <1>1, AskersAre, BoundsAreNumbers DEF StructInv, Types, LinkT, Latest
  <2> QED
    BY <1>2, <2>1, AskersAre DEF StructInv, ResumeOK, Idle
<1> QED
  BY <1>3, <1>4, <1>5, <1>6, <1>7 DEF StructInv

\* The connection is there again, and with it the resume of its loss.
LEMMA ReconnectIs ==
  ASSUME StructInv, Reconnect
  PROVE  /\ link = "down" /\ link' = "up" /\ losses > 0 /\ Latest \in Resumes /\ asker[Latest] = Idle
         /\ wire = <<>> /\ replies = <<>>
         /\ asker'[Latest] = [Idle EXCEPT !.at = "asks", !.todo = RW]
         /\ asker'[Latest].at = "asks" /\ asker'[Latest].todo = RW
         /\ asker'[Latest].add = {} /\ asker'[Latest].remove = {}
         /\ \A k \in Askers \ {Latest} : asker'[k] = asker[k]
         /\ AskerT'
         /\ UNCHANGED <<declared, timer, updates, recorded, wire, replies, losses, engine, unasked, unresumed,
                        kept, raced>>
<1>1. /\ link = "down" /\ link' = "up"
      /\ asker' = [asker EXCEPT ![Latest] = [Idle EXCEPT !.at = "asks", !.todo = RW]]
      /\ UNCHANGED <<declared, timer, updates, recorded, wire, replies, losses, engine, unasked, unresumed,
                        kept, raced>>
  BY DEF Reconnect, window, ghosts, Latest, RW, Order
<1>2. losses > 0 /\ Latest \in Resumes /\ Latest \in Askers /\ wire = <<>> /\ replies = <<>>
  BY <1>1, AskersAre DEF StructInv, Types, LinkT, Mail
<1>3. asker[Latest] = Idle
  BY <1>1, <1>2 DEF StructInv, ResumeOK
<1> DEFINE a == [Idle EXCEPT !.at = "asks", !.todo = RW]
<1>4. a \in Asking /\ a.at = "asks" /\ a.todo = RW /\ a.add = {} /\ a.remove = {}
  BY DEF Asking, Idle, Todos
<1> HIDE DEF a
<1>5. asker'[Latest] = a /\ AskerT' /\ \A k \in Askers \ {Latest} : asker'[k] = asker[k]
  BY <1>1, <1>2, <1>4 DEF StructInv, Types, AskerT, a
<1> QED
  BY <1>1, <1>2, <1>3, <1>4, <1>5 DEF a

LEMMA ReconnectStruct ==
  ASSUME StructInv, Reconnect
  PROVE  StructInv'
<1>1. /\ link = "down" /\ link' = "up" /\ losses > 0 /\ Latest \in Resumes /\ Latest \in Askers /\ Latest \notin Calls
      /\ asker[Latest] = Idle
      /\ wire = <<>> /\ replies = <<>> /\ AskerT'
      /\ asker'[Latest].at = "asks" /\ asker'[Latest].todo = RW
      /\ asker'[Latest].add = {} /\ asker'[Latest].remove = {}
      /\ \A k \in Askers \ {Latest} : asker'[k] = asker[k]
      /\ UNCHANGED <<declared, timer, updates, recorded, wire, replies, losses, engine, unasked, unresumed,
                        kept, raced>>
  BY ReconnectIs, AskersAre
<1>2. Types'
  BY <1>1 DEF StructInv, Types, WindowT, LinkT, WireT, ReplyT, EngineT
<1>3. Mail'
  BY <1>1 DEF Mail, Apart, Sent, Said
<1>4. Latest' = Latest /\ Said' = {}
  BY <1>1 DEF Latest, Said
<1>5. Registered'
  BY <1>1, <1>4, TodoIs DEF Registered
<1>6. \A k \in Calls : asker'[k] = asker[k]
  BY <1>1, AskersAre
<1>7. OneCall'
  BY <1>1, <1>6 DEF StructInv, OneCall, Touches
<1>8. \A k \in Calls : CallOK(k)'
  BY <1>1, <1>6 DEF StructInv, CallOK
<1>9. ASSUME NEW k \in Resumes PROVE ResumeOK(k)'
  <2>1. CASE k = Latest
    BY <1>1, <1>4, <2>1, AskersAre DEF StructInv, Types, ResumeOK
  <2>2. CASE k # Latest
    BY <1>1, <1>4, <2>2, AskersAre DEF StructInv, ResumeOK
  <2> QED
    BY <2>1, <2>2
<1> QED
  BY <1>2, <1>3, <1>5, <1>7, <1>8, <1>9 DEF StructInv

\* An asker ends.
LEMMA FailsStruct ==
  ASSUME StructInv, NEW k \in Calls, asker[k].at # "idle", Fails(k), UNCHANGED <<window, connection, engine>>
  PROVE  StructInv'
<1>1. k \in Askers /\ recorded' \subseteq Entries /\ asker' = [asker EXCEPT ![k] = Idle] /\ raced' = raced
  BY AskersAre DEF Fails, StructInv, Types
<1> QED
  BY <1>1, IdleIs, GoingOnStruct

LEMMA StopsShortStruct ==
  ASSUME StructInv, NEW k \in Resumes, asker[k].at # "idle", StopsShort(k), UNCHANGED <<window, connection, engine>>
  PROVE  StructInv'
<1>1. k \in Askers /\ recorded' \subseteq Entries /\ asker' = [asker EXCEPT ![k] = Idle] /\ raced' = raced
  BY AskersAre DEF StopsShort, StructInv, Types
<1> QED
  BY <1>1, IdleIs, GoingOnStruct

LEMMA TimesOutStruct ==
  ASSUME StructInv, NEW k \in Askers, TimesOut(k)
  PROVE  StructInv'
<1>1. asker[k].at # "idle" /\ UNCHANGED <<window, connection, engine>>
  BY DEF TimesOut
<1> QED
  BY <1>1, AskersAre, FailsStruct, StopsShortStruct DEF TimesOut

\* A call asks for all it is about.
LEMMA AskIs ==
  ASSUME StructInv, NEW k \in Calls, Ask(k)
  PROVE  /\ k \in Askers /\ asker[k].at = "asks" /\ asker[k] \in Asking
         /\ UNCHANGED <<declared, timer, updates, recorded, engine, unasked, unresumed, kept, raced>>
         /\ RequestOf(k) \in RequestSet /\ Sends(k, RequestOf(k))
         /\ RequestOf(k).from = k /\ RequestOf(k).kind = Head(asker[k].todo)
         /\ RequestOf(k).paths = IF RequestOf(k).kind = "unwatch" THEN asker[k].remove ELSE asker[k].add
<1>1. /\ k \in Askers /\ asker[k].at = "asks" /\ asker[k] \in Asking /\ Sends(k, RequestOf(k))
      /\ UNCHANGED <<declared, timer, updates, recorded, engine, unasked, unresumed, kept, raced>>
  BY AskersAre DEF Ask, StructInv, Types, AskerT, window, ghosts
<1>2. asker[k].todo \in {U, UW, W} /\ asker[k].add \in SUBSET Entries /\ asker[k].remove \in SUBSET Entries
  BY <1>1, TasksAre DEF Asking
<1>3. RequestOf(k) \in RequestSet
  BY <1>1, <1>2, TodoIs DEF RequestOf, RequestSet
<1>4. /\ RequestOf(k).from = k /\ RequestOf(k).kind = Head(asker[k].todo)
      /\ RequestOf(k).paths = IF RequestOf(k).kind = "unwatch" THEN asker[k].remove ELSE asker[k].add
  BY DEF RequestOf
<1> QED
  BY <1>1, <1>3, <1>4

LEMMA AskStruct ==
  ASSUME StructInv, NEW k \in Calls, Ask(k)
  PROVE  StructInv'
BY AskIs, SendingStruct DEF window

\* A resume registers, ...
LEMMA RegisterIs ==
  ASSUME StructInv, NEW k \in Resumes, Register(k)
  PROVE  /\ k \in Askers /\ k \notin Calls /\ asker[k].at = "asks" /\ asker[k].todo = RW /\ Head(RW) = "register"
         /\ UNCHANGED <<declared, timer, updates, recorded, engine, kept, raced>>
         /\ \/ /\ RequestOf(k) \in RequestSet /\ Sends(k, RequestOf(k))
               /\ RequestOf(k).from = k /\ RequestOf(k).kind = "register"
               /\ UNCHANGED <<unasked, unresumed>>
            \/ StopsShort(k) /\ UNCHANGED connection
<1>1. /\ k \in Askers /\ k \notin Calls /\ asker[k].at = "asks" /\ asker[k] \in Asking
      /\ Head(asker[k].todo) = "register"
      /\ UNCHANGED <<declared, timer, updates, engine>>
      /\ \/ Sends(k, RequestOf(k)) /\ UNCHANGED <<recorded, unasked, unresumed, kept, raced>>
         \/ StopsShort(k) /\ UNCHANGED connection
  BY AskersAre DEF Register, StructInv, Types, AskerT, window, ghosts
<1>2. asker[k].todo = RW /\ asker[k].add \in SUBSET Entries
  BY <1>1, TasksAre, TodoIs DEF Asking
<1>3. RequestOf(k) \in RequestSet /\ RequestOf(k).from = k /\ RequestOf(k).kind = "register"
  BY <1>1, <1>2 DEF RequestOf, RequestSet
<1> QED
  BY <1>1, <1>2, <1>3, TodoIs DEF StopsShort

LEMMA RegisterStruct ==
  ASSUME StructInv, NEW k \in Resumes, Register(k)
  PROVE  StructInv'
<1>1. /\ k \in Askers /\ k \notin Calls /\ asker[k].at = "asks" /\ asker[k].todo = RW /\ Head(RW) = "register"
      /\ UNCHANGED <<window, recorded, engine, raced>>
  BY RegisterIs DEF window
<1>2. CASE /\ RequestOf(k) \in RequestSet /\ Sends(k, RequestOf(k))
           /\ RequestOf(k).from = k /\ RequestOf(k).kind = "register"
  BY <1>1, <1>2, SendingStruct
<1>3. CASE StopsShort(k) /\ UNCHANGED connection
  BY <1>1, <1>3, StopsShortStruct
<1> QED
  BY <1>2, <1>3, RegisterIs

\* ... and asks again for what is recorded by now.
LEMMA RewatchIs ==
  ASSUME StructInv, NEW k \in Resumes, Rewatch(k)
  PROVE  /\ k \in Askers /\ k \notin Calls /\ asker[k].at = "asks" /\ asker[k].todo = W /\ Head(W) = "watch"
         /\ unasked' = unasked \cup Overlooked /\ kept' = kept \cup (Leaving \cap recorded)
         /\ UNCHANGED <<declared, timer, updates, recorded, engine, unresumed, raced>>
         /\ \/ \E request \in RequestSet :
                 Sends(k, request) /\ request.from = k /\ request.kind = "watch" /\ request.paths = recorded
            \/ recorded = {} /\ asker' = [asker EXCEPT ![k] = Idle] /\ UNCHANGED connection
<1>1. /\ k \in Askers /\ k \notin Calls /\ asker[k].at = "asks" /\ asker[k] \in Asking
      /\ Head(asker[k].todo) = "watch"
      /\ unasked' = unasked \cup Overlooked /\ kept' = kept \cup (Leaving \cap recorded)
      /\ UNCHANGED <<declared, timer, updates, recorded, engine, unresumed, raced>>
  BY AskersAre DEF Rewatch, StructInv, Types, AskerT, window
<1>2. asker[k].todo = W /\ asker[k].add \in SUBSET Entries
  BY <1>1, TasksAre, TodoIs DEF Asking
<1> DEFINE request == [RequestOf(k) EXCEPT !.paths = recorded]
<1>3. request.from = k /\ request.kind = "watch" /\ request.paths = recorded /\ request \in RequestSet
  BY <1>1, <1>2 DEF RequestOf, RequestSet, StructInv, Types
<1>4. \/ Sends(k, request)
      \/ recorded = {} /\ asker' = [asker EXCEPT ![k] = Idle] /\ UNCHANGED connection
  BY DEF Rewatch
<1> HIDE DEF request
<1> QED
  BY <1>1, <1>2, <1>3, <1>4, TodoIs

LEMMA RewatchStruct ==
  ASSUME StructInv, NEW k \in Resumes, Rewatch(k)
  PROVE  StructInv'
<1>1. /\ k \in Askers /\ k \notin Calls /\ asker[k].at = "asks" /\ asker[k].todo = W /\ Head(W) = "watch"
      /\ UNCHANGED <<window, recorded, engine, raced>> /\ recorded \subseteq Entries
  BY RewatchIs DEF window, StructInv, Types
<1>2. ASSUME NEW request \in RequestSet, Sends(k, request), request.from = k, request.kind = "watch"
      PROVE  StructInv'
  BY <1>1, <1>2, SendingStruct
<1>3. CASE asker' = [asker EXCEPT ![k] = Idle] /\ UNCHANGED connection
  BY <1>1, <1>3, IdleIs, GoingOnStruct
<1> QED
  BY <1>2, <1>3, RewatchIs

\* What is left to do after an answer.
LEMMA AfterIs ==
  ASSUME StructInv, NEW k \in Askers, asker[k].at = "answered"
  PROVE  /\ AfterAnswer(k) \in Asking
         /\ asker[k].todo \in {U, W} => AfterAnswer(k) = Idle
         /\ asker[k].todo \in {UW, RW} =>
              /\ AfterAnswer(k) = [asker[k] EXCEPT !.at = "asks", !.todo = W]
              /\ AfterAnswer(k).at = "asks" /\ AfterAnswer(k).todo = W
              /\ AfterAnswer(k).add = asker[k].add /\ AfterAnswer(k).remove = asker[k].remove
<1>1. asker[k] \in Asking /\ W \in Todos
  BY DEF StructInv, Types, AskerT, Todos
<1>2. asker[k].todo \in {U, UW, W, RW}
  BY AskersAre, TasksAre
<1>3. asker[k].todo \in {U, W} => AfterAnswer(k) = Idle
  BY TodoIs DEF AfterAnswer
<1>4. asker[k].todo \in {UW, RW} => AfterAnswer(k) = [asker[k] EXCEPT !.at = "asks", !.todo = W]
  BY TodoIs DEF AfterAnswer
<1>5. /\ [asker[k] EXCEPT !.at = "asks", !.todo = W].at = "asks"
      /\ [asker[k] EXCEPT !.at = "asks", !.todo = W].todo = W
      /\ [asker[k] EXCEPT !.at = "asks", !.todo = W].add = asker[k].add
      /\ [asker[k] EXCEPT !.at = "asks", !.todo = W].remove = asker[k].remove
      /\ [asker[k] EXCEPT !.at = "asks", !.todo = W] \in Asking
  BY <1>1 DEF Asking
<1> QED
  BY <1>2, <1>3, <1>4, <1>5, IdleIs

LEMMA AnsweredIs ==
  ASSUME StructInv, NEW k \in Calls, Answered(k)
  PROVE  /\ k \in Askers /\ asker[k].at = "answered" /\ asker[k] \in Asking
         /\ UNCHANGED <<declared, timer, updates, link, wire, replies, losses, engine>>
         /\ \/ /\ asker[k].ok /\ asker' = [asker EXCEPT ![k] = AfterAnswer(k)]
               /\ recorded' = IF asker[k].todo = W THEN recorded \cup (asker[k].add \ asker[k].refused)
                              ELSE recorded \ asker[k].remove
               /\ unasked' = unasked \cup (asker[k].refused \cap declared)
               /\ UNCHANGED <<unresumed, kept, raced>>
            \/ ~asker[k].ok /\ Fails(k)
<1>1. /\ k \in Askers /\ asker[k].at = "answered" /\ asker[k] \in Asking
      /\ UNCHANGED <<declared, timer, updates, link, wire, replies, losses, engine>>
  BY AskersAre DEF Answered, StructInv, Types, AskerT, window, connection
<1>2. asker[k].todo \in {U, UW, W}
  BY <1>1, TasksAre
<1>3. Recorded(Head(asker[k].todo), asker[k]) = IF asker[k].todo = W THEN recorded \cup (asker[k].add \ asker[k].refused)
                                                ELSE recorded \ asker[k].remove
  BY <1>2, TodoIs DEF Recorded
<1> QED
  BY <1>1, <1>3 DEF Answered

LEMMA AnsweredStruct ==
  ASSUME StructInv, NEW k \in Calls, Answered(k)
  PROVE  StructInv'
<1>1. /\ k \in Askers /\ asker[k].at = "answered" /\ asker[k] \in Asking
      /\ UNCHANGED <<window, connection, engine>>
  BY AnsweredIs DEF window, connection
<1>2. CASE /\ asker[k].ok /\ asker' = [asker EXCEPT ![k] = AfterAnswer(k)]
           /\ recorded' = IF asker[k].todo = W THEN recorded \cup (asker[k].add \ asker[k].refused)
                          ELSE recorded \ asker[k].remove
           /\ UNCHANGED <<kept, raced>>
  <2>1. recorded' \subseteq Entries /\ raced' = raced
    BY <1>1, <1>2 DEF Asking, StructInv, Types
  <2>2. asker[k].todo \in {U, UW, W}
    BY <1>1, TasksAre
  <2> QED
    BY <1>1, <1>2, <2>1, <2>2, AfterIs, GoingOnStruct
<1>3. CASE Fails(k)
  BY <1>1, <1>3, FailsStruct
<1> QED
  BY <1>2, <1>3, AnsweredIs

\* A resume that has its answer goes on, or stops where it was not let to register.
LEMMA ResumedIs ==
  ASSUME StructInv, NEW k \in Resumes, Resumed(k)
  PROVE  /\ k \in Askers /\ asker[k].at = "answered" /\ asker[k].todo \in {RW, W}
         /\ UNCHANGED <<window, recorded, connection, engine, kept, raced>>
         /\ \/ /\ asker[k].ok \/ asker[k].todo = W
               /\ asker' = [asker EXCEPT ![k] = AfterAnswer(k)]
               /\ unasked' = unasked \cup (asker[k].refused \cap declared) /\ unresumed' = unresumed
            \/ asker[k].todo = RW /\ StopsShort(k)
<1>1. k \in Askers /\ asker[k].at = "answered" /\ asker[k].todo \in {RW, W}
  BY AskersAre, TasksAre DEF Resumed
<1> QED
  BY <1>1, TodoIs DEF Resumed, StopsShort

LEMMA ResumedStruct ==
  ASSUME StructInv, NEW k \in Resumes, Resumed(k)
  PROVE  StructInv'
<1>1. /\ k \in Askers /\ asker[k].at = "answered" /\ asker[k].todo \in {RW, W} /\ recorded' \subseteq Entries
      /\ UNCHANGED <<window, recorded, connection, engine, kept, raced>>
  BY ResumedIs DEF StructInv, Types
<1>2. CASE asker[k].ok \/ asker[k].todo = W
  <2>1. AfterAnswer(k) = Idle \/ asker[k].todo = RW
    BY <1>1, AfterIs
  <2>2. asker' = [asker EXCEPT ![k] = AfterAnswer(k)]
    BY <1>2, TodoIs DEF Resumed
  <2> QED
    BY <1>1, <1>2, <2>1, <2>2, AfterIs, GoingOnStruct
<1>3. CASE StopsShort(k)
  BY <1>1, <1>3, StopsShortStruct
<1> QED
  BY <1>2, <1>3, ResumedIs

THEOREM Structure == RequestsSpec => []StructInv
<1>1. ASSUME StructInv, [RequestsNext]_requestsVars PROVE StructInv'
  <2>1. ASSUME NEW next \in SUBSET Entries, Update(next) PROVE StructInv'
    BY <1>1, <2>1, UpdateStruct
  <2>2. CASE Fire
    BY <1>1, <2>2, FireStruct
  <2>3. CASE Deliver
    BY <1>1, <2>3, DeliverStruct
  <2>4. CASE Lose
    BY <1>1, <2>4, LoseStruct
  <2>5. CASE Reconnect
    BY <1>1, <2>5, ReconnectStruct
  <2>6. CASE ServeRegister
    BY <1>1, <2>6, ServeRegisterStruct
  <2>7. CASE ServeWatch
    BY <1>1, <2>7, ServeWatchStruct
  <2>8. CASE ServeUnwatch
    BY <1>1, <2>8, ServeUnwatchStruct
  <2>9. ASSUME NEW k \in Askers, Ask(k) PROVE StructInv'
    BY <1>1, <2>9, AskStruct DEF Ask
  <2>10. ASSUME NEW k \in Askers, Register(k) PROVE StructInv'
    BY <1>1, <2>10, RegisterStruct DEF Register
  <2>11. ASSUME NEW k \in Askers, Rewatch(k) PROVE StructInv'
    BY <1>1, <2>11, RewatchStruct DEF Rewatch
  <2>12. ASSUME NEW k \in Askers, Answered(k) PROVE StructInv'
    BY <1>1, <2>12, AnsweredStruct DEF Answered
  <2>13. ASSUME NEW k \in Askers, Resumed(k) PROVE StructInv'
    BY <1>1, <2>13, ResumedStruct DEF Resumed
  <2>14. ASSUME NEW k \in Askers, TimesOut(k) PROVE StructInv'
    BY <1>1, <2>14, TimesOutStruct
  <2>15. CASE UNCHANGED requestsVars
    <3>1. UNCHANGED <<declared, timer, updates, asker, recorded, link, wire, replies, losses, engine, raced>>
      BY <2>15 DEF requestsVars, window, connection, ghosts
    <3>2. Types' /\ Registered' /\ OneCall'
      BY <1>1, <3>1 DEF StructInv, Types, WindowT, AskerT, LinkT, WireT, ReplyT, EngineT, Registered, Latest, Said,
         OneCall, Touches
    <3>3. Sent' = Sent /\ Said' = Said /\ \A k : Ended(k)' <=> Ended(k)
      BY <3>1 DEF Sent, Said, Ended
    <3>4. Mail'
      BY <1>1, <3>1, <3>3 DEF StructInv, Mail, SentOK, SaidOK, Apart, Unwatches
    <3>5. (\A k \in Calls : CallOK(k)') /\ (\A k \in Resumes : ResumeOK(k)')
      BY <1>1, <3>1 DEF StructInv, CallOK, ResumeOK, Latest
    <3> QED
      BY <3>2, <3>4, <3>5 DEF StructInv
  <2> QED
    BY <1>1, <2>1, <2>2, <2>3, <2>4, <2>5, <2>6, <2>7, <2>8, <2>9, <2>10, <2>11, <2>12, <2>13, <2>14,
       <2>15 DEF RequestsNext
<1> QED
  BY <1>1, InitStruct, PTL DEF RequestsSpec
-----------------------------------------------------------------------------
(* What the window shows.                                                  *)

\* The last resume is to ask for what is recorded, ...
WillRewatch == \/ link = "down"
               \/ /\ losses > 0
                  /\ asker[Latest].todo = RW \/ (asker[Latest].todo = W /\ asker[Latest].at = "asks")
\* ... or has asked for p, or knows that p was refused.
Carried(p) == /\ losses > 0 /\ asker[Latest].todo = W
              /\ \/ \E r \in Sent : r.from = Latest /\ p \in r.paths
                 \/ \E s \in Said : s.to = Latest /\ p \in s.refused
                 \/ asker[Latest].at = "answered" /\ p \in asker[Latest].refused
Live(p) == engine.reasons[p] > 0 \/ WillRewatch
Stays(p)    == \A k \in Calls : p \notin asker[k].remove
Covered(p)  == (\E k \in Calls : p \in asker[k].add) \/ (p \in recorded /\ (Live(p) \/ Carried(p)))
Granted(p)  == \A k \in Calls : /\ asker[k].at = "answered" /\ asker[k].ok /\ asker[k].todo = W
                                /\ p \in asker[k].add \ asker[k].refused
                                => Live(p)
Promised(p) == \A s \in Said : /\ s.to \in Calls /\ s.ok /\ asker[s.to].todo = W
                               /\ p \in asker[s.to].add \ s.refused
                               => engine.reasons[p] > 0
AskedFor(p) == Stays(p) /\ Covered(p) /\ Granted(p) /\ Promised(p)

\* Somebody adds it or it is on record; a release of it that comes late, of a call that
\* has ended, comes before the request to watch it.
Held(p) == (\E k \in Calls : p \in asker[k].add) \/ p \in recorded
Owed(p) == \A i \in DOMAIN wire : wire[i].kind = "unwatch" /\ p \in wire[i].paths =>
             \E k \in Calls : /\ p \in asker[k].add
                              /\ asker[k].todo = W => \/ asker[k].at = "asks"
                                                      \/ \E j \in DOMAIN wire : i < j /\ wire[j].from = k
HeldFor(p) == Stays(p) /\ Held(p) /\ Owed(p)

\* Of what the window shows and its timer does not hold: no call releases it; a call is
\* about to add it, or it is on record; ...
HeldInv == \A p \in declared \ (unasked \cup raced) : p \notin timer.add => HeldFor(p)

\* ... and where no resume has stopped short of it, the engine watches what is on record
\* or is to be asked, and what it has granted a call, unless that is lost and asked again.
AskedInv == \A p \in declared \ (unasked \cup unresumed \cup raced) : p \notin timer.add => AskedFor(p)

LEMMA InitHeld == RequestsInit => HeldInv
BY DEF RequestsInit, HeldInv

\* No call changes, and no release is sent.
LEMMA HeldKept ==
  ASSUME NEW p, HeldFor(p), \A k \in Calls : asker'[k] = asker[k], recorded' = recorded,
         \A i \in DOMAIN wire : i \in DOMAIN wire' /\ wire'[i] = wire[i],
         \A i \in DOMAIN wire' : i \in DOMAIN wire \/ wire'[i].kind # "unwatch"
  PROVE  HeldFor(p)'
<1>1. Stays(p)' /\ Held(p)'
  BY DEF HeldFor, Stays, Held
<1>2. Owed(p)'
  <2> SUFFICES ASSUME NEW i \in DOMAIN wire', wire'[i].kind = "unwatch", p \in wire'[i].paths
               PROVE  \E k \in Calls : /\ p \in asker'[k].add
                                       /\ asker'[k].todo = W =>
                                            \/ asker'[k].at = "asks"
                                            \/ \E j \in DOMAIN wire' : i < j /\ wire'[j].from = k
    BY DEF Owed
  <2>1. i \in DOMAIN wire /\ wire'[i] = wire[i]
    OBVIOUS
  <2>2. PICK k \in Calls : /\ p \in asker[k].add
                           /\ asker[k].todo = W => \/ asker[k].at = "asks"
                                                   \/ \E j \in DOMAIN wire : i < j /\ wire[j].from = k
    BY <2>1 DEF HeldFor, Owed
  <2> QED
    BY <2>2
<1> QED
  BY <1>1, <1>2 DEF HeldFor

LEMMA UpdateHeld ==
  ASSUME StructInv, HeldInv, NEW next \in SUBSET Entries, Update(next)
  PROVE  HeldInv'
<1>1. /\ declared' = next /\ timer' = Delta(declared, next)
      /\ unasked' = (unasked \cup timer.add) \cap next
      /\ UNCHANGED <<asker, recorded, wire, raced>>
  BY DEF Update, connection
<1> SUFFICES ASSUME NEW p \in declared' \ (unasked' \cup raced'), p \notin timer'.add PROVE HeldFor(p)'
  BY DEF HeldInv
<1>2. HeldFor(p)
  BY <1>1 DEF Delta, HeldInv
<1> QED
  BY <1>1, <1>2, HeldKept

LEMMA FireHeld ==
  ASSUME StructInv, HeldInv, Fire
  PROVE  HeldInv'
<1>1. /\ updates \in Calls /\ updates \in Askers /\ asker[updates] = Idle
      /\ \A k \in Askers \ {updates} : asker'[k] = asker[k]
      /\ asker'[updates].at = "asks"
      /\ asker'[updates].add = timer.add /\ asker'[updates].remove = timer.remove
      /\ raced' = raced \cup ((timer.add \cup timer.remove) \cap UNION {Touches(k) : k \in Busy \cap Calls})
      /\ UNCHANGED <<declared, updates, recorded, link, wire, replies, losses, engine, unasked, unresumed, kept>>
  BY FireIs, AskersAre
<1> SUFFICES ASSUME NEW p \in declared' \ (unasked' \cup raced') PROVE HeldFor(p)'
  BY DEF HeldInv
<1>2. p \notin timer.remove /\ p \in declared /\ p \notin unasked /\ p \notin raced
  BY <1>1 DEF StructInv, Types, WindowT
<1>3. CASE p \in timer.add
  <2>1. \A k \in Calls \ {updates} : p \notin asker[k].remove
    <3>1. \A k \in Calls : p \in Touches(k) => k \in Busy
      BY IdleIs, AskersAre, TasksAre DEF Touches, Busy
    <3> QED
      BY <1>1, <1>3, <3>1 DEF Touches
  <2>2. Stays(p)'
    BY <1>1, <1>2, <2>1, AskersAre DEF Stays
  <2> QED
    BY <1>1, <1>3, <2>2 DEF HeldFor, Held, Owed
<1>4. CASE p \notin timer.add
  <2>1. HeldFor(p)
    BY <1>2, <1>4 DEF HeldInv
  <2>2. \A k \in Calls : p \in asker[k].add => asker'[k] = asker[k]
    BY <1>1, AskersAre, IdleIs
  <2>3. Stays(p)' /\ Held(p)'
    BY <1>1, <1>2, <2>1, <2>2, AskersAre DEF HeldFor, Stays, Held
  <2>4. Owed(p)'
    BY <1>1, <2>1, <2>2 DEF HeldFor, Owed
  <2> QED
    BY <2>3, <2>4 DEF HeldFor
<1> QED
  BY <1>3, <1>4

LEMMA DeliverHeld ==
  ASSUME StructInv, HeldInv, Deliver
  PROVE  HeldInv'
<1>1. PICK s \in Said :
         /\ asker'[s.to].at = "answered" \/ asker'[s.to] = asker[s.to]
         /\ \A k \in Askers : /\ k # s.to => asker'[k] = asker[k]
                              /\ asker'[k].todo = asker[k].todo /\ asker'[k].add = asker[k].add
                              /\ asker'[k].remove = asker[k].remove
         /\ UNCHANGED <<declared, timer, recorded, wire, unasked, raced>>
  BY DeliverIs DEF StructInv
<1> SUFFICES ASSUME NEW p \in declared' \ (unasked' \cup raced'), p \notin timer'.add PROVE HeldFor(p)'
  BY DEF HeldInv
<1>2. HeldFor(p)
  BY <1>1 DEF HeldInv
<1>3. Stays(p)' /\ Held(p)'
  BY <1>1, <1>2, AskersAre DEF HeldFor, Stays, Held
<1>4. \A k \in Calls : asker[k].at = "asks" => asker'[k].at = "asks"
  <2>1. Ended(s.to) \/ asker[s.to].at = "waits"
    BY DEF StructInv, Mail, SaidOK
  <2>2. asker[s.to].at # "asks"
    BY <2>1, IdleIs DEF Ended
  <2> QED
    BY <1>1, <2>2, AskersAre
<1>5. Owed(p)'
  BY <1>1, <1>2, <1>4, AskersAre DEF HeldFor, Owed
<1> QED
  BY <1>3, <1>5 DEF HeldFor

LEMMA LoseHeld ==
  ASSUME StructInv, HeldInv, Lose
  PROVE  HeldInv'
<1>1. /\ wire' = <<>>
      /\ \A k \in Askers : asker'[k].add = asker[k].add /\ asker'[k].remove = asker[k].remove
      /\ UNCHANGED <<declared, timer, recorded, unasked, raced>>
  BY LoseIs
<1>2. \A i : i \notin DOMAIN <<>>
  OBVIOUS
<1> QED
  BY <1>1, <1>2, AskersAre DEF HeldInv, HeldFor, Stays, Held, Owed

LEMMA ReconnectHeld ==
  ASSUME StructInv, HeldInv, Reconnect
  PROVE  HeldInv'
<1>1. /\ \A k \in Calls : asker'[k] = asker[k]
      /\ UNCHANGED <<declared, timer, recorded, wire, unasked, raced>>
  BY ReconnectIs, AskersAre
<1> QED
  BY <1>1, HeldKept DEF HeldInv

LEMMA ServingHeld ==
  ASSUME StructInv, HeldInv, wire # <<>>, NEW ok \in BOOLEAN, NEW refused \in SUBSET Entries,
         Answers(wire[1].from, ok, refused)
  PROVE  HeldInv'
<1>1. wire[1].from \in Askers
  <2>1. 1 \in DOMAIN wire
    BY DEF StructInv, Types, WireT
  <2> QED
    BY <2>1, MessagesAre DEF Sent
<1>2. /\ DOMAIN wire' = 1..(Len(wire) - 1) /\ DOMAIN wire = 1..Len(wire) /\ Len(wire) \in Nat
      /\ \A i \in DOMAIN wire' : i + 1 \in DOMAIN wire /\ wire'[i] = wire[i + 1]
      /\ UNCHANGED <<declared, timer, asker, recorded, unasked, raced>>
  BY <1>1, AnswersIs DEF StructInv
<1> SUFFICES ASSUME NEW p \in declared' \ (unasked' \cup raced'), p \notin timer'.add PROVE HeldFor(p)'
  BY DEF HeldInv
<1>3. HeldFor(p)
  BY <1>2 DEF HeldInv
<1>4. Owed(p)'
  <2> SUFFICES ASSUME NEW i \in DOMAIN wire', wire'[i].kind = "unwatch", p \in wire'[i].paths
               PROVE  \E k \in Calls : /\ p \in asker'[k].add
                                       /\ asker'[k].todo = W =>
                                            \/ asker'[k].at = "asks"
                                            \/ \E j \in DOMAIN wire' : i < j /\ wire'[j].from = k
    BY DEF Owed
  <2>1. i + 1 \in DOMAIN wire /\ wire'[i] = wire[i + 1] /\ i \in Nat
    BY <1>2
  <2>2. PICK k \in Calls : /\ p \in asker[k].add
                           /\ asker[k].todo = W => \/ asker[k].at = "asks"
                                                   \/ \E j \in DOMAIN wire : i + 1 < j /\ wire[j].from = k
    BY <1>3, <2>1 DEF HeldFor, Owed
  <2>3. \A j \in DOMAIN wire : i + 1 < j => j - 1 \in DOMAIN wire' /\ i < j - 1 /\ wire'[j - 1] = wire[j]
    BY <1>2, <2>1
  <2> QED
    BY <1>2, <2>2, <2>3
<1> QED
  BY <1>2, <1>3, <1>4 DEF HeldFor, Stays, Held

LEMMA FailsHeld ==
  ASSUME StructInv, HeldInv, NEW k \in Calls, Fails(k), UNCHANGED <<window, connection, engine>>
  PROVE  HeldInv'
<1>1. /\ asker'[k] = Idle /\ \A j \in Askers \ {k} : asker'[j] = asker[j]
      /\ unasked' = unasked \cup (asker[k].add \cap declared)
      /\ UNCHANGED <<declared, timer, recorded, wire, raced>>
  BY AskersAre DEF Fails, window, connection, StructInv, Types, AskerT
<1> SUFFICES ASSUME NEW p \in declared' \ (unasked' \cup raced'), p \notin timer'.add PROVE HeldFor(p)'
  BY DEF HeldInv
<1>2. HeldFor(p) /\ p \notin asker[k].add
  BY <1>1 DEF HeldInv
<1>3. \A j \in Calls : /\ asker'[j].remove \subseteq asker[j].remove
                       /\ p \in asker[j].add => asker'[j] = asker[j]
  BY <1>1, <1>2, IdleIs, AskersAre
<1>4. Stays(p)' /\ Held(p)'
  BY <1>1, <1>2, <1>3 DEF HeldFor, Stays, Held
<1>5. Owed(p)'
  <2> SUFFICES ASSUME NEW i \in DOMAIN wire, wire[i].kind = "unwatch", p \in wire[i].paths
               PROVE  \E j \in Calls : /\ p \in asker'[j].add
                                       /\ asker'[j].todo = W =>
                                            \/ asker'[j].at = "asks"
                                            \/ \E l \in DOMAIN wire : i < l /\ wire[l].from = j
    BY <1>1 DEF Owed
  <2>1. PICK j \in Calls : /\ p \in asker[j].add
                           /\ asker[j].todo = W => \/ asker[j].at = "asks"
                                                   \/ \E l \in DOMAIN wire : i < l /\ wire[l].from = j
    BY <1>2 DEF HeldFor, Owed
  <2>2. asker'[j] = asker[j]
    BY <1>3, <2>1
  <2> QED
    BY <2>1, <2>2
<1> QED
  BY <1>4, <1>5 DEF HeldFor

LEMMA StopsShortHeld ==
  ASSUME StructInv, HeldInv, NEW k \in Resumes, StopsShort(k), UNCHANGED <<window, connection, engine>>
  PROVE  HeldInv'
<1>1. /\ \A j \in Calls : asker'[j] = asker[j]
      /\ UNCHANGED <<declared, timer, recorded, wire, unasked, raced>>
  BY AskersAre DEF StopsShort, window, connection, StructInv, Types, AskerT
<1> QED
  BY <1>1, HeldKept DEF HeldInv

LEMMA AskHeld ==
  ASSUME StructInv, HeldInv, NEW k \in Calls, Ask(k)
  PROVE  HeldInv'
<1>1. /\ k \in Askers /\ asker[k].at = "asks" /\ RequestOf(k).from = k
      /\ RequestOf(k).kind = "unwatch" => RequestOf(k).paths = asker[k].remove
      /\ asker' = [asker EXCEPT ![k].at = "waits"]
      /\ \A i \in DOMAIN wire : i \in DOMAIN wire' /\ wire'[i] = wire[i]
      /\ DOMAIN wire = 1..Len(wire) /\ Len(wire) \in Nat
      /\ link = "up" => wire'[Len(wire) + 1] = RequestOf(k) /\ DOMAIN wire' = 1..(Len(wire) + 1)
      /\ link # "up" => wire' = wire
      /\ UNCHANGED <<declared, timer, recorded, unasked, raced>>
  BY AskIs, SendsIs DEF StructInv, Types
<1> SUFFICES ASSUME NEW p \in declared' \ (unasked' \cup raced'), p \notin timer'.add PROVE HeldFor(p)'
  BY DEF HeldInv
<1>2. HeldFor(p)
  BY <1>1 DEF HeldInv
<1>3. \A j \in Calls : /\ asker'[j].add = asker[j].add /\ asker'[j].remove = asker[j].remove
                       /\ asker'[j].todo = asker[j].todo /\ (j # k => asker'[j] = asker[j])
  <2>1. asker[k] \in Asking
    BY <1>1 DEF StructInv, Types, AskerT
  <2> QED
    BY <1>1, <2>1, AskersAre DEF StructInv, Types, AskerT, Asking
<1>4. Stays(p)' /\ Held(p)'
  BY <1>1, <1>2, <1>3 DEF HeldFor, Stays, Held
<1>5. Owed(p)'
  <2> SUFFICES ASSUME NEW i \in DOMAIN wire', wire'[i].kind = "unwatch", p \in wire'[i].paths
               PROVE  \E j \in Calls : /\ p \in asker'[j].add
                                       /\ asker'[j].todo = W =>
                                            \/ asker'[j].at = "asks"
                                            \/ \E l \in DOMAIN wire' : i < l /\ wire'[l].from = j
    BY DEF Owed
  <2>1. link = "up"
    <3>1. link # "up" => wire = <<>>
      BY DEF StructInv, Types, LinkT, Mail
    <3>2. \A l : l \notin DOMAIN <<>>
      OBVIOUS
    <3> QED
      BY <1>1, <3>1, <3>2
  <2>2. i \in DOMAIN wire
    BY <1>1, <1>2, <2>1 DEF HeldFor, Stays
  <2>3. PICK j \in Calls : /\ p \in asker[j].add
                           /\ asker[j].todo = W => \/ asker[j].at = "asks"
                                                   \/ \E l \in DOMAIN wire : i < l /\ wire[l].from = j
    BY <1>1, <1>2, <2>2 DEF HeldFor, Owed
  <2>4. Len(wire) + 1 \in DOMAIN wire' /\ i < Len(wire) + 1 /\ wire'[Len(wire) + 1].from = k
    BY <1>1, <2>1, <2>2
  <2>5. CASE j = k
    BY <1>3, <2>3, <2>4, <2>5
  <2>6. CASE j # k
    BY <1>1, <1>3, <2>3, <2>6
  <2> QED
    BY <2>5, <2>6
<1> QED
  BY <1>4, <1>5 DEF HeldFor

\* A resume sends, or does not.
LEMMA ResumeHeld ==
  ASSUME StructInv, HeldInv, NEW k \in Resumes, Register(k) \/ Rewatch(k) \/ Resumed(k)
  PROVE  HeldInv'
<1>1. CASE StopsShort(k) /\ UNCHANGED <<window, connection, engine>>
  BY <1>1, StopsShortHeld
<1>2. ASSUME \A j \in Askers \ {k} : asker'[j] = asker[j],
             \A i \in DOMAIN wire : i \in DOMAIN wire' /\ wire'[i] = wire[i],
             \A i \in DOMAIN wire' : i \in DOMAIN wire \/ wire'[i].kind # "unwatch",
             unasked \subseteq unasked',
             UNCHANGED <<declared, timer, recorded, raced>>
      PROVE  HeldInv'
  BY <1>2, AskersAre, HeldKept DEF HeldInv
<1>3. ASSUME NEW request \in RequestSet, Sends(k, request), request.kind # "unwatch"
      PROVE  /\ \A j \in Askers \ {k} : asker'[j] = asker[j]
             /\ \A i \in DOMAIN wire : i \in DOMAIN wire' /\ wire'[i] = wire[i]
             /\ \A i \in DOMAIN wire' : i \in DOMAIN wire \/ wire'[i].kind # "unwatch"
  <2>1. /\ asker' = [asker EXCEPT ![k].at = "waits"]
        /\ \A i \in DOMAIN wire : i \in DOMAIN wire' /\ wire'[i] = wire[i]
        /\ DOMAIN wire = 1..Len(wire) /\ Len(wire) \in Nat
        /\ link = "up" => wire'[Len(wire) + 1] = request /\ DOMAIN wire' = 1..(Len(wire) + 1)
        /\ link # "up" => wire' = wire
    BY <1>3, AskersAre, SendsIs DEF StructInv, Types
  <2>2. \A i \in DOMAIN wire' : i \in DOMAIN wire \/ wire'[i].kind # "unwatch"
    BY <1>3, <2>1
  <2> QED
    BY <2>1, <2>2 DEF StructInv, Types, AskerT
<1>4. CASE Register(k)
  <2>1. CASE RequestOf(k) \in RequestSet /\ Sends(k, RequestOf(k)) /\ RequestOf(k).kind = "register"
             /\ UNCHANGED <<unasked, unresumed>>
    BY <1>2, <1>3, <1>4, <2>1, RegisterIs
  <2>2. CASE StopsShort(k) /\ UNCHANGED connection
    BY <1>1, <1>4, <2>2, RegisterIs DEF window
  <2> QED
    BY <1>4, <2>1, <2>2, RegisterIs
<1>5. CASE Rewatch(k)
  <2>1. unasked \subseteq unasked' /\ UNCHANGED <<declared, timer, recorded, raced>>
    BY <1>5, RewatchIs
  <2>2. ASSUME NEW request \in RequestSet, Sends(k, request), request.kind = "watch" PROVE HeldInv'
    BY <1>2, <1>3, <2>1, <2>2
  <2>3. CASE asker' = [asker EXCEPT ![k] = Idle] /\ UNCHANGED connection
    BY <1>2, <2>1, <2>3 DEF connection, StructInv, Types, AskerT
  <2> QED
    BY <1>5, <2>2, <2>3, RewatchIs
<1>6. CASE Resumed(k)
  <2>1. UNCHANGED <<declared, timer, recorded, wire, raced>>
    BY <1>6, ResumedIs DEF window, connection
  <2>2. CASE asker' = [asker EXCEPT ![k] = AfterAnswer(k)] /\ unasked \subseteq unasked'
    BY <1>2, <2>1, <2>2 DEF StructInv, Types, AskerT
  <2>3. CASE StopsShort(k)
    BY <1>1, <1>6, <2>3, ResumedIs
  <2> QED
    BY <1>6, <2>2, <2>3, ResumedIs
<1> QED
  BY <1>4, <1>5, <1>6

LEMMA AnsweredHeld ==
  ASSUME StructInv, HeldInv, NEW k \in Calls, Answered(k)
  PROVE  HeldInv'
<1>1. /\ k \in Askers /\ asker[k].at = "answered" /\ asker[k] \in Asking
      /\ UNCHANGED <<declared, timer, updates, link, wire, replies, losses, engine>>
  BY AnsweredIs
<1>2. CASE /\ asker[k].ok /\ asker' = [asker EXCEPT ![k] = AfterAnswer(k)]
           /\ recorded' = IF asker[k].todo = W THEN recorded \cup (asker[k].add \ asker[k].refused)
                          ELSE recorded \ asker[k].remove
           /\ unasked' = unasked \cup (asker[k].refused \cap declared)
           /\ UNCHANGED <<unresumed, kept, raced>>
  <2>1. asker'[k] = AfterAnswer(k) /\ \A j \in Askers \ {k} : asker'[j] = asker[j]
    BY <1>1, <1>2 DEF StructInv, Types, AskerT
  <2> SUFFICES ASSUME NEW p \in declared' \ (unasked' \cup raced'), p \notin timer'.add PROVE HeldFor(p)'
    BY DEF HeldInv
  <2>2. HeldFor(p) /\ p \notin asker[k].refused
    BY <1>1, <1>2 DEF HeldInv
  <2>3. /\ asker'[k].remove \subseteq asker[k].remove
        /\ asker[k].todo = W \/ (asker'[k].add = asker[k].add /\ (asker[k].add # {} => asker'[k].at = "asks"))
    <3>1. CASE asker[k].todo = U
      <4>1. asker[k].add = {} /\ AfterAnswer(k) = Idle
        BY <1>1, <3>1, AfterIs, IdleIs, TodoIs DEF StructInv, CallOK
      <4> QED
        BY <2>1, <4>1, IdleIs
    <3>2. CASE asker[k].todo = UW
      BY <1>1, <2>1, <3>2, AfterIs
    <3>3. CASE asker[k].todo = W
      BY <1>1, <2>1, <3>3, AfterIs, IdleIs
    <3> QED
      BY <1>1, <3>1, <3>2, <3>3, TasksAre
  <2>4. Stays(p)'
    BY <2>1, <2>2, <2>3, AskersAre DEF HeldFor, Stays
  <2>5. p \in recorded => p \in recorded'
    BY <1>2, <2>2 DEF HeldFor, Stays
  <2>6. Held(p)'
    <3>1. CASE asker[k].todo = W /\ p \in asker[k].add
      BY <1>2, <2>2, <3>1 DEF Held
    <3>2. CASE ~(asker[k].todo = W /\ p \in asker[k].add)
      BY <2>1, <2>2, <2>3, <2>5, <3>2, AskersAre DEF HeldFor, Held
    <3> QED
      BY <3>1, <3>2
  <2>7. \A r \in Sent : r.from # k
    BY <1>1, IdleIs DEF StructInv, Mail, SentOK, Ended
  <2>8. Owed(p)'
    <3> SUFFICES ASSUME NEW i \in DOMAIN wire, wire[i].kind = "unwatch", p \in wire[i].paths
                 PROVE  \E j \in Calls : /\ p \in asker'[j].add
                                         /\ asker'[j].todo = W =>
                                              \/ asker'[j].at = "asks"
                                              \/ \E l \in DOMAIN wire : i < l /\ wire[l].from = j
      BY <1>1 DEF Owed
    <3>1. PICK j \in Calls : /\ p \in asker[j].add
                             /\ asker[j].todo = W => \/ asker[j].at = "asks"
                                                     \/ \E l \in DOMAIN wire : i < l /\ wire[l].from = j
      BY <2>2 DEF HeldFor, Owed
    <3>2. CASE j = k
      <4>1. \A l \in DOMAIN wire : wire[l].from # k
        BY <2>7 DEF Sent
      <4>2. asker[j].at # "asks" /\ ~ \E l \in DOMAIN wire : i < l /\ wire[l].from = j
        BY <1>1, <3>2, <4>1
      <4>3. asker[k].todo # W
        BY <3>1, <3>2, <4>2
      <4> QED
        BY <2>3, <3>1, <3>2, <4>3
    <3>3. CASE j # k
      BY <2>1, <3>1, <3>3, AskersAre
    <3> QED
      BY <3>2, <3>3
  <2> QED
    BY <2>4, <2>6, <2>8 DEF HeldFor
<1>3. CASE Fails(k)
  BY <1>1, <1>3, FailsHeld DEF window, connection
<1> QED
  BY <1>2, <1>3, AnsweredIs

THEOREM WhatIsShownIsHeld == RequestsSpec => []HeldInv
<1>1. ASSUME StructInv, HeldInv, [RequestsNext]_requestsVars PROVE HeldInv'
  <2>1. ASSUME NEW next \in SUBSET Entries, Update(next) PROVE HeldInv'
    BY <1>1, <2>1, UpdateHeld
  <2>2. CASE Fire
    BY <1>1, <2>2, FireHeld
  <2>3. CASE Deliver
    BY <1>1, <2>3, DeliverHeld
  <2>4. CASE Lose
    BY <1>1, <2>4, LoseHeld
  <2>5. CASE Reconnect
    BY <1>1, <2>5, ReconnectHeld
  <2>6. CASE ServeRegister
    <3>1. {} \in SUBSET Entries
      OBVIOUS
    <3> QED
      BY <1>1, <2>6, <3>1, ServeRegisterIs, ServingHeld
  <2>7. CASE ServeWatch
    <3>1. engine.registered \in BOOLEAN
      BY <1>1 DEF StructInv, Types, EngineT
    <3> QED
      BY <1>1, <2>7, <3>1, ServeWatchIs, ServingHeld
  <2>8. CASE ServeUnwatch
    <3>1. {} \in SUBSET Entries
      OBVIOUS
    <3> QED
      BY <1>1, <2>8, <3>1, ServeUnwatchIs, ServingHeld
  <2>9. ASSUME NEW k \in Askers, Ask(k) PROVE HeldInv'
    BY <1>1, <2>9, AskHeld DEF Ask
  <2>10. ASSUME NEW k \in Askers, Register(k) \/ Rewatch(k) \/ Resumed(k) PROVE HeldInv'
    <3>1. k \in Resumes
      BY <2>10 DEF Register, Rewatch, Resumed
    <3> QED
      BY <1>1, <2>10, <3>1, ResumeHeld
  <2>11. ASSUME NEW k \in Askers, Answered(k) PROVE HeldInv'
    BY <1>1, <2>11, AnsweredHeld DEF Answered
  <2>12. ASSUME NEW k \in Askers, TimesOut(k) PROVE HeldInv'
    BY <1>1, <2>12, AskersAre, FailsHeld, StopsShortHeld DEF TimesOut
  <2>13. CASE UNCHANGED requestsVars
    BY <1>1, <2>13, HeldKept DEF requestsVars, window, connection, ghosts, HeldInv
  <2> QED
    BY <1>1, <2>1, <2>2, <2>3, <2>4, <2>5, <2>6, <2>7, <2>8, <2>9, <2>10, <2>11, <2>12, <2>13 DEF RequestsNext
<1> QED
  BY <1>1, InitHeld, Structure, PTL DEF RequestsSpec

LEMMA UpdateAsked ==
  ASSUME StructInv, AskedInv, NEW next \in SUBSET Entries, Update(next)
  PROVE  AskedInv'
<1>1. /\ declared' = next /\ timer' = Delta(declared, next)
      /\ unasked' = (unasked \cup timer.add) \cap next /\ unresumed' = unresumed \cap next
      /\ UNCHANGED <<asker, recorded, link, wire, replies, losses, engine, raced>>
  BY DEF Update, connection
<1> SUFFICES ASSUME NEW p \in declared' \ (unasked' \cup unresumed' \cup raced'), p \notin timer'.add
             PROVE  AskedFor(p)'
  BY DEF AskedInv
<1>2. AskedFor(p)
  BY <1>1 DEF Delta, AskedInv
<1> QED
  BY <1>1, <1>2 DEF AskedFor, Stays, Covered, Granted, Promised, Live, WillRewatch, Carried, Latest, Sent, Said

LEMMA FireAsked ==
  ASSUME StructInv, AskedInv, Fire
  PROVE  AskedInv'
<1>1. /\ updates \in Calls /\ updates \in Askers /\ asker[updates] = Idle
      /\ \A k \in Askers \ {updates} : asker'[k] = asker[k]
      /\ asker'[updates].at = "asks"
      /\ asker'[updates].add = timer.add /\ asker'[updates].remove = timer.remove
      /\ raced' = raced \cup ((timer.add \cup timer.remove) \cap UNION {Touches(k) : k \in Busy \cap Calls})
      /\ UNCHANGED <<declared, updates, recorded, link, wire, replies, losses, engine, unasked, unresumed, kept>>
  BY FireIs, AskersAre
<1> SUFFICES ASSUME NEW p \in declared' \ (unasked' \cup unresumed' \cup raced') PROVE AskedFor(p)'
  BY DEF AskedInv
<1>2. p \notin timer.remove /\ p \in declared /\ p \notin unasked /\ p \notin unresumed /\ p \notin raced
  BY <1>1 DEF StructInv, Types, WindowT
<1>3. Latest' = Latest /\ Said' = Said /\ Sent' = Sent
  BY <1>1 DEF Latest, Said, Sent
<1>4. losses > 0 => asker'[Latest] = asker[Latest]
  BY <1>1, AskersAre DEF StructInv, Types
<1>5. (Live(p)' <=> Live(p)) /\ (Carried(p)' <=> Carried(p))
  BY <1>1, <1>3, <1>4 DEF Live, Carried, WillRewatch
<1>6. \A s \in Said : s.to # updates
  BY <1>1, IdleIs DEF StructInv, Mail, SaidOK, Ended, Fire
<1>7. CASE p \in timer.add
  <2>1. \A k \in Calls \ {updates} : p \notin asker[k].add /\ p \notin asker[k].remove
    <3>1. \A k \in Calls : p \in Touches(k) => k \in Busy
      BY IdleIs, AskersAre, TasksAre DEF Touches, Busy
    <3> QED
      BY <1>1, <1>7, <3>1 DEF Touches
  <2>2. Stays(p)'
    BY <1>1, <1>2, <2>1, AskersAre DEF Stays
  <2>3. Covered(p)'
    BY <1>1, <1>7 DEF Covered
  <2>4. Granted(p)'
    BY <1>1, <2>1, AskersAre DEF Granted
  <2>5. Promised(p)'
    BY <1>1, <1>3, <1>6, <2>1, AskersAre DEF Promised
  <2> QED
    BY <2>2, <2>3, <2>4, <2>5 DEF AskedFor
<1>8. CASE p \notin timer.add
  <2>1. AskedFor(p)
    BY <1>2, <1>8 DEF AskedInv
  <2>2. Stays(p)'
    BY <1>1, <1>2, <2>1, AskersAre DEF AskedFor, Stays
  <2>3. Covered(p)'
    BY <1>1, <1>5, <2>1, AskersAre, IdleIs DEF AskedFor, Covered
  <2>4. Granted(p)'
    BY <1>1, <1>5, <2>1, AskersAre DEF AskedFor, Granted
  <2>5. Promised(p)'
    BY <1>1, <1>3, <1>6, <2>1, AskersAre DEF AskedFor, Promised
  <2> QED
    BY <2>2, <2>3, <2>4, <2>5 DEF AskedFor
<1> QED
  BY <1>7, <1>8

LEMMA DeliverAsked ==
  ASSUME StructInv, AskedInv, Deliver
  PROVE  AskedInv'
<1>1. PICK s \in Said :
         /\ s \in ReplySet /\ s.to \in Askers /\ Said' = Said \ {s} /\ replies' \in Seq(ReplySet)
         /\ \A t \in Said' : t.to # s.to
         /\ \A i \in DOMAIN replies' : i + 1 \in DOMAIN replies /\ i \in Nat /\ replies'[i] = replies[i + 1]
         /\ \/ /\ asker[s.to].at = "waits" /\ asker'[s.to].at = "answered"
               /\ asker'[s.to].ok = s.ok /\ asker'[s.to].refused = s.refused
            \/ Ended(s.to) /\ asker'[s.to] = asker[s.to]
         /\ \A k \in Askers : /\ k # s.to => asker'[k] = asker[k]
                              /\ asker'[k].todo = asker[k].todo /\ asker'[k].add = asker[k].add
                              /\ asker'[k].remove = asker[k].remove
         /\ asker' \in [Askers -> Asking]
         /\ UNCHANGED <<declared, timer, updates, recorded, link, wire, losses, engine,
                        unasked, unresumed, kept, raced>>
  BY DeliverIs DEF StructInv
<1> SUFFICES ASSUME NEW p \in declared' \ (unasked' \cup unresumed' \cup raced'), p \notin timer'.add
             PROVE  AskedFor(p)'
  BY DEF AskedInv
<1>2. AskedFor(p)
  BY <1>1 DEF AskedInv
<1>3. Latest' = Latest /\ Sent' = Sent /\ (losses > 0 => Latest \in Askers)
  BY <1>1, AskersAre DEF Latest, Sent, StructInv, Types
<1>4. Ended(s.to) => asker[s.to].todo # W /\ asker[s.to].add = {}
  BY IdleIs, TodoIs DEF Ended
<1>5. Stays(p)'
  BY <1>1, <1>2, AskersAre DEF AskedFor, Stays
<1>6. CASE asker[s.to].at = "waits" /\ asker'[s.to].at = "answered"
  <2>1. asker'[s.to].ok = s.ok /\ asker'[s.to].refused = s.refused
    BY <1>1, <1>6 DEF Ended, Idle
  <2>2. WillRewatch => WillRewatch'
    BY <1>1, <1>3, <1>6 DEF WillRewatch
  <2>3. Live(p) => Live(p)'
    BY <1>1, <2>2 DEF Live
  <2>4. Carried(p) => Carried(p)'
    BY <1>1, <1>3, <1>6, <2>1 DEF Carried
  <2>5. Covered(p)'
    BY <1>1, <1>2, <2>3, <2>4, AskersAre DEF AskedFor, Covered
  <2>6. Granted(p)'
    <3> SUFFICES ASSUME NEW j \in Calls, asker'[j].at = "answered", asker'[j].ok, asker'[j].todo = W,
                        p \in asker'[j].add \ asker'[j].refused
                 PROVE  Live(p)'
      BY DEF Granted
    <3>1. CASE j = s.to
      BY <1>1, <1>2, <2>1, <3>1, AskersAre DEF AskedFor, Promised, Live
    <3>2. CASE j # s.to
      BY <1>1, <1>2, <2>3, <3>2, AskersAre DEF AskedFor, Granted
    <3> QED
      BY <3>1, <3>2
  <2>7. Promised(p)'
    BY <1>1, <1>2, AskersAre DEF AskedFor, Promised
  <2> QED
    BY <1>5, <2>5, <2>6, <2>7 DEF AskedFor
<1>7. CASE Ended(s.to) /\ asker'[s.to] = asker[s.to]
  <2>1. \A k \in Askers : asker'[k] = asker[k]
    BY <1>1, <1>7
  <2>2. losses > 0 => asker'[Latest] = asker[Latest] /\ (asker[Latest].todo = W => s.to # Latest)
    BY <1>3, <1>4, <1>7, <2>1
  <2>3. (Live(p) => Live(p)') /\ (Carried(p) => Carried(p)')
    BY <1>1, <1>3, <2>2 DEF Live, WillRewatch, Carried
  <2>4. Covered(p)' /\ Granted(p)'
    BY <1>1, <1>2, <2>1, <2>3, AskersAre DEF AskedFor, Covered, Granted
  <2>5. Promised(p)'
    BY <1>1, <1>2, <2>1, AskersAre DEF AskedFor, Promised
  <2> QED
    BY <1>5, <2>4, <2>5 DEF AskedFor
<1> QED
  BY <1>1, <1>6, <1>7

LEMMA LoseAsked ==
  ASSUME StructInv, HeldInv, Lose
  PROVE  AskedInv'
<1>1. /\ link' = "down" /\ Said' = {}
      /\ \A k \in Askers : asker'[k].add = asker[k].add /\ asker'[k].remove = asker[k].remove
      /\ UNCHANGED <<declared, timer, recorded, unasked, raced>>
  BY LoseIs
<1> SUFFICES ASSUME NEW p \in declared' \ (unasked' \cup unresumed' \cup raced'), p \notin timer'.add
             PROVE  AskedFor(p)'
  BY DEF AskedInv
<1>2. HeldFor(p)
  BY <1>1 DEF HeldInv
<1>3. Live(p)'
  BY <1>1 DEF Live, WillRewatch
<1>4. Stays(p)' /\ Covered(p)' /\ Granted(p)' /\ Promised(p)'
  BY <1>1, <1>2, <1>3, AskersAre DEF HeldFor, Stays, Held, Covered, Granted, Promised
<1> QED
  BY <1>4 DEF AskedFor

LEMMA ReconnectAsked ==
  ASSUME StructInv, AskedInv, Reconnect
  PROVE  AskedInv'
<1>1. /\ losses > 0 /\ Latest \in Resumes /\ replies = <<>> /\ asker'[Latest].todo = RW
      /\ \A k \in Calls : asker'[k] = asker[k]
      /\ UNCHANGED <<declared, timer, recorded, replies, losses, engine, unasked, unresumed, raced>>
  BY ReconnectIs, AskersAre
<1> SUFFICES ASSUME NEW p \in declared' \ (unasked' \cup unresumed' \cup raced'), p \notin timer'.add PROVE AskedFor(p)'
  BY DEF AskedInv
<1>2. AskedFor(p)
  BY <1>1 DEF AskedInv
<1>3. Latest' = Latest /\ Said' = Said
  BY <1>1 DEF Latest, Said
<1>4. Live(p)'
  BY <1>1, <1>3 DEF Live, WillRewatch
<1>5. Stays(p)' /\ Covered(p)' /\ Granted(p)' /\ Promised(p)'
  BY <1>1, <1>2, <1>3, <1>4 DEF AskedFor, Stays, Covered, Granted, Promised
<1> QED
  BY <1>5 DEF AskedFor

\* The engine serves a request that does not release p: it watches p no less, and whom it
\* answers has what was refused.
LEMMA ServingAsked ==
  ASSUME StructInv, NEW p \in Entries, AskedFor(p), wire # <<>>, NEW ok \in BOOLEAN, NEW refused \in SUBSET Entries,
         Answers(wire[1].from, ok, refused), EngineT',
         engine'.reasons[p] >= engine.reasons[p],
         wire[1].kind = "watch" /\ ok /\ p \in wire[1].paths \ refused => engine'.reasons[p] > 0,
         wire[1].kind = "watch" /\ losses > 0 /\ wire[1].from = Latest /\ asker[Latest].todo = W => ok
  PROVE  AskedFor(p)'
<1>1. /\ wire[1] \in Sent /\ SentOK(wire[1]) /\ wire[1].from \in Askers
  <2>1. 1 \in DOMAIN wire
    BY DEF StructInv, Types, WireT
  <2> QED
    BY <2>1, MessagesAre DEF Sent, StructInv, Mail
<1> DEFINE s == [to |-> wire[1].from, ok |-> ok, refused |-> refused]
<1>2. /\ \A r \in Sent : r = wire[1] \/ r \in Sent'
      /\ Said' = Said \cup {s}
      /\ UNCHANGED <<declared, timer, updates, asker, recorded, link, losses, unasked, unresumed, raced>>
  BY <1>1, AnswersIs DEF StructInv
<1>3. s.to = wire[1].from /\ s.ok = ok /\ s.refused = refused
  OBVIOUS
<1> HIDE DEF s
<1>4. engine.reasons[p] \in Nat /\ engine'.reasons[p] \in Nat
  BY DEF EngineT, StructInv, Types
<1>5. Latest' = Latest
  BY <1>2 DEF Latest
<1>6. Live(p) => Live(p)'
  BY <1>2, <1>4, <1>5 DEF Live, WillRewatch
<1>7. ASSUME Carried(p) PROVE Carried(p)' \/ engine'.reasons[p] > 0
  <2>1. CASE \E r \in Sent : r # wire[1] /\ r.from = Latest /\ p \in r.paths
    BY <1>2, <1>5, <1>7, <2>1 DEF Carried
  <2>2. CASE wire[1].from = Latest /\ p \in wire[1].paths
    <3>1. wire[1].kind = "watch" /\ ok
      BY <1>1, <1>7, <2>2, TodoIs, IdleIs DEF SentOK, Carried, Ended
    <3>2. CASE p \in refused
      BY <1>2, <1>3, <1>5, <1>7, <2>2, <3>2 DEF Carried
    <3>3. CASE p \notin refused
      BY <2>2, <3>1, <3>3
    <3> QED
      BY <3>2, <3>3
  <2>3. CASE \E t \in Said : t.to = Latest /\ p \in t.refused
    BY <1>2, <1>5, <1>7, <2>3 DEF Carried
  <2>4. CASE asker[Latest].at = "answered" /\ p \in asker[Latest].refused
    BY <1>2, <1>5, <1>7, <2>4 DEF Carried
  <2> QED
    BY <1>7, <2>1, <2>2, <2>3, <2>4 DEF Carried
<1>8. Stays(p)'
  BY <1>2 DEF AskedFor, Stays
<1>9. Covered(p)'
  BY <1>2, <1>6, <1>7 DEF AskedFor, Covered, Live
<1>10. Granted(p)'
  BY <1>2, <1>6 DEF AskedFor, Granted
<1>11. Promised(p)'
  <2> SUFFICES ASSUME NEW t \in Said', t.to \in Calls, t.ok, asker[t.to].todo = W, p \in asker[t.to].add \ t.refused
               PROVE  engine'.reasons[p] > 0
    BY <1>2 DEF Promised
  <2>1. CASE t \in Said
    BY <1>4, <2>1 DEF AskedFor, Promised
  <2>2. CASE t = s
    <3>1. wire[1].kind = "watch" /\ wire[1].paths = asker[wire[1].from].add
      BY <1>1, <1>3, <2>2, TodoIs, IdleIs DEF SentOK, Ended
    <3> QED
      BY <1>3, <2>2, <3>1
  <2> QED
    BY <1>2, <2>1, <2>2
<1> QED
  BY <1>8, <1>9, <1>10, <1>11 DEF AskedFor

LEMMA ServeRegisterAsked ==
  ASSUME StructInv, AskedInv, ServeRegister
  PROVE  AskedInv'
<1>1. PICK ok \in BOOLEAN : Answers(wire[1].from, ok, {})
  BY ServeRegisterIs
<1>2. /\ wire # <<>> /\ wire[1].kind # "watch" /\ EngineT' /\ engine'.reasons = engine.reasons
      /\ engine.reasons \in [Entries -> Nat]
  BY ServeRegisterIs DEF StructInv, Types, EngineT
<1>3. UNCHANGED <<declared, timer, unasked, unresumed, raced>>
  BY <1>1 DEF Answers, window
<1> SUFFICES ASSUME NEW p \in declared' \ (unasked' \cup unresumed' \cup raced'), p \notin timer'.add
             PROVE  AskedFor(p)'
  BY DEF AskedInv
<1>4. p \in Entries /\ AskedFor(p)
  BY <1>3 DEF AskedInv, StructInv, Types, WindowT
<1>5. engine'.reasons[p] >= engine.reasons[p] /\ {} \in SUBSET Entries
  BY <1>2, <1>4
<1> QED
  BY <1>1, <1>2, <1>4, <1>5, ServingAsked

LEMMA ServeWatchAsked ==
  ASSUME StructInv, AskedInv, ServeWatch
  PROVE  AskedInv'
<1>1. PICK refused \in SUBSET Entries :
        /\ wire # <<>> /\ wire[1].kind = "watch" /\ wire[1] \in Sent
        /\ EngineT' /\ Answers(wire[1].from, engine.registered, refused)
        /\ \A p \in Entries : engine'.reasons[p] = IF engine.registered /\ p \in wire[1].paths \ refused
                                                 THEN engine.reasons[p] + 1 ELSE engine.reasons[p]
  BY ServeWatchIs
<1>2. UNCHANGED <<declared, timer, unasked, unresumed, raced>>
  BY <1>1 DEF Answers, window
<1> SUFFICES ASSUME NEW p \in declared' \ (unasked' \cup unresumed' \cup raced'), p \notin timer'.add PROVE AskedFor(p)'
  BY DEF AskedInv
<1>3. p \in Entries /\ AskedFor(p)
  BY <1>2 DEF AskedInv, StructInv, Types, WindowT
<1>4. engine.reasons[p] \in Nat /\ engine.registered \in BOOLEAN
  BY <1>3 DEF StructInv, Types, EngineT
<1>5. /\ engine'.reasons[p] >= engine.reasons[p]
      /\ engine.registered /\ p \in wire[1].paths \ refused => engine'.reasons[p] > 0
  BY <1>1, <1>3, <1>4
<1>6. losses > 0 /\ asker[Latest].todo = W => engine.registered
  BY <1>1 DEF StructInv, Registered, Mail, Types, LinkT
<1> QED
  BY <1>1, <1>3, <1>4, <1>5, <1>6, ServingAsked

LEMMA ServeUnwatchAsked ==
  ASSUME StructInv, HeldInv, AskedInv, ServeUnwatch
  PROVE  AskedInv'
<1>1. /\ wire # <<>> /\ wire[1].kind = "unwatch" /\ wire[1] \in Sent /\ EngineT' /\ engine.registered \in BOOLEAN
      /\ Answers(wire[1].from, engine.registered, {})
      /\ \A p \in Entries :
           engine'.reasons[p] = IF engine.registered /\ p \in wire[1].paths /\ engine.reasons[p] > 0
                                THEN engine.reasons[p] - 1 ELSE engine.reasons[p]
  BY ServeUnwatchIs
<1>2. UNCHANGED <<declared, timer, asker, unasked, unresumed, raced>>
  BY <1>1 DEF Answers, window
<1> SUFFICES ASSUME NEW p \in declared' \ (unasked' \cup unresumed' \cup raced'), p \notin timer'.add
             PROVE  AskedFor(p)'
  BY DEF AskedInv
<1>3. p \in Entries /\ AskedFor(p) /\ HeldFor(p) /\ p \notin raced
  BY <1>2 DEF AskedInv, HeldInv, StructInv, Types, WindowT
<1>4. CASE p \notin wire[1].paths
  <2>1. engine'.reasons[p] = engine.reasons[p] /\ engine.reasons[p] \in Nat
    BY <1>1, <1>3, <1>4 DEF StructInv, Types, EngineT
  <2>2. engine'.reasons[p] >= engine.reasons[p] /\ {} \in SUBSET Entries /\ wire[1].kind # "watch"
    BY <1>1, <2>1
  <2> QED
    BY <1>1, <1>3, <2>2, ServingAsked
\* The call that is to add p again has not been answered.
<1>5. CASE p \in wire[1].paths
  <2>1. 1 \in DOMAIN wire /\ wire[1].from \in Askers
    BY <1>1, MessagesAre DEF StructInv, Types, WireT
  <2>2. PICK k \in Calls : /\ p \in asker[k].add
                           /\ asker[k].todo = W => \/ asker[k].at = "asks"
                                                   \/ \E j \in DOMAIN wire : 1 < j /\ wire[j].from = k
    BY <1>1, <1>3, <1>5, <2>1 DEF HeldFor, Owed
  <2>3. \A j \in Calls : p \in asker[j].add => j = k
    BY <1>3, <2>2 DEF StructInv, OneCall, Touches
  <2>4. ~Ended(k)
    BY <2>2, IdleIs DEF Ended
  <2>5. asker[k].todo = W =>
          /\ asker[k].at # "answered" /\ wire[1].from # k
          /\ \A s \in Said : s.to # k
    <3>1. CASE asker[k].at = "asks"
      BY <1>1, <2>4, <3>1 DEF StructInv, Mail, SentOK, SaidOK
    <3>2. ASSUME NEW j \in DOMAIN wire, 1 < j, wire[j].from = k
          PROVE  /\ asker[k].at # "answered" /\ wire[1].from # k
                 /\ \A s \in Said : s.to # k
      <4>1. wire[j] \in Sent /\ j # 1
        BY <3>2 DEF Sent
      <4>2. asker[k].at = "waits"
        BY <2>4, <3>2, <4>1 DEF StructInv, Mail, SentOK
      <4> QED
        BY <2>1, <3>2, <4>1, <4>2 DEF StructInv, Mail, Apart
    <3> QED
      BY <2>2, <3>1, <3>2
  <2>6. Said' = Said \cup {[to |-> wire[1].from, ok |-> engine.registered, refused |-> {}]}
    <3>1. {} \in SUBSET Entries /\ engine.registered \in BOOLEAN
      BY DEF StructInv, Types, EngineT
    <3> QED
      BY <1>1, <2>1, <3>1, AnswersIs DEF StructInv
  <2>7. Stays(p)' /\ Covered(p)' /\ Granted(p)'
    BY <1>2, <1>3, <2>2, <2>3, <2>5 DEF AskedFor, Stays, Covered, Granted
  <2>8. Promised(p)'
    BY <1>2, <2>3, <2>5, <2>6 DEF Promised
  <2> QED
    BY <2>7, <2>8 DEF AskedFor
<1> QED
  BY <1>4, <1>5

\* A call gives up: what it was to add is not asked for.
LEMMA FailsAsked ==
  ASSUME StructInv, AskedInv, NEW k \in Calls, Fails(k), UNCHANGED <<window, connection, engine>>
  PROVE  AskedInv'
<1>1. /\ asker'[k] = Idle /\ \A j \in Askers \ {k} : asker'[j] = asker[j]
      /\ unasked' = unasked \cup (asker[k].add \cap declared)
      /\ UNCHANGED <<declared, timer, recorded, link, wire, replies, losses, engine, unresumed, raced>>
  BY AskersAre DEF Fails, window, connection, StructInv, Types, AskerT
<1> SUFFICES ASSUME NEW p \in declared' \ (unasked' \cup unresumed' \cup raced'), p \notin timer'.add PROVE AskedFor(p)'
  BY DEF AskedInv
<1>2. AskedFor(p) /\ p \notin asker[k].add
  BY <1>1 DEF AskedInv
<1>3. Latest' = Latest /\ Sent' = Sent /\ Said' = Said /\ (losses > 0 => asker'[Latest] = asker[Latest])
  BY <1>1, AskersAre DEF Latest, Sent, Said, StructInv, Types
<1>4. (Live(p) => Live(p)') /\ (Carried(p) => Carried(p)')
  BY <1>1, <1>3 DEF Live, WillRewatch, Carried
<1>5. \A j \in Calls : /\ asker'[j].add \subseteq asker[j].add /\ asker'[j].remove \subseteq asker[j].remove
                       /\ p \in asker[j].add => asker'[j] = asker[j]
  BY <1>1, <1>2, IdleIs, AskersAre
<1>6. Stays(p)' /\ Covered(p)' /\ Granted(p)' /\ Promised(p)'
  <2>1. Stays(p)'
    BY <1>2, <1>5 DEF AskedFor, Stays
  <2>2. Covered(p)'
    BY <1>1, <1>2, <1>4, <1>5 DEF AskedFor, Covered
  <2>3. Granted(p)'
    BY <1>2, <1>4, <1>5 DEF AskedFor, Granted
  <2>4. Promised(p)'
    BY <1>1, <1>2, <1>3, <1>5 DEF AskedFor, Promised
  <2> QED
    BY <2>1, <2>2, <2>3, <2>4
<1> QED
  BY <1>6 DEF AskedFor

LEMMA AskAsked ==
  ASSUME StructInv, AskedInv, NEW k \in Calls, Ask(k)
  PROVE  AskedInv'
<1>1. /\ k \in Askers /\ asker[k].at = "asks" /\ asker' = [asker EXCEPT ![k].at = "waits"]
      /\ Sent \subseteq Sent' /\ Said' = Said
      /\ UNCHANGED <<declared, timer, recorded, link, losses, engine, unasked, unresumed, raced>>
  BY AskIs, SendsIs DEF StructInv, Types
<1>2. /\ asker'[k].at = "waits" /\ asker'[k].todo = asker[k].todo /\ asker'[k].add = asker[k].add
      /\ asker'[k].remove = asker[k].remove
      /\ \A j \in Askers \ {k} : asker'[j] = asker[j]
  BY <1>1 DEF StructInv, Types, AskerT, Asking
<1> SUFFICES ASSUME NEW p \in declared' \ (unasked' \cup unresumed' \cup raced'), p \notin timer'.add
             PROVE  AskedFor(p)'
  BY DEF AskedInv
<1>3. AskedFor(p)
  BY <1>1 DEF AskedInv
<1>4. Latest' = Latest /\ (losses > 0 => asker'[Latest] = asker[Latest])
  BY <1>1, <1>2, AskersAre DEF Latest, StructInv, Types
<1>5. (Live(p) => Live(p)') /\ (Carried(p) => Carried(p)')
  BY <1>1, <1>4 DEF Live, WillRewatch, Carried
<1>6. \A j \in Calls : /\ asker'[j].add = asker[j].add /\ asker'[j].remove = asker[j].remove
                       /\ asker'[j].todo = asker[j].todo
                       /\ asker'[j].at = "answered" => asker'[j] = asker[j]
  BY <1>2, AskersAre
<1>7. Stays(p)' /\ Covered(p)'
  BY <1>1, <1>3, <1>5, <1>6 DEF AskedFor, Stays, Covered
<1>8. Granted(p)'
  BY <1>3, <1>5, <1>6 DEF AskedFor, Granted
<1>9. Promised(p)'
  BY <1>1, <1>3, <1>6 DEF AskedFor, Promised
<1> QED
  BY <1>7, <1>8, <1>9 DEF AskedFor

\* A resume that only waits for another answer, or ends, touches no call.
LEMMA ResumeAsked ==
  ASSUME StructInv, NEW k \in Resumes, NEW p \in Entries, AskedFor(p),
         \A j \in Askers \ {k} : asker'[j] = asker[j],
         Said' = Said, Sent \subseteq Sent', engine' = engine, recorded' = recorded, link' = link, losses' = losses,
         (losses > 0 /\ k = Latest /\ p \in recorded /\ (Live(p) \/ Carried(p))) => Live(p)' \/ Carried(p)',
         (losses > 0 /\ k = Latest /\ Live(p) /\ \E j \in Calls : asker[j].at = "answered" /\ p \in asker[j].add)
           => Live(p)'
  PROVE  AskedFor(p)'
<1>1. \A j \in Calls : asker'[j] = asker[j]
  BY AskersAre
<1>2. Latest' = Latest /\ (losses > 0 => Latest \in Askers)
  BY AskersAre DEF Latest, StructInv, Types
<1>3. ~(losses > 0 /\ k = Latest) => (Live(p) => Live(p)') /\ (Carried(p) => Carried(p)')
  BY <1>2 DEF Live, WillRewatch, Carried
<1>4. Stays(p)' /\ Covered(p)'
  BY <1>1, <1>3 DEF AskedFor, Stays, Covered
<1>5. Granted(p)' /\ Promised(p)'
  BY <1>1, <1>3 DEF AskedFor, Granted, Promised
<1> QED
  BY <1>4, <1>5 DEF AskedFor

\* What is on record, or granted and not recorded, is not exempt where a resume that does
\* not matter stops short.
LEMMA StopsShortAsked ==
  ASSUME StructInv, AskedInv, NEW k \in Resumes, StopsShort(k), UNCHANGED <<window, connection, engine>>
  PROVE  AskedInv'
<1>1. /\ k \in Askers /\ \A j \in Askers \ {k} : asker'[j] = asker[j]
      /\ unresumed' = IF k = Latest THEN unresumed \cup recorded \cup Overlooked ELSE unresumed
      /\ UNCHANGED <<declared, timer, recorded, link, wire, replies, losses, engine, unasked, raced>>
  BY AskersAre DEF StopsShort, Latest, window, connection, StructInv, Types, AskerT
<1> SUFFICES ASSUME NEW p \in declared' \ (unasked' \cup unresumed' \cup raced'), p \notin timer'.add
             PROVE  AskedFor(p)'
  BY DEF AskedInv
<1>2. p \in Entries /\ AskedFor(p)
  BY <1>1 DEF AskedInv, StructInv, Types, WindowT
<1>3. Sent' = Sent /\ Said' = Said
  BY <1>1 DEF Sent, Said
<1>4. k = Latest => p \notin recorded /\ ~ \E j \in Calls : asker[j].at = "answered" /\ p \in asker[j].add
  BY <1>1, AskersAre DEF Overlooked, Busy
<1> QED
  BY <1>1, <1>2, <1>3, <1>4, ResumeAsked

LEMMA RegisterAsked ==
  ASSUME StructInv, AskedInv, NEW k \in Resumes, Register(k)
  PROVE  AskedInv'
<1>1. /\ k \in Askers /\ asker[k].todo = RW
      /\ UNCHANGED <<declared, timer, updates, recorded, engine, kept, raced>>
  BY RegisterIs
<1>2. CASE RequestOf(k) \in RequestSet /\ Sends(k, RequestOf(k)) /\ UNCHANGED <<unasked, unresumed>>
  <2> SUFFICES ASSUME NEW p \in declared' \ (unasked' \cup unresumed' \cup raced'), p \notin timer'.add
               PROVE  AskedFor(p)'
    BY DEF AskedInv
  <2>1. p \in Entries /\ AskedFor(p)
    BY <1>1, <1>2 DEF AskedInv, StructInv, Types, WindowT
  <2>2. /\ Sent \subseteq Sent' /\ Said' = Said /\ link' = link /\ losses' = losses
        /\ asker' = [asker EXCEPT ![k].at = "waits"]
    BY <1>1, <1>2, SendsIs DEF StructInv, Types
  <2>3. asker'[k].todo = RW /\ \A j \in Askers \ {k} : asker'[j] = asker[j]
    BY <1>1, <2>2 DEF StructInv, Types, AskerT, Asking
  <2>4. losses > 0 /\ k = Latest => Live(p)'
    BY <2>2, <2>3 DEF Live, WillRewatch, Latest
  <2> QED
    BY <1>1, <2>1, <2>2, <2>3, <2>4, ResumeAsked
<1>3. CASE StopsShort(k) /\ UNCHANGED connection
  BY <1>1, <1>3, StopsShortAsked DEF window
<1> QED
  BY <1>2, <1>3, RegisterIs

LEMMA RewatchAsked ==
  ASSUME StructInv, AskedInv, NEW k \in Resumes, Rewatch(k)
  PROVE  AskedInv'
<1>1. /\ k \in Askers /\ asker[k].todo = W /\ unasked' = unasked \cup Overlooked
      /\ UNCHANGED <<declared, timer, updates, recorded, engine, unresumed, raced>>
  BY RewatchIs
<1> SUFFICES ASSUME NEW p \in declared' \ (unasked' \cup unresumed' \cup raced'), p \notin timer'.add
             PROVE  AskedFor(p)'
  BY DEF AskedInv
<1>2. p \in Entries /\ AskedFor(p)
  BY <1>1 DEF AskedInv, StructInv, Types, WindowT
<1>3. ~ \E j \in Calls : asker[j].at = "answered" /\ p \in asker[j].add
  BY <1>1, AskersAre DEF Overlooked, Busy
<1>4. ASSUME NEW request \in RequestSet, Sends(k, request), request.from = k, request.paths = recorded
      PROVE  AskedFor(p)'
  <2>1. /\ Sent \subseteq Sent' /\ Said' = Said /\ link' = link /\ losses' = losses
        /\ link = "up" => request \in Sent'
        /\ asker' = [asker EXCEPT ![k].at = "waits"]
    BY <1>1, <1>4, SendsIs DEF StructInv, Types
  <2>2. asker'[k].todo = W /\ \A j \in Askers \ {k} : asker'[j] = asker[j]
    BY <1>1, <2>1 DEF StructInv, Types, AskerT, Asking
  <2>3. losses > 0 /\ k = Latest /\ p \in recorded => Carried(p)' \/ Live(p)'
    <3>1. CASE link = "up"
      BY <1>4, <2>1, <2>2, <3>1 DEF Carried, Latest
    <3>2. CASE link # "up"
      BY <2>1, <3>2 DEF Live, WillRewatch, StructInv, Types, LinkT
    <3> QED
      BY <3>1, <3>2
  <2> QED
    BY <1>1, <1>2, <1>3, <2>1, <2>2, <2>3, ResumeAsked
<1>5. CASE recorded = {} /\ asker' = [asker EXCEPT ![k] = Idle] /\ UNCHANGED connection
  <2>1. Sent' = Sent /\ Said' = Said /\ link' = link /\ losses' = losses
    BY <1>5 DEF connection, Sent, Said
  <2>2. \A j \in Askers \ {k} : asker'[j] = asker[j]
    BY <1>1, <1>5 DEF StructInv, Types, AskerT
  <2> QED
    BY <1>1, <1>2, <1>3, <1>5, <2>1, <2>2, ResumeAsked
<1> QED
  BY <1>4, <1>5, RewatchIs

LEMMA AnsweredAsked ==
  ASSUME StructInv, AskedInv, NEW k \in Calls, Answered(k)
  PROVE  AskedInv'
<1>1. /\ k \in Askers /\ asker[k].at = "answered" /\ asker[k] \in Asking
      /\ UNCHANGED <<declared, timer, updates, link, wire, replies, losses, engine>>
  BY AnsweredIs
<1>2. CASE /\ asker[k].ok /\ asker' = [asker EXCEPT ![k] = AfterAnswer(k)]
           /\ recorded' = IF asker[k].todo = W THEN recorded \cup (asker[k].add \ asker[k].refused)
                          ELSE recorded \ asker[k].remove
           /\ unasked' = unasked \cup (asker[k].refused \cap declared)
           /\ UNCHANGED <<unresumed, kept, raced>>
  <2>1. asker'[k] = AfterAnswer(k) /\ \A j \in Askers \ {k} : asker'[j] = asker[j]
    BY <1>1, <1>2 DEF StructInv, Types, AskerT
  <2> SUFFICES ASSUME NEW p \in declared' \ (unasked' \cup unresumed' \cup raced'), p \notin timer'.add PROVE AskedFor(p)'
    BY DEF AskedInv
  <2>2. AskedFor(p) /\ p \notin asker[k].refused
    BY <1>1, <1>2 DEF AskedInv
  <2>3. Latest' = Latest /\ Sent' = Sent /\ Said' = Said /\ (losses > 0 => asker'[Latest] = asker[Latest])
    BY <1>1, <2>1, AskersAre DEF Latest, Sent, Said, StructInv, Types
  <2>4. (Live(p) => Live(p)') /\ (Carried(p) => Carried(p)')
    BY <1>1, <2>3 DEF Live, WillRewatch, Carried
  <2>5. /\ asker'[k].at # "answered" /\ asker'[k].remove \subseteq asker[k].remove
        /\ asker[k].todo = W \/ asker'[k].add = asker[k].add
    <3>1. CASE asker[k].todo = U
      <4>1. asker[k].add = {} /\ AfterAnswer(k) = Idle
        BY <1>1, <3>1, AfterIs, IdleIs, TodoIs DEF StructInv, CallOK
      <4> QED
        BY <2>1, <4>1, IdleIs
    <3>2. CASE asker[k].todo = UW
      BY <1>1, <2>1, <3>2, AfterIs
    <3>3. CASE asker[k].todo = W
      BY <1>1, <2>1, <3>3, AfterIs, IdleIs
    <3> QED
      BY <1>1, <3>1, <3>2, <3>3, TasksAre
  <2>6. Stays(p)'
    BY <2>1, <2>2, <2>5, AskersAre DEF AskedFor, Stays
  <2>7. Covered(p)'
    <3>1. CASE asker[k].todo = W /\ p \in asker[k].add
      <4>1. Live(p) /\ p \in recorded'
        BY <1>1, <1>2, <2>2, <3>1 DEF AskedFor, Granted
      <4> QED
        BY <2>4, <4>1 DEF Covered
    <3>2. CASE ~(asker[k].todo = W /\ p \in asker[k].add)
      <4>1. (\E j \in Calls : p \in asker[j].add) => \E j \in Calls : p \in asker'[j].add
        BY <2>1, <2>5, <3>2, AskersAre
      <4>2. p \in recorded => p \in recorded'
        BY <1>2, <2>2 DEF AskedFor, Stays
      <4> QED
        BY <2>2, <2>4, <4>1, <4>2 DEF AskedFor, Covered
    <3> QED
      BY <3>1, <3>2
  <2>8. Granted(p)'
    BY <2>1, <2>2, <2>4, <2>5, AskersAre DEF AskedFor, Granted
  <2>9. Promised(p)'
    <3>1. \A s \in Said : s.to # k
      BY <1>1, IdleIs DEF StructInv, Mail, SaidOK, Ended
    <3> QED
      BY <1>1, <2>1, <2>2, <2>3, <3>1, AskersAre DEF AskedFor, Promised
  <2> QED
    BY <2>6, <2>7, <2>8, <2>9 DEF AskedFor
<1>3. CASE Fails(k)
  BY <1>1, <1>3, FailsAsked DEF window, connection
<1> QED
  BY <1>2, <1>3, AnsweredIs

LEMMA ResumedAsked ==
  ASSUME StructInv, AskedInv, NEW k \in Resumes, Resumed(k)
  PROVE  AskedInv'
<1>1. /\ k \in Askers /\ asker[k].at = "answered" /\ asker[k].todo \in {RW, W}
      /\ UNCHANGED <<declared, timer, recorded, link, wire, replies, losses, engine, raced>>
  BY ResumedIs DEF window, connection
<1>2. CASE /\ asker[k].ok \/ asker[k].todo = W
           /\ asker' = [asker EXCEPT ![k] = AfterAnswer(k)]
           /\ unasked' = unasked \cup (asker[k].refused \cap declared) /\ unresumed' = unresumed
  <2>1. asker'[k] = AfterAnswer(k) /\ \A j \in Askers \ {k} : asker'[j] = asker[j]
    BY <1>1, <1>2 DEF StructInv, Types, AskerT
  <2> SUFFICES ASSUME NEW p \in declared' \ (unasked' \cup unresumed' \cup raced'), p \notin timer'.add
               PROVE  AskedFor(p)'
    BY DEF AskedInv
  <2>2. p \in Entries /\ AskedFor(p) /\ p \notin asker[k].refused
    BY <1>1, <1>2 DEF AskedInv, StructInv, Types, WindowT
  <2>3. Latest' = Latest /\ Sent' = Sent /\ Said' = Said
    BY <1>1 DEF Latest, Sent, Said
  <2>4. ASSUME losses > 0, k = Latest, Live(p) \/ Carried(p) PROVE Live(p)'
    <3>1. CASE link = "down"
      BY <1>1, <3>1 DEF Live, WillRewatch
    <3>2. CASE asker[k].todo = RW
      <4>1. AfterAnswer(k).at = "asks" /\ AfterAnswer(k).todo = W
        BY <1>1, <3>2, AfterIs
      <4> QED
        BY <1>1, <2>1, <2>3, <2>4, <4>1 DEF Live, WillRewatch
    <3>3. CASE link = "up" /\ asker[k].todo = W
      <4>1. ~WillRewatch
        BY <1>1, <2>4, <3>3, TodoIs DEF WillRewatch
      <4>2. \A r \in Sent : r.from # k
        BY <1>1, IdleIs DEF StructInv, Mail, SentOK, Ended
      <4>3. \A s \in Said : s.to # k
        BY <1>1, IdleIs DEF StructInv, Mail, SaidOK, Ended
      <4>4. ~Carried(p)
        BY <2>2, <2>4, <4>2, <4>3 DEF Carried
      <4> QED
        BY <1>1, <2>4, <4>1, <4>4 DEF Live
    <3> QED
      BY <1>1, <3>1, <3>2, <3>3 DEF StructInv, Types, LinkT
  <2> QED
    BY <1>1, <2>1, <2>2, <2>3, <2>4, ResumeAsked
<1>3. CASE StopsShort(k)
  BY <1>3, ResumedIs, StopsShortAsked
<1> QED
  BY <1>2, <1>3, ResumedIs

LEMMA TimesOutAsked ==
  ASSUME StructInv, AskedInv, NEW k \in Askers, TimesOut(k)
  PROVE  AskedInv'
BY AskersAre, FailsAsked, StopsShortAsked DEF TimesOut

LEMMA InitAsked == RequestsInit => AskedInv
BY DEF RequestsInit, AskedInv

\* At rest there is no call, and no resume to come or under way.
LEMMA RestIs ==
  ASSUME StructInv, Rest
  PROVE  /\ timer.add = {} /\ timer.remove = {} /\ ~WillRewatch /\ \A p \in Entries : ~Carried(p)
         /\ \A k \in Calls : asker[k].add = {} /\ asker[k].remove = {}
<1>1. timer = NoDelta /\ link = "up" /\ \A k \in Askers : asker[k] = Idle
  BY AskersAre, TasksAre DEF Rest, Busy
<1>2. losses > 0 => Latest \in Askers
  BY AskersAre DEF StructInv, Types
<1> QED
  BY <1>1, <1>2, IdleIs, TodoIs, AskersAre DEF WillRewatch, Carried, NoDelta

\* DeclaredIsWatched: at rest the engine watches what the window shows, and the client has
\* it on record, whatever was lost and whichever engine was found.
THEOREM WhatIsShownIsWatched == RequestsSpec => []DeclaredIsWatched
<1>1. ASSUME StructInv, HeldInv, AskedInv, [RequestsNext]_requestsVars PROVE AskedInv'
  <2>1. ASSUME NEW next \in SUBSET Entries, Update(next) PROVE AskedInv'
    BY <1>1, <2>1, UpdateAsked
  <2>2. CASE Fire
    BY <1>1, <2>2, FireAsked
  <2>3. CASE Deliver
    BY <1>1, <2>3, DeliverAsked
  <2>4. CASE Lose
    BY <1>1, <2>4, LoseAsked
  <2>5. CASE Reconnect
    BY <1>1, <2>5, ReconnectAsked
  <2>6. CASE ServeRegister
    BY <1>1, <2>6, ServeRegisterAsked
  <2>7. CASE ServeWatch
    BY <1>1, <2>7, ServeWatchAsked
  <2>8. CASE ServeUnwatch
    BY <1>1, <2>8, ServeUnwatchAsked
  <2>9. ASSUME NEW k \in Askers, Ask(k) PROVE AskedInv'
    BY <1>1, <2>9, AskAsked DEF Ask
  <2>10. ASSUME NEW k \in Askers, Register(k) PROVE AskedInv'
    BY <1>1, <2>10, RegisterAsked DEF Register
  <2>11. ASSUME NEW k \in Askers, Rewatch(k) PROVE AskedInv'
    BY <1>1, <2>11, RewatchAsked DEF Rewatch
  <2>12. ASSUME NEW k \in Askers, Answered(k) PROVE AskedInv'
    BY <1>1, <2>12, AnsweredAsked DEF Answered
  <2>13. ASSUME NEW k \in Askers, Resumed(k) PROVE AskedInv'
    BY <1>1, <2>13, ResumedAsked DEF Resumed
  <2>14. ASSUME NEW k \in Askers, TimesOut(k) PROVE AskedInv'
    BY <1>1, <2>14, TimesOutAsked
  <2>15. CASE UNCHANGED requestsVars
    BY <1>1, <2>15 DEF requestsVars, window, connection, ghosts, AskedInv, AskedFor, Stays, Covered, Granted, Promised,
       Live, WillRewatch, Carried, Latest, Sent, Said
  <2> QED
    BY <1>1, <2>1, <2>2, <2>3, <2>4, <2>5, <2>6, <2>7, <2>8, <2>9, <2>10, <2>11, <2>12, <2>13, <2>14,
       <2>15 DEF RequestsNext
<1>2. StructInv => RequestsTypeOK
  <2> SUFFICES ASSUME StructInv PROVE RequestsTypeOK
    OBVIOUS
  <2>1. /\ declared \subseteq Entries /\ recorded \subseteq Entries
        /\ timer.add \subseteq declared /\ timer.remove \cap declared = {}
        /\ link \in {"up", "down"} /\ (link = "down" => wire = <<>> /\ replies = <<>>)
        /\ engine.reasons \in [Entries -> Nat]
    BY DEF StructInv, Types, WindowT, LinkT, Mail, EngineT
  <2>2. ASSUME NEW k \in Askers
        PROVE  asker[k].at \in {"idle", "asks", "waits", "answered"} /\ (asker[k].at = "idle" <=> asker[k].todo = <<>>)
    <3>1. asker[k] \in Asking
      BY DEF StructInv, Types, AskerT
    <3> QED
      BY <3>1, AskersAre, TasksAre, TodoIs, IdleIs DEF Asking
  <2> QED
    BY <2>1, <2>2 DEF RequestsTypeOK
<1>3. StructInv /\ AskedInv => DeclaredIsWatched
  <2> SUFFICES ASSUME StructInv, AskedInv, Rest, NEW p \in declared \ (unasked \cup unresumed \cup raced)
               PROVE  p \in recorded /\ engine.reasons[p] > 0
    BY <1>2 DEF DeclaredIsWatched
  <2>1. p \in Entries /\ AskedFor(p)
    BY RestIs DEF AskedInv, StructInv, Types, WindowT
  <2> QED
    BY <2>1, RestIs DEF AskedFor, Covered, Live
<1> QED
  BY <1>1, <1>3, InitAsked, Structure, WhatIsShownIsHeld, PTL DEF RequestsSpec
-----------------------------------------------------------------------------
(* What the window no longer shows.                                        *)

\* Nobody has asked the engine to watch p, nor is to: it is not on record either.
Taken(p) == engine.reasons[p] = 0 /\ \A r \in Sent : r.kind = "watch" => p \notin r.paths
Away(p)  == p \notin recorded /\ Taken(p)
Releases(k, p) == Unwatches(k) /\ p \in asker[k].remove

NotAdded(p) == \A k \in Calls : p \notin asker[k].add
Leaves(p)   == (\E k \in Calls : Releases(k, p)) \/ Away(p)
Served(p)   == \A k \in Calls : Releases(k, p) /\ asker[k].at = "answered" /\ asker[k].ok => Taken(p)
Told(p)     == \A s \in Said : s.to \in Calls /\ Releases(s.to, p) /\ s.ok => Taken(p)
Behind(p)   == \A i, j \in DOMAIN wire : /\ wire[i].kind = "unwatch" /\ p \in wire[i].paths
                                         /\ wire[j].kind = "watch" /\ p \in wire[j].paths
                                         => j < i
LeftFor(p)  == NotAdded(p) /\ Leaves(p) /\ Served(p) /\ Told(p) /\ Behind(p)

\* Of what the window does not show and its timer does not hold: no call adds it; a call is
\* about to release it, or it is away; the engine has done what it has told a call; and a
\* release comes behind every request to watch. It has one reason to be watched at most.
LeftInv == /\ \A p \in Entries \ (declared \cup kept \cup raced) : p \notin timer.remove => LeftFor(p)
           /\ \A p \in Entries \ kept : engine.reasons[p] <= 1

LEMMA InitLeft == RequestsInit => LeftInv
<1> SUFFICES ASSUME RequestsInit PROVE LeftInv
  OBVIOUS
<1>1. \A p \in Entries : engine.reasons[p] = 0
  BY DEF RequestsInit, NewEngine
<1>2. \A i : i \notin DOMAIN <<>>
  OBVIOUS
<1>3. \A k \in Calls : asker[k] = Idle
  BY AskersAre DEF RequestsInit
<1>4. ASSUME NEW p \in Entries PROVE LeftFor(p)
  BY <1>1, <1>2, <1>3, IdleIs, TodoIs
     DEF RequestsInit, LeftFor, NotAdded, Leaves, Served, Told, Behind, Away, Taken, Sent, Said, Releases, Unwatches
<1> QED
  BY <1>1, <1>4 DEF LeftInv

LEMMA UpdateLeft ==
  ASSUME StructInv, LeftInv, NEW next \in SUBSET Entries, Update(next)
  PROVE  LeftInv'
<1>1. /\ declared' = next /\ timer' = Delta(declared, next) /\ kept' = kept \cup timer.remove
      /\ UNCHANGED <<asker, recorded, link, wire, replies, losses, engine, raced>>
  BY DEF Update, connection
<1>2. ASSUME NEW p \in Entries \ (declared' \cup kept' \cup raced'), p \notin timer'.remove PROVE LeftFor(p)'
  <2>1. LeftFor(p)
    BY <1>1, <1>2 DEF Delta, LeftInv
  <2> QED
    BY <1>1, <2>1 DEF LeftFor, NotAdded, Leaves, Served, Told, Behind, Away, Taken, Sent, Said, Releases, Unwatches
<1> QED
  BY <1>1, <1>2 DEF LeftInv

\* A request to release is of a call that waits for its answer, unless its time is up ...
LEMMA UnwatchIs ==
  ASSUME StructInv, NEW r \in Sent, r.kind = "unwatch", asker[r.from] # Idle
  PROVE  /\ r.from \in Calls /\ asker[r.from].at = "waits" /\ Unwatches(r.from)
         /\ r.paths = asker[r.from].remove
<1>1. r.from \in Askers /\ SentOK(r)
  BY MessagesAre DEF StructInv, Mail
<1>2. asker[r.from].at = "waits" /\ r.kind = Head(asker[r.from].todo)
  BY <1>1 DEF SentOK, Ended
<1>3. r.from \notin Resumes
  BY <1>2, TasksAre, TodoIs
<1>4. r.from \in Calls
  BY <1>1, <1>3, AskersAre
<1> QED
  BY <1>1, <1>2, <1>4, TasksAre, TodoIs DEF SentOK, Ended, Unwatches

\* ... and then what it was to release is kept.
LateIsKept == \A r \in Sent : r.kind = "unwatch" /\ asker[r.from] = Idle => r.paths \subseteq kept

\* An asker that gives up has nothing on its way, or a request it has waited for.
LEMMA LateFails ==
  ASSUME StructInv, LateIsKept, NEW k \in Calls, Fails(k), UNCHANGED <<window, connection, engine>>
  PROVE  LateIsKept'
<1>1. /\ \A j \in Askers \ {k} : asker'[j] = asker[j]
      /\ kept' = IF Head(asker[k].todo) = "unwatch" THEN kept \cup asker[k].remove ELSE kept
      /\ Sent' = Sent
  BY AskersAre DEF Fails, connection, Sent, StructInv, Types, AskerT
<1> SUFFICES ASSUME NEW r \in Sent, r.kind = "unwatch", asker'[r.from] = Idle PROVE r.paths \subseteq kept'
  BY <1>1 DEF LateIsKept
<1>2. r.from \in Askers
  BY MessagesAre
<1>3. CASE asker[r.from] = Idle
  BY <1>1, <1>3 DEF LateIsKept
<1>4. CASE asker[r.from] # Idle
  BY <1>1, <1>2, <1>4, UnwatchIs, TodoIs DEF Unwatches
<1> QED
  BY <1>3, <1>4

LEMMA LateStopsShort ==
  ASSUME StructInv, LateIsKept, NEW k \in Resumes, StopsShort(k), UNCHANGED <<window, connection, engine>>
  PROVE  LateIsKept'
<1>1. /\ \A j \in Askers \ {k} : asker'[j] = asker[j]
      /\ kept' = kept /\ Sent' = Sent
  BY AskersAre DEF StopsShort, connection, Sent, StructInv, Types, AskerT
<1> SUFFICES ASSUME NEW r \in Sent, r.kind = "unwatch", asker'[r.from] = Idle PROVE r.paths \subseteq kept
  BY <1>1 DEF LateIsKept
<1>2. r.from \in Askers /\ (r.from = k => r.from \notin Calls)
  BY MessagesAre, AskersAre
<1>3. asker[r.from] = Idle
  BY <1>1, <1>2, UnwatchIs
<1> QED
  BY <1>3 DEF LateIsKept

\* Whoever asks is not idle.
LEMMA LateSends ==
  ASSUME StructInv, LateIsKept, NEW k \in Askers, NEW request \in RequestSet, request.from = k, Sends(k, request),
         kept \subseteq kept'
  PROVE  LateIsKept'
<1>1. Sent' \subseteq Sent \cup {request}
  BY SendsIs DEF StructInv, Types
<1>2. /\ asker'[k].at = "waits" /\ \A j \in Askers \ {k} : asker'[j] = asker[j]
  <2>1. asker[k] \in Asking /\ asker \in [Askers -> Asking]
    BY DEF StructInv, Types, AskerT
  <2> QED
    BY <2>1, SendsIs DEF StructInv, Types, Asking
<1>3. asker'[k] # Idle
  BY <1>2, IdleIs
<1>4. \A r \in Sent : r.from \in Askers
  BY MessagesAre
<1> QED
  BY <1>1, <1>2, <1>3, <1>4 DEF LateIsKept

LEMMA LateServes ==
  ASSUME StructInv, LateIsKept, wire # <<>>, NEW ok \in BOOLEAN, NEW refused \in SUBSET Entries,
         Answers(wire[1].from, ok, refused), kept \subseteq kept'
  PROVE  LateIsKept'
<1>1. wire[1].from \in Askers
  BY MessagesAre DEF Sent, StructInv, Types, WireT
<1>2. Sent' \subseteq Sent /\ asker' = asker
  BY <1>1, AnswersIs DEF StructInv
<1> QED
  BY <1>2 DEF LateIsKept

LEMMA LateStays ==
  ASSUME StructInv, LateIsKept, [RequestsNext]_requestsVars
  PROVE  LateIsKept'
<1>1. ASSUME Sent' \subseteq Sent, kept \subseteq kept',
             \A j \in Askers : asker'[j] = asker[j] \/ asker'[j].at # "idle"
                                                  \/ \A r \in Sent : r.from # j
      PROVE  LateIsKept'
  <2>1. \A r \in Sent : r.from \in Askers
    BY MessagesAre
  <2> QED
    BY <1>1, <2>1, IdleIs DEF LateIsKept
<1>2. ASSUME NEW j \in Askers, asker[j].at \in {"asks", "answered"} PROVE \A r \in Sent : r.from # j
  BY <1>2, IdleIs DEF StructInv, Mail, SentOK, Ended
<1>3. ASSUME NEW next \in SUBSET Entries, Update(next) PROVE LateIsKept'
  BY <1>1, <1>3 DEF Update, connection, Sent
<1>4. CASE Fire
  <2>1. Sent' = Sent /\ kept' = kept
    BY <1>4, FireIs DEF Sent
  <2>2. \A j \in Askers : asker'[j] = asker[j] \/ asker'[j].at # "idle"
    BY <1>4, FireIs
  <2> QED
    BY <1>1, <2>1, <2>2
<1>5. CASE Deliver
  <2>1. Sent' = Sent /\ kept' = kept
    BY <1>5, DeliverIs DEF Sent, StructInv
  <2>2. \A j \in Askers : asker'[j] = asker[j] \/ asker'[j].at # "idle"
    BY <1>5, DeliverIs DEF StructInv
  <2> QED
    BY <1>1, <2>1, <2>2
<1>6. CASE Lose
  BY <1>6, LoseIs DEF LateIsKept
<1>7. CASE Reconnect
  <2>1. Sent' = Sent /\ kept' = kept
    BY <1>7, ReconnectIs DEF Sent
  <2>2. \A j \in Askers : asker'[j] = asker[j] \/ asker'[j].at # "idle"
    BY <1>7, ReconnectIs
  <2> QED
    BY <1>1, <2>1, <2>2
<1>8. {} \in SUBSET Entries
  OBVIOUS
<1>9. CASE ServeRegister
  BY <1>8, <1>9, ServeRegisterIs, LateServes
<1>10. CASE ServeWatch
  <2>1. kept \subseteq kept'
    BY <1>10 DEF ServeWatch
  <2>2. engine.registered \in BOOLEAN
    BY DEF StructInv, Types, EngineT
  <2> QED
    BY <1>10, <2>1, <2>2, ServeWatchIs, LateServes
<1>11. CASE ServeUnwatch
  BY <1>8, <1>11, ServeUnwatchIs, LateServes
<1>12. ASSUME NEW k \in Calls, Ask(k) PROVE LateIsKept'
  BY <1>12, AskIs, LateSends
<1>13. ASSUME NEW k \in Resumes, Register(k) PROVE LateIsKept'
  BY <1>13, RegisterIs, LateSends, LateStopsShort DEF window
<1>14. ASSUME NEW k \in Resumes, Rewatch(k) PROVE LateIsKept'
  <2>1. /\ k \in Askers /\ asker[k].at = "asks" /\ kept \subseteq kept'
    BY <1>14, RewatchIs
  <2>2. CASE asker' = [asker EXCEPT ![k] = Idle] /\ UNCHANGED connection
    <3>1. Sent' = Sent /\ \A j \in Askers \ {k} : asker'[j] = asker[j]
      BY <2>2 DEF Sent, connection, StructInv, Types, AskerT
    <3> QED
      BY <1>1, <1>2, <2>1, <3>1
  <2> QED
    BY <1>14, <2>1, <2>2, RewatchIs, LateSends
<1>15. ASSUME NEW k \in Askers, asker[k].at = "answered", asker' = [asker EXCEPT ![k] = AfterAnswer(k)],
              UNCHANGED <<wire, kept>>
       PROVE  LateIsKept'
  <2>1. Sent' = Sent /\ \A j \in Askers \ {k} : asker'[j] = asker[j]
    BY <1>15 DEF Sent, StructInv, Types, AskerT
  <2> QED
    BY <1>1, <1>2, <1>15, <2>1
<1>16. ASSUME NEW k \in Calls, Answered(k) PROVE LateIsKept'
  BY <1>15, <1>16, AnsweredIs, LateFails DEF window, connection
<1>17. ASSUME NEW k \in Resumes, Resumed(k) PROVE LateIsKept'
  BY <1>15, <1>17, ResumedIs, LateStopsShort DEF connection
<1>18. ASSUME NEW k \in Askers, TimesOut(k) PROVE LateIsKept'
  BY <1>18, AskersAre, LateFails, LateStopsShort DEF TimesOut
<1>19. CASE UNCHANGED requestsVars
  BY <1>19 DEF requestsVars, connection, ghosts, LateIsKept, Sent
<1> QED
  BY <1>3, <1>4, <1>5, <1>6, <1>7, <1>9, <1>10, <1>11, <1>12, <1>13, <1>14, <1>16, <1>17, <1>18, <1>19
     DEF RequestsNext, Ask, Register, Rewatch, Answered, Resumed

LEMMA FireLeft ==
  ASSUME StructInv, LateIsKept, LeftInv, Fire
  PROVE  LeftInv'
<1>1. /\ updates \in Calls /\ updates \in Askers /\ asker[updates] = Idle
      /\ \A k \in Askers \ {updates} : asker'[k] = asker[k]
      /\ asker'[updates].at = "asks"
      /\ asker'[updates].add = timer.add /\ asker'[updates].remove = timer.remove
      /\ timer.remove # {} => asker'[updates].todo \in {U, UW}
      /\ raced' = raced \cup ((timer.add \cup timer.remove) \cap UNION {Touches(k) : k \in Busy \cap Calls})
      /\ UNCHANGED <<declared, updates, recorded, link, wire, replies, losses, engine, unasked, unresumed, kept>>
  BY FireIs, AskersAre
<1>2. Said' = Said /\ Sent' = Sent
  BY <1>1 DEF Said, Sent
<1>3. \A s \in Said : s.to # updates
  BY <1>1, IdleIs DEF StructInv, Mail, SaidOK, Ended, Fire
<1>4. ~Unwatches(updates)
  BY <1>1, IdleIs, TodoIs DEF Unwatches
<1>5. ASSUME NEW p \in Entries \ (declared' \cup kept' \cup raced') PROVE LeftFor(p)'
  <2>1. p \in Entries /\ p \notin declared /\ p \notin kept /\ p \notin raced /\ p \notin timer.add
    BY <1>1, <1>5 DEF StructInv, Types, WindowT
  <2>2. Taken(p)' <=> Taken(p)
    BY <1>1, <1>2 DEF Taken
  <2>3. \A k \in Calls \ {updates} : Releases(k, p)' <=> Releases(k, p)
    BY <1>1, AskersAre DEF Releases, Unwatches
  <2>4. CASE p \in timer.remove
    <3>1. \A k \in Calls : p \notin Touches(k)
      <4>1. \A k \in Calls : p \in Touches(k) => k \in Busy
        BY IdleIs, AskersAre, TasksAre DEF Touches, Busy
      <4> QED
        BY <1>1, <1>5, <2>4, <4>1
    <3>2. Releases(updates, p)'
      BY <1>1, <2>4 DEF Releases, Unwatches
    <3>3. \A k \in Calls \ {updates} : ~Releases(k, p)'
      BY <2>3, <3>1 DEF Releases, Touches
    <3>4. NotAdded(p)'
      BY <1>1, <2>1, <3>1, AskersAre DEF NotAdded, Touches
    <3>5. Leaves(p)' /\ Served(p)' /\ Told(p)'
      BY <1>1, <1>2, <1>3, <3>2, <3>3 DEF Leaves, Served, Told
    <3>6. Behind(p)'
      <4>1. \A i \in DOMAIN wire : wire[i].kind = "unwatch" => p \notin wire[i].paths
        BY <2>1, <3>1, UnwatchIs DEF LateIsKept, Sent, Touches
      <4> QED
        BY <1>1, <4>1 DEF Behind
    <3> QED
      BY <3>4, <3>5, <3>6 DEF LeftFor
  <2>5. CASE p \notin timer.remove
    <3>1. LeftFor(p)
      BY <2>1, <2>5 DEF LeftInv
    <3>2. ~Releases(updates, p)' /\ ~Releases(updates, p)
      BY <1>1, <1>4, <2>5 DEF Releases
    <3>3. NotAdded(p)'
      BY <1>1, <2>1, <3>1, AskersAre DEF LeftFor, NotAdded
    <3>4. Leaves(p)'
      BY <1>1, <2>2, <2>3, <3>1, <3>2 DEF LeftFor, Leaves, Away
    <3>5. Served(p)' /\ Told(p)'
      BY <1>1, <1>2, <2>2, <2>3, <3>1, <3>2, AskersAre DEF LeftFor, Served, Told
    <3>6. Behind(p)'
      BY <1>1, <3>1 DEF LeftFor, Behind
    <3> QED
      BY <3>3, <3>4, <3>5, <3>6 DEF LeftFor
  <2> QED
    BY <2>4, <2>5
<1> QED
  BY <1>1, <1>5 DEF LeftInv

LEMMA DeliverLeft ==
  ASSUME StructInv, LeftInv, Deliver
  PROVE  LeftInv'
<1>1. PICK s \in Said :
         /\ Said' = Said \ {s}
         /\ \/ asker'[s.to].at = "answered" /\ asker'[s.to].ok = s.ok
            \/ asker'[s.to] = asker[s.to]
         /\ \A j \in Askers : /\ j # s.to => asker'[j] = asker[j]
                              /\ asker'[j].todo = asker[j].todo /\ asker'[j].add = asker[j].add
                              /\ asker'[j].remove = asker[j].remove
         /\ s.to \in Askers
         /\ UNCHANGED <<declared, timer, updates, recorded, link, wire, losses, engine, unasked, kept, raced>>
  BY DeliverIs DEF StructInv, Mail
<1>2. PICK k \in Askers : k = s.to
  BY <1>1
<1>3. asker'[k] = asker[k] \/ asker'[k].ok = s.ok
  BY <1>1, <1>2
<1>4. \A j \in Askers : asker'[j].todo = asker[j].todo /\ asker'[j].add = asker[j].add /\ asker'[j].remove = asker[j].remove
  BY <1>1
<1>5. Sent' = Sent
  BY <1>1 DEF Sent
<1>6. ASSUME NEW p \in Entries \ (declared' \cup kept' \cup raced'), p \notin timer'.remove PROVE LeftFor(p)'
  <2>1. LeftFor(p)
    BY <1>1, <1>6 DEF LeftInv
  <2>2. Taken(p)' <=> Taken(p)
    BY <1>1, <1>5 DEF Taken
  <2>3. \A j \in Calls : Releases(j, p)' <=> Releases(j, p)
    BY <1>4, AskersAre DEF Releases, Unwatches
  <2>4. NotAdded(p)' /\ Leaves(p)'
    BY <1>1, <1>4, <2>1, <2>2, <2>3, AskersAre DEF LeftFor, NotAdded, Leaves, Away
  <2>5. Served(p)'
    <3> SUFFICES ASSUME NEW j \in Calls, Releases(j, p)', asker'[j].at = "answered", asker'[j].ok PROVE Taken(p)'
      BY DEF Served
    <3>1. CASE j = k
      BY <1>1, <1>2, <1>3, <2>1, <2>2, <2>3, <3>1 DEF LeftFor, Told, Served
    <3>2. CASE j # k
      BY <1>1, <1>2, <2>1, <2>2, <2>3, <3>2, AskersAre DEF LeftFor, Served
    <3> QED
      BY <3>1, <3>2
  <2>6. Told(p)' /\ Behind(p)'
    BY <1>1, <2>1, <2>2, <2>3 DEF LeftFor, Told, Behind
  <2> QED
    BY <2>4, <2>5, <2>6 DEF LeftFor
<1> QED
  BY <1>1, <1>6 DEF LeftInv

LEMMA LoseLeft ==
  ASSUME StructInv, LeftInv, Lose
  PROVE  LeftInv'
<1>1. /\ wire' = <<>> /\ Said' = {} /\ Sent' = {}
      /\ \A p \in Entries : engine'.reasons[p] = engine.reasons[p] \/ engine'.reasons[p] = 0
      /\ UNCHANGED <<declared, timer, recorded, kept, raced>>
  BY LoseIs
<1>2. \A k \in Askers :
        /\ asker'[k].todo = asker[k].todo /\ asker'[k].add = asker[k].add /\ asker'[k].remove = asker[k].remove
        /\ asker[k].at = "waits" => asker'[k].ok = FALSE
        /\ asker[k].at # "waits" => asker'[k] = asker[k]
  BY LoseIs
<1>3. ASSUME NEW p \in Entries \ (declared' \cup kept' \cup raced'), p \notin timer'.remove PROVE LeftFor(p)'
  <2>1. LeftFor(p)
    BY <1>1, <1>3 DEF LeftInv
  <2>2. Taken(p) => Taken(p)'
    BY <1>1 DEF Taken
  <2>3. \A j \in Calls : Releases(j, p)' <=> Releases(j, p)
    BY <1>2, AskersAre DEF Releases, Unwatches
  <2>4. NotAdded(p)' /\ Leaves(p)'
    BY <1>1, <1>2, <2>1, <2>2, <2>3, AskersAre DEF LeftFor, NotAdded, Leaves, Away
  <2>5. Served(p)'
    BY <1>2, <2>1, <2>2, <2>3, AskersAre DEF LeftFor, Served
  <2>6. Told(p)' /\ Behind(p)'
    <3>1. \A i : i \notin DOMAIN <<>>
      OBVIOUS
    <3> QED
      BY <1>1, <3>1 DEF Told, Behind
  <2> QED
    BY <2>4, <2>5, <2>6 DEF LeftFor
<1>4. \A p \in Entries \ kept' : engine'.reasons[p] <= 1
  BY <1>1 DEF LeftInv
<1> QED
  BY <1>3, <1>4 DEF LeftInv

LEMMA ReconnectLeft ==
  ASSUME StructInv, LeftInv, Reconnect
  PROVE  LeftInv'
<1>1. /\ \A k \in Calls : asker'[k] = asker[k]
      /\ UNCHANGED <<declared, timer, recorded, wire, replies, engine, kept, raced>>
  BY ReconnectIs, AskersAre
<1>2. Sent' = Sent /\ Said' = Said
  BY <1>1 DEF Sent, Said
<1>3. ASSUME NEW p \in Entries, LeftFor(p) PROVE LeftFor(p)'
  BY <1>1, <1>2, <1>3 DEF LeftFor, NotAdded, Leaves, Served, Told, Behind, Away, Taken, Releases, Unwatches
<1> QED
  BY <1>1, <1>3 DEF LeftInv

\* The engine serves a request: it lets go of no path that somebody is to release.
LEMMA ServingLeft ==
  ASSUME StructInv, NEW p \in Entries, LeftFor(p), wire # <<>>, NEW ok \in BOOLEAN, NEW refused \in SUBSET Entries,
         Answers(wire[1].from, ok, refused), EngineT',
         Taken(p) => engine'.reasons[p] = 0,
         wire[1].kind = "unwatch" /\ ok /\ p \in wire[1].paths => engine'.reasons[p] = 0
  PROVE  LeftFor(p)'
<1>1. 1 \in DOMAIN wire /\ wire[1] \in Sent /\ SentOK(wire[1]) /\ wire[1].from \in Askers
  <2>1. 1 \in DOMAIN wire
    BY DEF StructInv, Types, WireT
  <2> QED
    BY <2>1, MessagesAre DEF Sent, StructInv, Mail
<1> DEFINE s == [to |-> wire[1].from, ok |-> ok, refused |-> refused]
<1>2. /\ Sent' \subseteq Sent /\ Said' = Said \cup {s}
      /\ DOMAIN wire' = 1..(Len(wire) - 1) /\ DOMAIN wire = 1..Len(wire) /\ Len(wire) \in Nat
      /\ \A i \in DOMAIN wire' : i + 1 \in DOMAIN wire /\ wire'[i] = wire[i + 1]
      /\ UNCHANGED <<declared, timer, updates, asker, recorded, link, losses, unasked, unresumed, raced>>
  BY <1>1, AnswersIs DEF StructInv
<1>3. s.to = wire[1].from /\ s.ok = ok
  OBVIOUS
<1> HIDE DEF s
<1>4. Taken(p) => Taken(p)'
  BY <1>2 DEF Taken
<1>5. \A k : Releases(k, p)' <=> Releases(k, p)
  BY <1>2 DEF Releases, Unwatches
<1>6. NotAdded(p)' /\ Leaves(p)' /\ Served(p)'
  BY <1>2, <1>4, <1>5 DEF LeftFor, NotAdded, Leaves, Served, Away
<1>7. ASSUME wire[1].kind = "unwatch", ok, p \in wire[1].paths PROVE Taken(p)'
  <2>1. \A j \in DOMAIN wire : wire[j].kind = "watch" /\ p \in wire[j].paths => j < 1
    BY <1>1, <1>7 DEF LeftFor, Behind
  <2>2. \A j \in DOMAIN wire : ~(j < 1)
    BY <1>2
  <2>3. \A r \in Sent : r.kind = "watch" => p \notin r.paths
    BY <2>1, <2>2 DEF Sent
  <2> QED
    BY <1>2, <1>7, <2>3 DEF Taken
<1>8. Told(p)'
  <2> SUFFICES ASSUME NEW t \in Said', t.to \in Calls, Releases(t.to, p), t.ok PROVE Taken(p)'
    BY <1>5 DEF Told
  <2>1. CASE t \in Said
    BY <1>4, <2>1 DEF LeftFor, Told
  <2>2. CASE t = s
    <3>1. asker[wire[1].from] # Idle
      BY <1>3, <2>2, IdleIs, TodoIs DEF Releases, Unwatches
    <3>2. wire[1].kind = "unwatch"
      BY <1>1, <1>3, <2>2, <3>1, TodoIs DEF SentOK, Ended, Releases, Unwatches
    <3> QED
      BY <1>1, <1>3, <1>7, <2>2, <3>1, <3>2, UnwatchIs DEF Releases
  <2> QED
    BY <1>2, <2>1, <2>2
<1>9. Behind(p)'
  <2> SUFFICES ASSUME NEW i \in DOMAIN wire', NEW j \in DOMAIN wire',
                      wire'[i].kind = "unwatch", p \in wire'[i].paths, wire'[j].kind = "watch", p \in wire'[j].paths
               PROVE  j < i
    BY DEF Behind
  <2>1. /\ i + 1 \in DOMAIN wire /\ j + 1 \in DOMAIN wire /\ i \in Nat /\ j \in Nat
        /\ wire'[i] = wire[i + 1] /\ wire'[j] = wire[j + 1]
    BY <1>2
  <2>2. j + 1 < i + 1
    BY <2>1 DEF LeftFor, Behind
  <2> QED
    BY <2>1, <2>2
<1> QED
  BY <1>6, <1>8, <1>9 DEF LeftFor

LEMMA ServeRegisterLeft ==
  ASSUME StructInv, LeftInv, ServeRegister
  PROVE  LeftInv'
<1>1. PICK ok \in BOOLEAN : Answers(wire[1].from, ok, {})
  BY ServeRegisterIs
<1>2. /\ wire # <<>> /\ wire[1].kind # "unwatch" /\ {} \in SUBSET Entries
      /\ EngineT' /\ engine'.reasons = engine.reasons
  BY ServeRegisterIs
<1>3. UNCHANGED <<declared, timer, kept, raced>>
  BY <1>1, ServeRegisterIs DEF Answers, window
<1>4. ASSUME NEW p \in Entries \ (declared' \cup kept' \cup raced'), p \notin timer'.remove PROVE LeftFor(p)'
  <2>1. LeftFor(p)
    BY <1>3, <1>4 DEF LeftInv
  <2>2. Taken(p) => engine'.reasons[p] = 0
    BY <1>2 DEF Taken
  <2> QED
    BY <1>1, <1>2, <2>1, <2>2, ServingLeft
<1> QED
  BY <1>2, <1>3, <1>4 DEF LeftInv

LEMMA ServeWatchLeft ==
  ASSUME StructInv, LeftInv, ServeWatch
  PROVE  LeftInv'
<1>1. PICK refused \in SUBSET Entries :
        /\ wire # <<>> /\ wire[1].kind = "watch" /\ wire[1] \in Sent
        /\ EngineT' /\ Answers(wire[1].from, engine.registered, refused)
        /\ \A p \in Entries : /\ p \in kept' <=> p \in kept \/ (engine.registered /\ p \in wire[1].paths
                                                              /\ engine.reasons[p] > 0)
                            /\ engine'.reasons[p] = IF engine.registered /\ p \in wire[1].paths \ refused
                                                    THEN engine.reasons[p] + 1 ELSE engine.reasons[p]
  BY ServeWatchIs
<1>2. UNCHANGED <<declared, timer, raced>>
  BY <1>1 DEF Answers, window
<1>3. engine.reasons \in [Entries -> Nat] /\ engine.registered \in BOOLEAN
  BY DEF StructInv, Types, EngineT
<1>4. ASSUME NEW p \in Entries \ (declared' \cup kept' \cup raced'), p \notin timer'.remove PROVE LeftFor(p)'
  <2>1. LeftFor(p)
    BY <1>1, <1>2, <1>4 DEF LeftInv
  <2>2. Taken(p) => engine'.reasons[p] = 0
    BY <1>1 DEF Taken
  <2>3. wire[1].kind # "unwatch"
    BY <1>1
  <2> QED
    BY <1>1, <1>3, <2>1, <2>2, <2>3, ServingLeft
<1>5. ASSUME NEW p \in Entries \ kept' PROVE engine'.reasons[p] <= 1
  <2>1. p \notin kept /\ engine.reasons[p] <= 1 /\ engine.reasons[p] \in Nat
    BY <1>1, <1>3, <1>5 DEF LeftInv
  <2>2. CASE engine.registered /\ p \in wire[1].paths
    <3>1. ~(engine.reasons[p] > 0)
      BY <1>1, <1>5, <2>2
    <3> QED
      BY <1>1, <1>5, <2>1, <3>1
  <2>3. CASE ~(engine.registered /\ p \in wire[1].paths)
    <3>1. engine'.reasons[p] = engine.reasons[p]
      BY <1>1, <2>3
    <3> QED
      BY <2>1, <3>1
  <2> QED
    BY <2>2, <2>3
<1> QED
  BY <1>4, <1>5 DEF LeftInv

LEMMA ServeUnwatchLeft ==
  ASSUME StructInv, LeftInv, ServeUnwatch
  PROVE  LeftInv'
<1>1. /\ wire # <<>> /\ wire[1].kind = "unwatch" /\ wire[1] \in Sent /\ EngineT' /\ engine.registered \in BOOLEAN
      /\ Answers(wire[1].from, engine.registered, {}) /\ kept' = kept
      /\ \A p \in Entries :
           engine'.reasons[p] = IF engine.registered /\ p \in wire[1].paths /\ engine.reasons[p] > 0
                                THEN engine.reasons[p] - 1 ELSE engine.reasons[p]
  BY ServeUnwatchIs
<1>2. UNCHANGED <<declared, timer, raced>>
  BY <1>1 DEF Answers, window
<1>3. engine.reasons \in [Entries -> Nat]
  BY DEF StructInv, Types, EngineT
<1>4. ASSUME NEW p \in Entries \ kept
      PROVE  /\ engine'.reasons[p] <= 1 /\ (engine.reasons[p] = 0 => engine'.reasons[p] = 0)
             /\ engine.registered /\ p \in wire[1].paths => engine'.reasons[p] = 0
  <2>1. engine.reasons[p] <= 1 /\ engine.reasons[p] \in Nat
    BY <1>3, <1>4 DEF LeftInv
  <2>2. engine.reasons[p] = 0 \/ engine.reasons[p] = 1
    BY <2>1
  <2> QED
    BY <1>1, <1>4, <2>2
<1>5. ASSUME NEW p \in Entries \ (declared' \cup kept' \cup raced'), p \notin timer'.remove PROVE LeftFor(p)'
  <2>1. LeftFor(p) /\ p \notin kept
    BY <1>1, <1>2, <1>5 DEF LeftInv
  <2>2. Taken(p) => engine'.reasons[p] = 0
    BY <1>4, <2>1 DEF Taken
  <2>3. engine.registered /\ p \in wire[1].paths => engine'.reasons[p] = 0
    BY <1>4, <2>1
  <2>4. {} \in SUBSET Entries
    OBVIOUS
  <2> QED
    BY <1>1, <2>1, <2>2, <2>3, <2>4, ServingLeft
<1> QED
  BY <1>1, <1>4, <1>5 DEF LeftInv

\* A call gives up: what it was to release is kept.
LEMMA FailsLeft ==
  ASSUME StructInv, LeftInv, NEW k \in Calls, Fails(k), UNCHANGED <<window, connection, engine>>
  PROVE  LeftInv'
<1>1. /\ asker'[k] = Idle /\ \A j \in Askers \ {k} : asker'[j] = asker[j]
      /\ kept' = IF Head(asker[k].todo) = "unwatch" THEN kept \cup asker[k].remove ELSE kept
      /\ UNCHANGED <<declared, timer, recorded, link, wire, replies, losses, engine, raced>>
  BY AskersAre DEF Fails, window, connection, StructInv, Types, AskerT
<1>2. Sent' = Sent /\ Said' = Said
  BY <1>1 DEF Sent, Said
<1>3. ASSUME NEW p \in Entries \ (declared' \cup kept' \cup raced'), p \notin timer'.remove PROVE LeftFor(p)'
  <2>1. LeftFor(p) /\ ~Releases(k, p)
    BY <1>1, <1>3, TodoIs DEF LeftInv, Releases, Unwatches
  <2>2. \A j \in Calls : /\ Releases(j, p)' <=> Releases(j, p)
                         /\ Releases(j, p) => asker'[j] = asker[j]
                         /\ asker'[j].add \subseteq asker[j].add
    BY <1>1, <2>1, IdleIs, TodoIs, AskersAre DEF Releases, Unwatches
  <2>3. Taken(p)' <=> Taken(p)
    BY <1>1, <1>2 DEF Taken
  <2>4. NotAdded(p)' /\ Leaves(p)'
    BY <1>1, <2>1, <2>2, <2>3 DEF LeftFor, NotAdded, Leaves, Away
  <2>5. Served(p)' /\ Told(p)'
    BY <1>1, <1>2, <2>1, <2>2, <2>3 DEF LeftFor, Served, Told
  <2>6. Behind(p)'
    BY <1>1, <2>1 DEF LeftFor, Behind
  <2> QED
    BY <2>4, <2>5, <2>6 DEF LeftFor
<1>4. \A p \in Entries \ kept' : engine'.reasons[p] <= 1
  BY <1>1 DEF LeftInv
<1> QED
  BY <1>3, <1>4 DEF LeftInv

\* A request that does not ask to watch p is sent behind the others.
LEMMA SendingLeft ==
  ASSUME StructInv, NEW p \in Entries, LeftFor(p), NEW k \in Askers, NEW request \in RequestSet, Sends(k, request),
         request.kind = "watch" => p \notin request.paths,
         UNCHANGED <<recorded, engine>>
  PROVE  LeftFor(p)'
<1>1. /\ Sent' \subseteq Sent \cup {request} /\ replies' = replies
      /\ asker' = [asker EXCEPT ![k].at = "waits"]
      /\ DOMAIN wire = 1..Len(wire) /\ Len(wire) \in Nat
      /\ \A i \in DOMAIN wire : wire'[i] = wire[i]
      /\ \/ DOMAIN wire' = 1..(Len(wire) + 1) /\ wire'[Len(wire) + 1] = request
         \/ wire' = wire
  BY SendsIs DEF StructInv, Types, LinkT
<1>2. Said' = Said
  BY <1>1 DEF Said
<1>3. /\ asker[k] \in Asking /\ asker'[k] = [asker[k] EXCEPT !.at = "waits"]
      /\ \A j \in Askers \ {k} : asker'[j] = asker[j]
  BY <1>1 DEF StructInv, Types, AskerT
<1>4. \A j \in Askers : /\ asker'[j].todo = asker[j].todo /\ asker'[j].add = asker[j].add
                        /\ asker'[j].remove = asker[j].remove
                        /\ asker'[j].at = "answered" => asker'[j] = asker[j]
  BY <1>3 DEF Asking
<1>5. \A j \in Calls : Releases(j, p)' <=> Releases(j, p)
  BY <1>4, AskersAre DEF Releases, Unwatches
<1>6. Taken(p) => Taken(p)'
  BY <1>1 DEF Taken
<1>7. NotAdded(p)' /\ Leaves(p)'
  BY <1>4, <1>5, <1>6, AskersAre DEF LeftFor, NotAdded, Leaves, Away
<1>8. Served(p)' /\ Told(p)'
  BY <1>2, <1>4, <1>5, <1>6, AskersAre DEF LeftFor, Served, Told
<1>9. Behind(p)'
  <2> SUFFICES ASSUME NEW i \in DOMAIN wire', NEW j \in DOMAIN wire',
                      wire'[i].kind = "unwatch", p \in wire'[i].paths, wire'[j].kind = "watch", p \in wire'[j].paths
               PROVE  j < i
    BY DEF Behind
  <2>1. CASE wire' = wire
    BY <2>1 DEF LeftFor, Behind
  <2>2. CASE DOMAIN wire' = 1..(Len(wire) + 1) /\ wire'[Len(wire) + 1] = request
    <3>1. j \in DOMAIN wire /\ wire'[j] = wire[j]
      BY <1>1, <2>2
    <3>2. CASE i \in DOMAIN wire
      BY <1>1, <3>1, <3>2 DEF LeftFor, Behind
    <3>3. CASE i = Len(wire) + 1
      BY <1>1, <3>1, <3>3
    <3> QED
      BY <1>1, <2>2, <3>2, <3>3
  <2> QED
    BY <1>1, <2>1, <2>2
<1> QED
  BY <1>7, <1>8, <1>9 DEF LeftFor

LEMMA AskLeft ==
  ASSUME StructInv, LeftInv, NEW k \in Calls, Ask(k)
  PROVE  LeftInv'
<1>1. /\ RequestOf(k) \in RequestSet /\ k \in Askers /\ Sends(k, RequestOf(k))
      /\ RequestOf(k).kind # "unwatch" => RequestOf(k).paths = asker[k].add
      /\ UNCHANGED <<declared, timer, recorded, engine, kept, raced>>
  BY AskIs
<1>2. ASSUME NEW p \in Entries \ (declared' \cup kept' \cup raced'), p \notin timer'.remove PROVE LeftFor(p)'
  <2>1. LeftFor(p) /\ p \notin asker[k].add
    BY <1>1, <1>2 DEF LeftInv, LeftFor, NotAdded
  <2>2. RequestOf(k).kind = "watch" => p \notin RequestOf(k).paths
    BY <1>1, <2>1
  <2> QED
    BY <1>1, <2>1, <2>2, SendingLeft
<1> QED
  BY <1>1, <1>2 DEF LeftInv

\* A resume that sends nothing leaves the calls alone.
LEMMA ResumeLeft ==
  ASSUME StructInv, NEW k \in Resumes, NEW p \in Entries, LeftFor(p),
         \A j \in Askers \ {k} : asker'[j] = asker[j],
         UNCHANGED <<recorded, connection, engine>>
  PROVE  LeftFor(p)'
<1>1. /\ \A j \in Calls : asker'[j] = asker[j]
      /\ UNCHANGED <<recorded, wire, replies, engine>>
  BY AskersAre DEF connection
<1>2. Sent' = Sent /\ Said' = Said
  BY <1>1 DEF Sent, Said
<1> QED
  BY <1>1, <1>2 DEF LeftFor, NotAdded, Leaves, Served, Told, Behind, Away, Taken, Releases, Unwatches

LEMMA RegisterLeft ==
  ASSUME StructInv, LeftInv, NEW k \in Resumes, Register(k)
  PROVE  LeftInv'
<1>1. k \in Askers /\ UNCHANGED <<declared, timer, updates, recorded, engine, kept, raced>>
  BY RegisterIs
<1>2. ASSUME NEW p \in Entries \ (declared' \cup kept' \cup raced'), p \notin timer'.remove PROVE LeftFor(p)'
  <2>1. LeftFor(p)
    BY <1>1, <1>2 DEF LeftInv
  <2>2. CASE /\ RequestOf(k) \in RequestSet /\ Sends(k, RequestOf(k)) /\ RequestOf(k).kind = "register"
    <3>1. RequestOf(k).kind # "watch"
      BY <2>2
    <3> QED
      BY <1>1, <2>1, <2>2, <3>1, SendingLeft
  <2>3. CASE StopsShort(k) /\ UNCHANGED connection
    <3>1. \A j \in Askers \ {k} : asker'[j] = asker[j]
      BY <1>1, <2>3 DEF StopsShort, StructInv, Types, AskerT
    <3> QED
      BY <1>1, <2>1, <2>3, <3>1, ResumeLeft
  <2> QED
    BY <2>2, <2>3, RegisterIs
<1> QED
  BY <1>1, <1>2 DEF LeftInv

LEMMA RewatchLeft ==
  ASSUME StructInv, LeftInv, NEW k \in Resumes, Rewatch(k)
  PROVE  LeftInv'
<1>1. /\ k \in Askers /\ kept' = kept \cup (Leaving \cap recorded)
      /\ UNCHANGED <<declared, timer, updates, recorded, engine, raced>>
  BY RewatchIs
<1>2. ASSUME NEW p \in Entries \ (declared' \cup kept' \cup raced'), p \notin timer'.remove PROVE LeftFor(p)'
  <2>1. LeftFor(p) /\ p \notin Leaving \cap recorded
    BY <1>1, <1>2 DEF LeftInv
  <2>2. p \notin recorded
    <3>1. ASSUME NEW j \in Calls, Releases(j, p) PROVE p \in Leaving
      <4>1. asker[j].at # "idle"
        BY <3>1, TasksAre, IdleIs DEF Releases
      <4> QED
        BY <3>1, <4>1, AskersAre DEF Releases, Leaving, Busy
    <3> QED
      BY <2>1, <3>1 DEF LeftFor, Leaves, Away
  <2>3. ASSUME NEW request \in RequestSet, Sends(k, request), request.paths = recorded PROVE LeftFor(p)'
    BY <1>1, <2>1, <2>2, <2>3, SendingLeft
  <2>4. CASE asker' = [asker EXCEPT ![k] = Idle] /\ UNCHANGED connection
    <3>1. \A j \in Askers \ {k} : asker'[j] = asker[j]
      BY <1>1, <2>4 DEF StructInv, Types, AskerT
    <3> QED
      BY <1>1, <2>1, <2>4, <3>1, ResumeLeft
  <2> QED
    BY <2>3, <2>4, RewatchIs
<1>3. \A p \in Entries \ kept' : engine'.reasons[p] <= 1
  BY <1>1 DEF LeftInv
<1> QED
  BY <1>2, <1>3 DEF LeftInv

LEMMA AnsweredLeft ==
  ASSUME StructInv, LeftInv, NEW k \in Calls, Answered(k)
  PROVE  LeftInv'
<1>1. /\ k \in Askers /\ asker[k].at = "answered" /\ asker[k] \in Asking
      /\ UNCHANGED <<declared, timer, updates, link, wire, replies, losses, engine>>
  BY AnsweredIs
<1>2. CASE /\ asker[k].ok /\ asker' = [asker EXCEPT ![k] = AfterAnswer(k)]
           /\ recorded' = IF asker[k].todo = W THEN recorded \cup (asker[k].add \ asker[k].refused)
                          ELSE recorded \ asker[k].remove
           /\ UNCHANGED <<kept, raced>>
  <2>1. asker'[k] = AfterAnswer(k) /\ \A j \in Askers \ {k} : asker'[j] = asker[j]
    BY <1>1, <1>2 DEF StructInv, Types, AskerT
  <2>2. /\ ~Unwatches(k)' /\ asker'[k].add \subseteq asker[k].add
    <3>1. CASE asker[k].todo \in {U, W}
      BY <1>1, <2>1, <3>1, AfterIs, IdleIs, TodoIs DEF Unwatches
    <3>2. CASE asker[k].todo = UW
      BY <1>1, <2>1, <3>2, AfterIs, TodoIs DEF Unwatches
    <3> QED
      BY <1>1, <3>1, <3>2, TasksAre
  <2>3. Sent' = Sent /\ Said' = Said
    BY <1>1 DEF Sent, Said
  <2>4. ASSUME NEW p \in Entries \ (declared' \cup kept' \cup raced'), p \notin timer'.remove PROVE LeftFor(p)'
    <3>1. LeftFor(p)
      BY <1>1, <1>2, <2>4 DEF LeftInv
    <3>2. Taken(p)' <=> Taken(p)
      BY <1>1, <2>3 DEF Taken
    <3>3. /\ ~Releases(k, p)'
          /\ \A j \in Calls \ {k} : (Releases(j, p)' <=> Releases(j, p)) /\ asker'[j] = asker[j]
      BY <2>1, <2>2, AskersAre DEF Releases, Unwatches
    <3>4. NotAdded(p)'
      BY <2>2, <3>1, <3>3 DEF LeftFor, NotAdded
    <3>5. Leaves(p)'
      <4>1. CASE Releases(k, p)
        <5>1. Taken(p) /\ p \notin recorded'
          BY <1>1, <1>2, <3>1, <4>1, TodoIs DEF LeftFor, Served, Releases, Unwatches
        <5> QED
          BY <3>2, <5>1 DEF Leaves, Away
      <4>2. CASE ~Releases(k, p)
        <5>1. p \in recorded' => p \in recorded
          BY <1>2, <3>1 DEF LeftFor, NotAdded
        <5> QED
          BY <3>1, <3>2, <3>3, <4>2, <5>1 DEF LeftFor, Leaves, Away
      <4> QED
        BY <4>1, <4>2
    <3>6. Served(p)' /\ Told(p)'
      BY <2>3, <3>1, <3>2, <3>3 DEF LeftFor, Served, Told
    <3>7. Behind(p)'
      BY <1>1, <3>1 DEF LeftFor, Behind
    <3> QED
      BY <3>4, <3>5, <3>6, <3>7 DEF LeftFor
  <2> QED
    BY <1>1, <1>2, <2>4 DEF LeftInv
<1>3. CASE Fails(k)
  BY <1>1, <1>3, FailsLeft DEF window, connection
<1> QED
  BY <1>2, <1>3, AnsweredIs

LEMMA ResumedLeft ==
  ASSUME StructInv, LeftInv, NEW k \in Resumes, Resumed(k)
  PROVE  LeftInv'
<1>1. /\ \A j \in Askers \ {k} : asker'[j] = asker[j]
      /\ UNCHANGED <<declared, timer, recorded, connection, engine, kept, raced>>
  BY AskersAre DEF Resumed, StopsShort, StructInv, Types, AskerT, window
<1>2. ASSUME NEW p \in Entries \ (declared' \cup kept' \cup raced'), p \notin timer'.remove PROVE LeftFor(p)'
  BY <1>1, <1>2, ResumeLeft DEF LeftInv
<1> QED
  BY <1>1, <1>2 DEF LeftInv

LEMMA TimesOutLeft ==
  ASSUME StructInv, LeftInv, NEW k \in Askers, TimesOut(k)
  PROVE  LeftInv'
<1>1. UNCHANGED <<window, connection, engine>>
  BY DEF TimesOut
<1>2. CASE k \in Calls
  BY <1>1, <1>2, FailsLeft DEF TimesOut
<1>3. CASE k \notin Calls
  <2>1. k \in Resumes /\ StopsShort(k)
    BY <1>3, AskersAre DEF TimesOut
  <2>2. /\ \A j \in Askers \ {k} : asker'[j] = asker[j]
        /\ UNCHANGED <<declared, timer, recorded, kept, raced>>
    BY <1>1, <2>1 DEF StopsShort, StructInv, Types, AskerT, window
  <2>3. ASSUME NEW p \in Entries \ (declared' \cup kept' \cup raced'), p \notin timer'.remove PROVE LeftFor(p)'
    BY <1>1, <2>1, <2>2, <2>3, ResumeLeft DEF LeftInv
  <2> QED
    BY <1>1, <2>2, <2>3 DEF LeftInv
<1> QED
  BY <1>2, <1>3

\* LeftIsReleased: at rest nobody watches what the window no longer shows, and it is not on
\* record to be watched again.
THEOREM WhatIsLeftIsReleased == RequestsSpec => []LeftIsReleased
<1>1. ASSUME StructInv, LateIsKept, LeftInv, [RequestsNext]_requestsVars PROVE LeftInv'
  <2>1. ASSUME NEW next \in SUBSET Entries, Update(next) PROVE LeftInv'
    BY <1>1, <2>1, UpdateLeft
  <2>2. CASE Fire
    BY <1>1, <2>2, FireLeft
  <2>3. CASE Deliver
    BY <1>1, <2>3, DeliverLeft
  <2>4. CASE Lose
    BY <1>1, <2>4, LoseLeft
  <2>5. CASE Reconnect
    BY <1>1, <2>5, ReconnectLeft
  <2>6. CASE ServeRegister
    BY <1>1, <2>6, ServeRegisterLeft
  <2>7. CASE ServeWatch
    BY <1>1, <2>7, ServeWatchLeft
  <2>8. CASE ServeUnwatch
    BY <1>1, <2>8, ServeUnwatchLeft
  <2>9. ASSUME NEW k \in Askers, Ask(k) PROVE LeftInv'
    BY <1>1, <2>9, AskLeft DEF Ask
  <2>10. ASSUME NEW k \in Askers, Register(k) PROVE LeftInv'
    BY <1>1, <2>10, RegisterLeft DEF Register
  <2>11. ASSUME NEW k \in Askers, Rewatch(k) PROVE LeftInv'
    BY <1>1, <2>11, RewatchLeft DEF Rewatch
  <2>12. ASSUME NEW k \in Askers, Answered(k) PROVE LeftInv'
    BY <1>1, <2>12, AnsweredLeft DEF Answered
  <2>13. ASSUME NEW k \in Askers, Resumed(k) PROVE LeftInv'
    BY <1>1, <2>13, ResumedLeft DEF Resumed
  <2>14. ASSUME NEW k \in Askers, TimesOut(k) PROVE LeftInv'
    BY <1>1, <2>14, TimesOutLeft
  <2>15. CASE UNCHANGED requestsVars
    BY <1>1, <2>15 DEF requestsVars, window, connection, ghosts, LeftInv, LeftFor, NotAdded, Leaves, Served, Told, Behind,
       Away, Taken, Releases, Unwatches, Sent, Said
  <2> QED
    BY <1>1, <2>1, <2>2, <2>3, <2>4, <2>5, <2>6, <2>7, <2>8, <2>9, <2>10, <2>11, <2>12, <2>13, <2>14, <2>15 DEF RequestsNext
<1>2. StructInv /\ LeftInv => LeftIsReleased
  <2> SUFFICES ASSUME StructInv, LeftInv, Rest, NEW p \in Entries \ (declared \cup kept \cup raced)
               PROVE  p \notin recorded /\ engine.reasons[p] = 0
    BY DEF LeftIsReleased
  <2>1. LeftFor(p) /\ \A k \in Calls : ~Releases(k, p)
    BY RestIs DEF LeftInv, Releases
  <2> QED
    BY <2>1 DEF LeftFor, Leaves, Away, Taken
<1>3. RequestsInit => LateIsKept
  BY DEF RequestsInit, LateIsKept, Sent
<1> QED
  BY <1>1, <1>2, <1>3, InitLeft, LateStays, Structure, PTL DEF RequestsSpec
=============================================================================
