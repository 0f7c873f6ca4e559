-------------------------- MODULE OwnerLookupProofs --------------------------
(***************************************************************************)
(* The owner of a packet, for any sockets, flows and bounds: it is the app *)
(* of a matching socket that was open within UID_MAX_AGE, or one that had  *)
(* a socket for the destination since the start or, for a session, since   *)
(* the sessions were cleared; and uid_cache does not grow beyond the rows  *)
(* that were current at one time.                                          *)
(***************************************************************************)
EXTENDS OwnerLookup, PositionProofs, FiniteSetTheorems, TLAPS

Entry == [row : Sockets, age : 0..(MaxAge + 1)]
Owner == Uids \cup {Unknown}
Session == [flow : Flows, uid : Owner]
SeenType == [owners : SUBSET (Uids \X STRING), cleared : SUBSET (Uids \X STRING), peak : Nat]

\* A row that is not too old is open, or was closed since it was read.
CacheKnown ==
  \A i \in DOMAIN uid_cache : ~Expired(uid_cache[i]) =>
    \/ uid_cache[i].row \in rows
    \/ \E g \in gone : g.row = uid_cache[i].row /\ g.age <= uid_cache[i].age

\* The sockets that can still be found are known, and what happened since the
\* start happened since the sessions were cleared.
OwnersKnown ==
  /\ seen.owners \subseteq seen.cleared
  /\ \A s \in rows : <<s.uid, s.dest>> \in seen.owners
  /\ \A g \in gone : <<g.row.uid, g.row.dest>> \in seen.owners

Had(u, f) == HadSocket(seen.owners, u, f)
HadOnce(u, f) == HadSocket(seen.cleared, u, f)

\* The owners of sessions and destinations had a socket for the destination.
SessionsOwned ==
  \A i \in DOMAIN sessions :
    sessions[i].uid # Unknown => HadOnce(sessions[i].uid, sessions[i].flow)

MapOwned == \A f \in Flows : map[Key(f)] # Unknown => Had(map[Key(f)], f)

\* The packet in handle_ip and its owner.
Verdict == KernelAnswerFresh /\ DestinationIsLast /\ OwnerHadSocket

LookupInv ==
  /\ TypeOK /\ seen \in SeenType /\ IsFiniteSet(rows)
  /\ CacheKnown /\ OwnersKnown /\ SessionsOwned /\ MapOwned
  /\ CacheBounded /\ Verdict

(***************************************************************************)
(* The slots of the cache.                                                 *)
(***************************************************************************)
\* The first rows take the expired slots, the others extend the cache.
LEMMA SlotFacts ==
  ASSUME NEW cache \in Seq(Entry)
  PROVE  LET F == FreeSlots(cache)
             n == Cardinality(F)
         IN  /\ F \in SUBSET (1..Len(cache)) /\ IsFiniteSet(F) /\ n \in Nat
             /\ \A i \in Nat : i >= 1 /\ i <= n => Slot(cache, i) \in F
             /\ \A k \in F : \E i \in Nat : i >= 1 /\ i <= n /\ Slot(cache, i) = k
             /\ \A i \in Nat : i > n => Slot(cache, i) = Len(cache) + (i - n)
<1> DEFINE F == FreeSlots(cache)
           n == Cardinality(F)
           c == Len(cache)
<1>1. c \in Nat /\ DOMAIN cache = 1..c
  OBVIOUS
<1>2. F \in SUBSET (1..c)
  BY <1>1 DEF FreeSlots
<1>3. \A i : Slot(cache, i) = IF i <= n THEN Nth(F, i) ELSE c + (i - n)
  BY DEF Slot
<1> HIDE DEF F, c
<1>4. IsFiniteSet(F) /\ n \in Nat
  BY <1>1, <1>2, RankFacts
<1>5. /\ \A i \in 1..n : Nth(F, i) \in F
      /\ \A k \in F : Rank(F, k) \in 1..n /\ Nth(F, Rank(F, k)) = k
  BY <1>1, <1>2, RankFacts, NthFacts
<1> HIDE DEF n
<1>6. ASSUME NEW i \in Nat, i >= 1, i <= n PROVE Slot(cache, i) \in F
  BY <1>3, <1>4, <1>5, <1>6
<1>7. ASSUME NEW k \in F PROVE \E i \in Nat : i >= 1 /\ i <= n /\ Slot(cache, i) = k
  <2> DEFINE i == Rank(F, k)
  <2>1. i \in 1..n /\ Nth(F, i) = k
    BY <1>5
  <2> HIDE DEF i
  <2>2. i \in Nat /\ i >= 1 /\ i <= n
    BY <1>4, <2>1
  <2>3. QED
    BY <1>3, <2>1, <2>2
<1>8. ASSUME NEW i \in Nat, i > n PROVE Slot(cache, i) = c + (i - n)
  BY <1>3, <1>4, <1>8
<1>9. QED
  BY <1>2, <1>4, <1>6, <1>7, <1>8 DEF F, n, c

Live(cache) == {i \in DOMAIN cache : ~Expired(cache[i])}

\* What reading rows of T does to the cache: new entries are rows of T, the
\* others stay, and it grows only if all its entries are current.
Refilled(c, d, T) ==
  /\ d \in Seq(Entry)
  /\ \A i \in DOMAIN d : \/ d[i].age = 0 /\ d[i].row \in T
                         \/ i \in DOMAIN c /\ d[i] = c[i]
  /\ Current(c) <= Current(d)
  /\ Len(d) = Len(c) \/ Current(d) = Len(d)

\* The number of current entries.
LEMMA CurrentFacts ==
  ASSUME NEW cache \in Seq(Entry)
  PROVE  /\ Current(cache) = Cardinality(Live(cache)) /\ IsFiniteSet(Live(cache))
         /\ Current(cache) \in Nat /\ Current(cache) <= Len(cache)
         /\ Live(cache) = DOMAIN cache => Current(cache) = Len(cache)
<1> DEFINE c == Len(cache)
<1>1. c \in Nat /\ Live(cache) \in SUBSET (1..c) /\ DOMAIN cache = 1..c
  BY DEF Live
<1> HIDE DEF c
<1>2. IsFiniteSet(1..c) /\ Cardinality(1..c) = c
  <2>1. IsFiniteSet(1..c) /\ Cardinality(1..c) = IF 1 > c THEN 0 ELSE c - 1 + 1
    BY <1>1, FS_Interval
  <2>2. QED
    BY <1>1, <2>1
<1>3. IsFiniteSet(Live(cache)) /\ Cardinality(Live(cache)) <= c /\ Cardinality(Live(cache)) \in Nat
  BY <1>1, <1>2, FS_Subset, FS_CardinalityType
<1>4. Current(cache) = Cardinality(Live(cache))
  BY DEF Current, Live
<1>5. QED
  BY <1>1, <1>2, <1>3, <1>4 DEF c

\* Rows that are read fill the cache.
LEMMA FilledFacts ==
  ASSUME NEW cache \in Seq(Entry), NEW T \in SUBSET Sockets, NEW table \in Seq(T)
  PROVE  Refilled(cache, Filled(cache, table), T)
<1> DEFINE F == FreeSlots(cache)
           n == Cardinality(F)
           c == Len(cache)
           m == Len(table)
           slots == {Slot(cache, i) : i \in DOMAIN table}
           X == IF m <= n THEN c ELSE c + (m - n)
           d == Filled(cache, table)
<1>1. c \in Nat /\ DOMAIN cache = 1..c /\ m \in Nat /\ DOMAIN table = 1..m
  OBVIOUS
<1>2. /\ F \in SUBSET (1..c) /\ IsFiniteSet(F) /\ n \in Nat
      /\ \A i \in Nat : i >= 1 /\ i <= n => Slot(cache, i) \in F
      /\ \A k \in F : \E i \in Nat : i >= 1 /\ i <= n /\ Slot(cache, i) = k
      /\ \A i \in Nat : i > n => Slot(cache, i) = c + (i - n)
  BY SlotFacts
<1>3. d = [k \in 1..Cardinality(DOMAIN cache \cup slots) |->
             IF k \in slots
             THEN [row |-> table[CHOOSE i \in DOMAIN table : Slot(cache, i) = k], age |-> 0]
             ELSE cache[k]]
  BY DEF Filled
<1>4. \A k : k \in F <=> k \in 1..c /\ Expired(cache[k])
  BY <1>1 DEF FreeSlots
<1>5. \A k : k \in slots <=> \E i \in 1..m : Slot(cache, i) = k
  BY <1>1
<1> HIDE DEF F, n, c, m, slots, d
<1>6. ASSUME NEW k \in slots PROVE k \in F \/ (k \in Nat /\ k > c /\ k <= X)
  <2>1. PICK i \in 1..m : Slot(cache, i) = k
    BY <1>5, <1>6
  <2>2. i \in Nat /\ i >= 1 /\ i <= m
    BY <1>1, <2>1
  <2>3. CASE i <= n
    BY <1>2, <2>1, <2>2, <2>3
  <2>4. CASE i > n
    <3>1. k = c + (i - n)
      BY <1>2, <2>1, <2>2, <2>4
    <3>2. QED
      BY <1>1, <1>2, <2>2, <2>4, <3>1
  <2>5. QED
    BY <1>2, <2>2, <2>3, <2>4
<1>7. ASSUME NEW k \in Nat, k > c, k <= X PROVE k \in slots
  <2>1. m > n /\ k <= c + (m - n)
    BY <1>1, <1>2, <1>7
  <2> DEFINE i == k - c + n
  <2>2. i \in Nat /\ i > n /\ i <= m /\ i >= 1 /\ c + (i - n) = k
    BY <1>1, <1>2, <1>7, <2>1
  <2> HIDE DEF i
  <2>3. Slot(cache, i) = k /\ i \in 1..m
    <3>1. \A j \in Nat : j > n => Slot(cache, j) = c + (j - n)
      BY <1>2
    <3>2. Slot(cache, i) = c + (i - n)
      BY <2>2, <3>1
    <3>3. i \in 1..m
      BY <1>1, <2>2
    <3>4. QED
      BY <2>2, <3>2, <3>3
  <2>4. QED
    BY <1>5, <2>3
<1>8. X \in Nat /\ c <= X
  BY <1>1, <1>2
<1> HIDE DEF X
<1>9. DOMAIN cache \cup slots = 1..X
  <2>1. ASSUME NEW k \in slots PROVE k \in 1..X
    <3>1. CASE k \in F
      <4>1. k \in 1..c
        BY <1>2, <3>1
      <4>2. QED
        BY <1>1, <1>8, <4>1
    <3>2. CASE k \in Nat /\ k > c /\ k <= X
      BY <1>1, <1>8, <3>2
    <3>3. QED
      BY <1>6, <3>1, <3>2
  <2>2. ASSUME NEW k \in 1..X PROVE k \in 1..c \/ k \in slots
    BY <1>1, <1>7, <1>8
  <2>3. 1..c \subseteq 1..X
    BY <1>1, <1>8
  <2>4. QED
    BY <1>1, <2>1, <2>2, <2>3
<1>10. Cardinality(1..X) = X
  <2>1. Cardinality(1..X) = IF 1 > X THEN 0 ELSE X - 1 + 1
    BY <1>8, FS_Interval
  <2>2. QED
    BY <1>8, <2>1
<1> DEFINE New(k) == [row |-> table[CHOOSE i \in DOMAIN table : Slot(cache, i) = k], age |-> 0]
<1>11. ASSUME NEW k \in slots
       PROVE  New(k) \in Entry /\ New(k).age = 0 /\ New(k).row \in T /\ ~Expired(New(k))
  <2> DEFINE i == CHOOSE i \in DOMAIN table : Slot(cache, i) = k
  <2>1. i \in DOMAIN table
    BY <1>1, <1>5
  <2> HIDE DEF i
  <2>2. table[i] \in T /\ table[i] \in Sockets
    BY <2>1
  <2>3. MaxAge \in Nat /\ 0 \in 0..(MaxAge + 1) /\ ~(0 > MaxAge)
    BY OwnerAssumption
  <2>4. New(k) = [row |-> table[i], age |-> 0]
    BY DEF i
  <2> HIDE DEF New
  <2>5. QED
    BY <2>2, <2>3, <2>4 DEF Entry, Expired
<1>12. d = [k \in 1..X |-> IF k \in slots THEN New(k) ELSE cache[k]]
  BY <1>3, <1>9, <1>10
<1> HIDE DEF New
<1>13. \A k \in 1..c : cache[k] \in Entry
  BY <1>1
<1>14. ASSUME NEW k \in 1..X, k \notin slots PROVE k \in 1..c
  BY <1>1, <1>7, <1>8, <1>14
<1>15. /\ d \in [1..X -> Entry] /\ \A k \in slots : d[k] = New(k)
       /\ \A k \in 1..X : k \notin slots => d[k] = cache[k]
  BY <1>9, <1>11, <1>12, <1>13, <1>14
<1>16. d \in Seq(Entry) /\ Len(d) = X /\ DOMAIN d = 1..X
  BY <1>8, <1>15
<1>17. \A k \in DOMAIN d : \/ d[k].age = 0 /\ d[k].row \in T
                           \/ k \in DOMAIN cache /\ d[k] = cache[k]
  BY <1>1, <1>11, <1>14, <1>15, <1>16
<1>18. Current(cache) <= Current(d)
  <2>1. ASSUME NEW k \in 1..c, ~Expired(cache[k]) PROVE k \in 1..X /\ ~Expired(d[k])
    <3>1. k \notin slots /\ k \in 1..X
      BY <1>1, <1>4, <1>6, <1>8, <2>1
    <3>2. QED
      BY <1>15, <2>1, <3>1
  <2>2. Live(cache) \in SUBSET Live(d)
    BY <1>1, <1>16, <2>1 DEF Live
  <2>3. QED
    BY <1>16, <2>2, CurrentFacts, FS_Subset
<1>19. CASE m <= n
  BY <1>16, <1>17, <1>18, <1>19 DEF X, d, c, Refilled
<1>20. CASE m > n
  <2>1. ASSUME NEW k \in 1..X PROVE ~Expired(d[k])
    <3>1. CASE k \in slots
      BY <1>11, <1>15, <3>1
    <3>2. CASE k \notin slots
      <4>1. k \notin F
        <5>1. SUFFICES ASSUME k \in F PROVE FALSE
          OBVIOUS
        <5>2. PICK i \in Nat : i >= 1 /\ i <= n /\ Slot(cache, i) = k
          BY <1>2, <5>1
        <5>3. i \in 1..m
          BY <1>1, <1>2, <1>20, <5>2
        <5>4. QED
          BY <1>5, <3>2, <5>2, <5>3
      <4>2. QED
        BY <1>4, <1>14, <1>15, <3>2, <4>1
    <3>3. QED
      BY <3>1, <3>2
  <2>2. Live(d) = DOMAIN d
    BY <1>16, <2>1 DEF Live
  <2>3. Current(d) = Len(d)
    BY <1>16, <2>2, CurrentFacts
  <2>4. QED
    BY <1>16, <1>17, <1>18, <2>3 DEF d, Refilled
<1>21. QED
  BY <1>1, <1>2, <1>19, <1>20

\* Two tables are read one after the other.
LEMMA RefilledTwice ==
  ASSUME NEW c \in Seq(Entry), NEW d \in Seq(Entry), NEW e, NEW T,
         Refilled(c, d, T), Refilled(d, e, T)
  PROVE  Refilled(c, e, T)
<1>1. e \in Seq(Entry)
  BY DEF Refilled
<1>2. \A i \in DOMAIN e : \/ e[i].age = 0 /\ e[i].row \in T
                          \/ i \in DOMAIN c /\ e[i] = c[i]
  BY DEF Refilled
<1>3. /\ Current(c) \in Nat /\ Current(d) \in Nat /\ Current(e) \in Nat
      /\ Current(e) <= Len(e) /\ Len(e) \in Nat /\ Len(d) \in Nat /\ Len(c) \in Nat
  BY <1>1, CurrentFacts
<1>4. Current(c) <= Current(e) /\ (Len(e) = Len(c) \/ Current(e) = Len(e))
  BY <1>3 DEF Refilled
<1>5. QED
  BY <1>1, <1>2, <1>4 DEF Refilled

\* No table is read.
LEMMA NotRefilled ==
  ASSUME NEW c \in Seq(Entry), NEW T
  PROVE  Refilled(c, c, T)
  BY CurrentFacts DEF Refilled

(***************************************************************************)
(* Lookups.                                                                *)
(***************************************************************************)
\* The uids of apps are neither "unknown" nor "failed".
LEMMA UidFacts ==
  /\ Uids \subseteq Nat /\ Unknown \notin Uids /\ Failed \notin Uids /\ Failed # Unknown
  /\ \A s \in Sockets : s.uid \in Uids /\ s.dest \in STRING /\ s.version \in {4, 6}
  /\ \A u \in Uids : u >= 0 /\ u # Unknown /\ u # Failed
  /\ ~(Unknown >= 0) /\ ~(Failed >= 0)
<1>1. \A s \in Sockets : s.uid \in Nat /\ s.dest \in STRING /\ s.version \in {4, 6}
  BY OwnerAssumption DEF Socket
<1>2. Uids \subseteq Nat /\ \A s \in Sockets : s.uid \in Uids
  BY <1>1 DEF Uids
<1>3. \A u \in Nat : u # -1 /\ u # -2 /\ u >= 0
  OBVIOUS
<1>4. -1 # -2 /\ ~(-1 >= 0) /\ ~(-2 >= 0)
  OBVIOUS
<1>5. QED
  BY <1>1, <1>2, <1>3, <1>4 DEF Unknown, Failed

\* A table is read completely, in some order.
LEMMA OrderFacts ==
  ASSUME NEW S, IsFiniteSet(S), NEW o \in Orders(S)
  PROVE  /\ o \in Seq(S) /\ DOMAIN o = 1..Cardinality(S) /\ Cardinality(S) \in Nat
         /\ \A s \in S : \E i \in DOMAIN o : o[i] = s
<1> DEFINE c == Cardinality(S)
           N == 1..c
<1>1. c \in Nat
  BY FS_CardinalityType
<1>2. o \in [N -> S] /\ \A i, j \in N : o[i] = o[j] => i = j
  BY DEF Orders
<1> HIDE DEF c
<1>3. IsFiniteSet(N) /\ Cardinality(N) = Cardinality(S)
  <2>1. IsFiniteSet(1..c) /\ Cardinality(1..c) = IF 1 > c THEN 0 ELSE c - 1 + 1
    BY <1>1, FS_Interval
  <2>2. Cardinality(1..c) = c
    BY <1>1, <2>1
  <2>3. QED
    BY <2>1, <2>2 DEF c
<1>4. o \in Seq(S)
  BY <1>1, <1>2
<1> HIDE DEF N
<1>5. o \in Injection(N, S)
  BY <1>2 DEF Injection, IsInjective
<1>6. o \in Surjection(N, S)
  BY <1>3, <1>5, FS_Injection
<1>7. \A s \in S : \E i \in N : o[i] = s
  BY <1>6 DEF Surjection
<1>8. QED
  BY <1>1, <1>2, <1>4, <1>7 DEF N, c

\* The last matching row decides.
LEMMA LastMatchFacts ==
  ASSUME NEW T \in SUBSET Sockets, NEW o \in Seq(T), NEW f
  PROVE  /\ LastMatch(o, f) \in Uids \cup {Unknown}
         /\ LastMatch(o, f) = Unknown => \A i \in DOMAIN o : ~Matches(o[i], f)
         /\ LastMatch(o, f) # Unknown =>
              \E s \in T : Matches(s, f) /\ s.uid = LastMatch(o, f)
<1> DEFINE M == {i \in DOMAIN o : Matches(o[i], f)}
           k == CHOOSE i \in M : \A j \in M : j <= i
<1>1. LastMatch(o, f) = IF M = {} THEN Unknown ELSE o[k].uid
  BY DEF LastMatch
<1>2. Len(o) \in Nat /\ M \in SUBSET (1..Len(o))
  OBVIOUS
<1>3. CASE M = {}
  BY <1>1, <1>3
<1>4. CASE M # {}
  <2> HIDE DEF M
  <2>1. k \in M
    BY <1>2, <1>4, FirstFacts
  <2> HIDE DEF k
  <2>2. o[k] \in T /\ Matches(o[k], f) /\ o[k].uid \in Uids
    BY <2>1, UidFacts DEF M
  <2>3. LastMatch(o, f) # Unknown
    BY <1>1, <1>4, <2>2, UidFacts
  <2>4. QED
    BY <1>1, <1>4, <2>2, <2>3
<1>5. QED
  BY <1>3, <1>4

\* What one lookup in the cache or in a table finds.
Found(r, f, version) ==
  /\ r.uid \in Uids \cup {Unknown, Failed}
  /\ r.uid \in Uids =>
       \E s \in rows \cup {g.row : g \in gone} : Matches(s, f) /\ s.uid = r.uid
  /\ r.uid = Unknown => \A s \in rows : s.version = version => ~Matches(s, f)

\* Reading a table of /proc/net.
LEMMA ScanFacts ==
  ASSUME NEW version, NEW f, NEW cache \in Seq(Entry),
         rows \in SUBSET Sockets, IsFiniteSet(rows), NEW r \in Scans(version, f, cache)
  PROVE  Found(r, f, version) /\ Refilled(cache, r.cache, rows)
<1> DEFINE S == {s \in rows : s.version = version /\ s.protocol = f.protocol}
<1>1. S \in SUBSET rows /\ S \in SUBSET Sockets /\ IsFiniteSet(S)
  BY FS_Subset
<1>2. \A s \in rows : s \notin S /\ s.version = version => ~Matches(s, f)
  BY DEF Matches
<1>3. \/ r = [uid |-> Failed, cache |-> cache]
      \/ \E o \in Orders(S) : r = [uid |-> LastMatch(o, f), cache |-> Filled(cache, o)]
      \/ \E o \in Orders(S), n \in 0..Cardinality(S) :
           r = [uid |-> Failed, cache |-> Filled(cache, SubSeq(o, 1, n))]
  <2>1. Scans(version, f, cache) =
          {[uid |-> Failed, cache |-> cache]}
          \cup {[uid |-> LastMatch(o, f), cache |-> Filled(cache, o)] : o \in Orders(S)}
          \cup {[uid |-> Failed, cache |-> Filled(cache, SubSeq(o, 1, n))] :
                  o \in Orders(S), n \in 0..Cardinality(S)}
    BY DEF Scans
  <2> HIDE DEF S
  <2>2. QED
    BY <2>1
<1> HIDE DEF S
<1>4. ASSUME NEW d, NEW T \in SUBSET rows, Refilled(cache, d, T) PROVE Refilled(cache, d, rows)
  BY <1>4 DEF Refilled
<1>5. CASE r = [uid |-> Failed, cache |-> cache]
  <2>1. r.uid = Failed /\ r.cache = cache
    BY <1>5
  <2>2. QED
    BY <2>1, NotRefilled, UidFacts DEF Found
<1>6. CASE \E o \in Orders(S) : r = [uid |-> LastMatch(o, f), cache |-> Filled(cache, o)]
  <2>1. PICK o \in Orders(S) : r = [uid |-> LastMatch(o, f), cache |-> Filled(cache, o)]
    BY <1>6
  <2>2. o \in Seq(S) /\ \A s \in S : \E i \in DOMAIN o : o[i] = s
    BY <1>1, OrderFacts
  <2>3. Refilled(cache, Filled(cache, o), rows)
    BY <1>1, <1>4, <2>2, FilledFacts
  <2> DEFINE u == LastMatch(o, f)
             d == Filled(cache, o)
  <2>4. /\ u \in Uids \cup {Unknown}
        /\ u = Unknown => \A i \in DOMAIN o : ~Matches(o[i], f)
        /\ u # Unknown => \E s \in S : Matches(s, f) /\ s.uid = u
    BY <1>1, <2>2, LastMatchFacts
  <2> HIDE DEF u, d
  <2>5. r.uid = u /\ r.cache = d
    BY <2>1 DEF u, d
  <2>6. u = Unknown => \A s \in rows : s.version = version => ~Matches(s, f)
    BY <1>2, <2>2, <2>4
  <2>7. u \in Uids => \E s \in rows : Matches(s, f) /\ s.uid = u
    BY <1>1, <2>4, UidFacts
  <2>8. QED
    BY <2>3, <2>4, <2>5, <2>6, <2>7 DEF Found, d
<1>7. CASE \E o \in Orders(S), n \in 0..Cardinality(S) :
             r = [uid |-> Failed, cache |-> Filled(cache, SubSeq(o, 1, n))]
  <2>1. PICK o \in Orders(S), n \in 0..Cardinality(S) :
          r = [uid |-> Failed, cache |-> Filled(cache, SubSeq(o, 1, n))]
    BY <1>7
  <2> DEFINE p == SubSeq(o, 1, n)
  <2>2. o \in Seq(S) /\ DOMAIN o = 1..Cardinality(S) /\ Cardinality(S) \in Nat
    BY <1>1, OrderFacts
  <2>3. p \in Seq(S)
    <3>1. Len(o) = Cardinality(S)
      BY <2>2
    <3>2. n \in Nat /\ n <= Len(o)
      BY <2>2, <3>1
    <3>3. \A i \in 1..n : o[i] \in S
      BY <2>2, <3>1, <3>2
    <3>4. QED
      BY <2>2, <3>2, <3>3
  <2> HIDE DEF p
  <2>4. Refilled(cache, Filled(cache, p), rows)
    BY <1>1, <1>4, <2>3, FilledFacts
  <2>5. r.uid = Failed /\ r.cache = Filled(cache, p)
    BY <2>1 DEF p
  <2>6. QED
    BY <2>4, <2>5, UidFacts DEF Found
<1>8. QED
  BY <1>3, <1>5, <1>6, <1>7

\* get_uid_sub: the cache, or the table.
LEMMA SubFacts ==
  ASSUME NEW version \in {4, 6}, NEW f \in Flows, NEW cache \in Seq(Entry),
         uid_cache \in Seq(Entry), rows \in SUBSET Sockets, IsFiniteSet(rows), CacheKnown,
         NEW r \in get_uid_sub(version, f, cache)
  PROVE  Found(r, f, version) /\ Refilled(cache, r.cache, rows)
<1> DEFINE H == Hits(version, f)
<1>1. CASE H # {}
  <2>1. Len(uid_cache) \in Nat /\ H \in SUBSET (1..Len(uid_cache))
    BY DEF Hits
  <2> DEFINE k == First(H)
  <2>2. k \in H
    BY <1>1, <2>1, FirstFacts
  <2>3. r = [uid |-> uid_cache[k].row.uid, cache |-> cache]
    BY <1>1 DEF get_uid_sub
  <2> HIDE DEF k
  <2>4. k \in DOMAIN uid_cache /\ ~Expired(uid_cache[k]) /\ Matches(uid_cache[k].row, f)
    BY <2>2 DEF Hits
  <2> DEFINE e == uid_cache[k]
  <2>5. e \in Entry /\ e.row \in Sockets /\ e.row.uid \in Uids
    <3>1. e \in Entry
      BY <2>4
    <3>2. e.row \in Sockets
      BY <3>1 DEF Entry
    <3>3. QED
      BY <3>1, <3>2, UidFacts
  <2>6. e.row \in rows \cup {g.row : g \in gone}
    BY <2>4 DEF CacheKnown
  <2>7. r.uid = e.row.uid /\ r.cache = cache
    BY <2>3
  <2> HIDE DEF e
  <2>8. Matches(e.row, f)
    BY <2>4 DEF e
  <2>9. QED
    BY <2>5, <2>6, <2>7, <2>8, NotRefilled, UidFacts DEF Found
<1>2. CASE H = {} /\ f.protocol = "icmp" /\ version = 6
  <2>1. r = [uid |-> Unknown, cache |-> cache]
    BY <1>2 DEF get_uid_sub
  <2>2. r.uid = Unknown /\ r.cache = cache
    BY <2>1
  <2>3. \A s \in rows : s.version = version => ~Matches(s, f)
    BY <1>2, OwnerAssumption DEF Matches
  <2>4. QED
    BY <2>2, <2>3, NotRefilled, UidFacts DEF Found
<1>3. CASE H = {} /\ ~(f.protocol = "icmp" /\ version = 6)
  <2>1. r \in Scans(version, f, cache)
    BY <1>3 DEF get_uid_sub
  <2>2. QED
    BY <2>1, ScanFacts
<1>4. QED
  BY <1>1, <1>2, <1>3

\* get_uid and get_uid_q.
LEMMA LookupFacts ==
  ASSUME NEW f \in Flows, q \in BOOLEAN,
         uid_cache \in Seq(Entry), rows \in SUBSET Sockets, IsFiniteSet(rows), CacheKnown,
         NEW r \in IF q THEN get_uid_q(f) ELSE get_uid(f)
  PROVE  /\ r.uid \in Uids \cup {Unknown, Failed}
         /\ r.uid \in Uids => \E s \in rows \cup (IF q THEN {} ELSE {g.row : g \in gone}) :
                                Matches(s, f) /\ s.uid = r.uid
         /\ r.uid = Unknown /\ ~q => ~\E s \in rows : Matches(s, f)
         /\ Refilled(uid_cache, r.cache, rows)
<1>1. CASE q
  <2>1. PICK u \in {Unknown} \cup {s.uid : s \in {t \in rows : Matches(t, f)}} :
          r = [uid |-> u, cache |-> uid_cache]
    BY <1>1 DEF get_uid_q
  <2>2. r.uid = u /\ r.cache = uid_cache
    BY <2>1
  <2>3. u = Unknown \/ \E s \in rows : Matches(s, f) /\ s.uid = u
    BY <2>1
  <2>4. u \in Uids \cup {Unknown}
    BY <2>3, UidFacts
  <2>5. QED
    BY <1>1, <2>2, <2>3, <2>4, NotRefilled, UidFacts
<1>2. CASE ~q
  <2>1. PICK a \in get_uid_sub(6, f, uid_cache) :
          r \in IF a.uid = Unknown THEN get_uid_sub(4, f, a.cache) ELSE {a}
    BY <1>2 DEF get_uid
  <2>2. Found(a, f, 6) /\ Refilled(uid_cache, a.cache, rows)
    BY SubFacts
  <2>3. CASE a.uid # Unknown
    BY <1>2, <2>1, <2>2, <2>3, UidFacts DEF Found
  <2>4. CASE a.uid = Unknown
    <3>1. a.cache \in Seq(Entry) /\ r \in get_uid_sub(4, f, a.cache)
      BY <2>1, <2>2, <2>4 DEF Refilled
    <3>2. Found(r, f, 4) /\ Refilled(a.cache, r.cache, rows)
      BY <3>1, SubFacts
    <3>3. Refilled(uid_cache, r.cache, rows)
      BY <2>2, <3>1, <3>2, RefilledTwice
    <3>4. r.uid = Unknown => ~\E s \in rows : Matches(s, f)
      BY <2>2, <2>4, <3>2, UidFacts DEF Found
    <3>5. QED
      BY <1>2, <3>2, <3>3, <3>4 DEF Found
  <2>5. QED
    BY <2>3, <2>4
<1>3. QED
  BY <1>1, <1>2

(***************************************************************************)
(* Packets.                                                                *)
(***************************************************************************)
\* The owner of a session had a socket for its destination, which is the one of
\* the packet.
LEMMA SessionFacts ==
  ASSUME NEW f \in Flows, sessions \in Seq(Session), SessionsOwned
  PROVE  /\ get_uid_from_session(f) \in Owner
         /\ get_uid_from_session(f) # Unknown => HadOnce(get_uid_from_session(f), f)
<1> DEFINE M == {i \in DOMAIN sessions : SessionMatches(sessions[i], f)}
           k == First(M)
<1>1. get_uid_from_session(f) = IF M = {} THEN Unknown ELSE sessions[k].uid
  BY DEF get_uid_from_session
<1>2. Len(sessions) \in Nat /\ M \in SUBSET (1..Len(sessions))
  OBVIOUS
<1>3. CASE M = {}
  BY <1>1, <1>3 DEF Owner
<1>4. CASE M # {}
  <2> HIDE DEF M
  <2>1. k \in M
    BY <1>2, <1>4, FirstFacts
  <2> HIDE DEF k
  <2>2. k \in DOMAIN sessions /\ SessionMatches(sessions[k], f)
    BY <2>1 DEF M
  <2>3. sessions[k] \in Session
    BY <2>2
  <2>4. sessions[k].uid \in Owner /\ sessions[k].flow.dest = f.dest
    BY <2>2, <2>3 DEF Session, SessionMatches
  <2>5. sessions[k].uid # Unknown => HadOnce(sessions[k].uid, f)
    BY <2>2, <2>4 DEF SessionsOwned, HadOnce, HadSocket
  <2>6. QED
    BY <1>1, <1>4, <2>4, <2>5
<1>5. QED
  BY <1>3, <1>4

\* A session may be added in front of the others.
LEMMA KeptFacts ==
  ASSUME NEW f \in Flows, NEW u \in Owner, sessions \in Seq(Session), NEW s \in Kept(f, u)
  PROVE  /\ s \in Seq(Session)
         /\ \A i \in DOMAIN s : \/ s[i].flow = f /\ s[i].uid = u
                                \/ \E j \in DOMAIN sessions : s[i] = sessions[j]
<1> DEFINE e == [flow |-> f, uid |-> u]
<1>1. s = sessions \/ s = <<e>> \o sessions
  BY DEF Kept
<1>2. e \in Session /\ e.flow = f /\ e.uid = u
  BY DEF Session
<1> HIDE DEF e
<1>3. CASE s = sessions
  BY <1>3
<1>4. CASE s = <<e>> \o sessions
  <2>1. s \in Seq(Session) /\ Len(s) = Len(sessions) + 1
    BY <1>2, <1>4
  <2>2. ASSUME NEW i \in DOMAIN s
        PROVE  s[i] = e \/ \E j \in DOMAIN sessions : s[i] = sessions[j]
    <3>1. Len(sessions) \in Nat /\ i \in 1..(Len(sessions) + 1)
      BY <2>1, <2>2
    <3>2. CASE i = 1
      BY <1>2, <1>4, <3>2
    <3>3. CASE i # 1
      <4>1. i - 1 \in DOMAIN sessions
        BY <3>1, <3>3
      <4>2. s[i] = sessions[i - 1]
        BY <1>2, <1>4, <3>1, <3>3
      <4>3. QED
        BY <4>1, <4>2
    <3>4. QED
      BY <3>2, <3>3
  <2>3. QED
    BY <1>2, <2>1, <2>2
<1>5. QED
  BY <1>1, <1>3, <1>4

\* No socket is opened.
SameOwners == seen'.owners = seen.owners /\ seen'.cleared = seen.cleared

\* An owner since the start is one since the sessions were cleared.
LEMMA HadBoth ==
  ASSUME OwnersKnown, NEW u, NEW f, Had(u, f)
  PROVE  HadOnce(u, f)
  BY DEF OwnersKnown, Had, HadOnce, HadSocket

\* What the branches of handle_ip have in common.
LEMMA PacketStep ==
  ASSUME LookupInv, NEW f \in Flows, NEW u \in Owner, Packet(f),
         u # Unknown => HadOnce(u, f),
         last'.by = "session" \/ (u # Unknown => Had(u, f)),
         Refilled(uid_cache, uid_cache', rows),
         seen' \in SeenType, SameOwners, Len(uid_cache') <= seen'.peak,
         sessions' \in Kept(f, u),
         map' = map \/ (u # Unknown /\ Had(u, f) /\ map' = [map EXCEPT ![Key(f)] = u]),
         last' # NoPacket, last'.flow = f, last'.uid = u,
         KernelAnswerFresh', DestinationIsLast'
  PROVE  LookupInv'
<1>1. /\ q' = q /\ rows' = rows /\ gone' = gone /\ q \in BOOLEAN /\ rows \in SUBSET Sockets
      /\ gone \subseteq [row : Sockets, age : 0..MaxAge] /\ IsFiniteSet(rows)
      /\ sessions \in Seq(Session) /\ map \in [Keys -> Owner]
  BY DEF LookupInv, TypeOK, Packet, Session, Owner
<1>2. uid_cache' \in Seq(Entry)
  BY DEF Refilled
<1>3. /\ sessions' \in Seq(Session)
      /\ \A i \in DOMAIN sessions' :
           \/ sessions'[i].flow = f /\ sessions'[i].uid = u
           \/ \E j \in DOMAIN sessions : sessions'[i] = sessions[j]
  BY <1>1, KeptFacts
<1>4. ASSUME NEW v, NEW h
      PROVE  (Had(v, h) => Had(v, h)') /\ (HadOnce(v, h) => HadOnce(v, h)')
  BY DEF Had, HadOnce, HadSocket, SameOwners
<1>5. SessionsOwned'
  <2>1. ASSUME NEW i \in DOMAIN sessions', sessions'[i].uid # Unknown
        PROVE  HadOnce(sessions'[i].uid, sessions'[i].flow)
    <3>1. CASE sessions'[i].flow = f /\ sessions'[i].uid = u
      BY <2>1, <3>1
    <3>2. CASE \E j \in DOMAIN sessions : sessions'[i] = sessions[j]
      BY <2>1, <3>2 DEF LookupInv, SessionsOwned
    <3>3. QED
      BY <1>3, <3>1, <3>2
  <2>2. QED
    BY <2>1 DEF SessionsOwned, HadOnce, HadSocket, SameOwners
<1>6. Key(f) \in Keys /\ \A g \in Flows : Key(g) \in Keys /\ (Key(g) = Key(f) => g.dest = f.dest)
  BY DEF Key, Keys
<1>7. map' \in [Keys -> Owner]
  BY <1>1
<1>8. MapOwned'
  <2>1. ASSUME NEW g \in Flows, map'[Key(g)] # Unknown PROVE Had(map'[Key(g)], g)
    <3>1. CASE map' = map
      BY <2>1, <3>1 DEF LookupInv, MapOwned
    <3>2. CASE u # Unknown /\ Had(u, f) /\ map' = [map EXCEPT ![Key(f)] = u]
      <4>1. CASE Key(g) = Key(f)
        <5>1. map'[Key(g)] = u
          BY <1>1, <1>6, <3>2, <4>1
        <5>2. g.dest = f.dest /\ Had(u, f)
          BY <1>6, <3>2, <4>1
        <5>3. QED
          BY <5>1, <5>2 DEF Had, HadSocket
      <4>2. CASE Key(g) # Key(f)
        <5>1. map'[Key(g)] = map[Key(g)]
          BY <1>1, <1>6, <3>2, <4>2
        <5>2. QED
          BY <2>1, <5>1 DEF LookupInv, MapOwned
      <4>3. QED
        BY <4>1, <4>2
    <3>3. QED
      BY <3>1, <3>2
  <2>2. QED
    BY <2>1 DEF MapOwned, Had, HadSocket, SameOwners
<1>9. CacheKnown'
  <2>1. \A i \in DOMAIN uid_cache' :
           \/ uid_cache'[i].row \in rows
           \/ i \in DOMAIN uid_cache /\ uid_cache'[i] = uid_cache[i]
    BY DEF Refilled
  <2>2. QED
    BY <1>1, <2>1 DEF LookupInv, CacheKnown, Expired
<1>10. OwnersKnown'
  BY <1>1 DEF LookupInv, OwnersKnown, SameOwners
<1>11. OwnerHadSocket'
  <2>1. u # Unknown => HadSocket(IF last'.by = "session" THEN seen'.cleared ELSE seen'.owners, u, f)
    BY DEF Had, HadOnce, SameOwners
  <2>2. QED
    BY <2>1 DEF OwnerHadSocket, HadSocket
<1>12. TypeOK'
  BY <1>1, <1>2, <1>3, <1>7 DEF TypeOK, Entry, Session, Owner, SeenType
<1>13. CacheBounded'
  BY DEF CacheBounded
<1>14. QED
  BY <1>1, <1>5, <1>8, <1>9, <1>10, <1>11, <1>12, <1>13 DEF LookupInv, Verdict, SeenType

\* The largest number of current rows is counted.
LEMMA CountFacts ==
  ASSUME LookupInv, NEW d, Refilled(uid_cache, d, rows), Counted(d)
  PROVE  seen' \in SeenType /\ SameOwners /\ Len(d) <= seen'.peak
<1>1. seen \in SeenType /\ Len(uid_cache) <= seen.peak /\ uid_cache \in Seq(Entry)
  BY DEF LookupInv, CacheBounded, TypeOK, Entry
<1>2. d \in Seq(Entry) /\ (Len(d) = Len(uid_cache) \/ Current(d) = Len(d))
  BY DEF Refilled
<1> DEFINE p == IF Current(d) > seen.peak THEN Current(d) ELSE seen.peak
<1>3. Current(d) \in Nat /\ Len(d) \in Nat /\ seen.peak \in Nat
  BY <1>1, <1>2, CurrentFacts DEF SeenType
<1>4. p \in Nat /\ Len(d) <= p
  BY <1>1, <1>2, <1>3
<1>5. seen' = [seen EXCEPT !.peak = p]
  BY DEF Counted
<1> HIDE DEF p
<1>6. QED
  BY <1>1, <1>4, <1>5 DEF SeenType, SameOwners

\* The owner of the session.
LEMMA OfSessionKeeps ==
  ASSUME LookupInv, NEW f \in Flows, OfSession(f)
  PROVE  LookupInv'
<1> DEFINE u == get_uid_from_session(f)
<1>1. sessions \in Seq(Session) /\ SessionsOwned /\ uid_cache \in Seq(Entry) /\ seen \in SeenType
  BY DEF LookupInv, TypeOK, Session, Owner, Entry
<1>2. u \in Owner /\ (u # Unknown => HadOnce(u, f))
  BY <1>1, SessionFacts
<1>3. /\ Packet(f) /\ sessions' \in Kept(f, u) /\ uid_cache' = uid_cache /\ map' = map /\ seen' = seen
      /\ last' = [by |-> "session", flow |-> f, uid |-> u]
  BY DEF OfSession
<1> HIDE DEF u
<1>4. last'.by = "session" /\ last'.flow = f /\ last'.uid = u
  BY <1>3
<1>5. last' # NoPacket /\ KernelAnswerFresh' /\ DestinationIsLast'
  BY <1>4 DEF NoPacket, KernelAnswerFresh, DestinationIsLast
<1>6. Refilled(uid_cache, uid_cache', rows)
  BY <1>1, <1>3, NotRefilled
<1>7. Len(uid_cache') <= seen'.peak /\ seen' \in SeenType /\ SameOwners
  BY <1>1, <1>3 DEF LookupInv, CacheBounded, SameOwners
<1>8. QED
  BY <1>2, <1>3, <1>4, <1>5, <1>6, <1>7, PacketStep

\* The owner the kernel knows.
LEMMA OfKernelKeeps ==
  ASSUME LookupInv, NEW f \in Flows, OfKernel(f)
  PROVE  LookupInv'
<1>1. /\ uid_cache \in Seq(Entry) /\ rows \in SUBSET Sockets /\ IsFiniteSet(rows) /\ CacheKnown
      /\ q \in BOOLEAN
  BY DEF LookupInv, TypeOK, Entry
<1>2. PICK r \in IF q THEN get_uid_q(f) ELSE get_uid(f) :
        /\ r.uid >= 0 /\ uid_cache' = r.cache /\ Counted(r.cache)
        /\ map' = [map EXCEPT ![Key(f)] = r.uid]
        /\ last' = [by |-> "kernel", flow |-> f, uid |-> r.uid]
        /\ sessions' \in Kept(f, r.uid)
  BY DEF OfKernel
<1> DEFINE u == r.uid
<1>3. /\ u \in Uids \cup {Unknown, Failed}
      /\ u \in Uids => \E s \in rows \cup (IF q THEN {} ELSE {g.row : g \in gone}) :
                         Matches(s, f) /\ s.uid = u
      /\ Refilled(uid_cache, r.cache, rows)
  BY <1>1, LookupFacts
<1> HIDE DEF u
<1>4. u \in Uids /\ u \in Owner /\ u # Unknown
  BY <1>2, <1>3, UidFacts DEF Owner, u
<1>5. PICK s \in rows \cup (IF q THEN {} ELSE {g.row : g \in gone}) : Matches(s, f) /\ s.uid = u
  BY <1>3, <1>4
<1>6. Packet(f) /\ q' = q /\ rows' = rows /\ gone' = gone
  BY DEF OfKernel, Packet
<1>7. Had(u, f) /\ HadOnce(u, f)
  <2>1. <<s.uid, s.dest>> \in seen.owners
    BY <1>5 DEF LookupInv, OwnersKnown
  <2>2. Had(u, f)
    BY <1>5, <2>1 DEF Had, HadSocket, Matches
  <2>3. QED
    BY <2>2, HadBoth DEF LookupInv
<1>8. last'.by = "kernel" /\ last'.flow = f /\ last'.uid = u
  BY <1>2 DEF u
<1>9. last' # NoPacket /\ DestinationIsLast'
  BY <1>8 DEF NoPacket, DestinationIsLast
<1>10. KernelAnswerFresh'
  BY <1>5, <1>6, <1>8 DEF KernelAnswerFresh, Matches
<1>11. seen' \in SeenType /\ SameOwners /\ Len(uid_cache') <= seen'.peak
  BY <1>2, <1>3, CountFacts
<1>12. /\ map' = [map EXCEPT ![Key(f)] = u] /\ sessions' \in Kept(f, u)
       /\ Refilled(uid_cache, uid_cache', rows)
  BY <1>2, <1>3 DEF u
<1>13. QED
  BY <1>4, <1>6, <1>7, <1>8, <1>9, <1>10, <1>11, <1>12, PacketStep

\* The owner of the destination.
LEMMA OfDestinationKeeps ==
  ASSUME LookupInv, NEW f \in Flows, OfDestination(f)
  PROVE  LookupInv'
<1>1. /\ uid_cache \in Seq(Entry) /\ rows \in SUBSET Sockets /\ IsFiniteSet(rows) /\ CacheKnown
      /\ q \in BOOLEAN /\ map \in [Keys -> Owner] /\ Key(f) \in Keys
  BY DEF LookupInv, TypeOK, Entry, Owner, Keys
<1> DEFINE u == map[Key(f)]
<1>2. PICK r \in IF q THEN get_uid_q(f) ELSE get_uid(f) :
        /\ r.uid < 0 /\ uid_cache' = r.cache /\ Counted(r.cache)
        /\ last' = [by |-> "map", flow |-> f, uid |-> u, failed |-> r.uid = Failed \/ q]
        /\ sessions' \in Kept(f, u)
  BY DEF OfDestination, Fallback, getUidCached
<1>3. /\ r.uid \in Uids \cup {Unknown, Failed}
      /\ r.uid = Unknown /\ ~q => ~\E s \in rows : Matches(s, f)
      /\ Refilled(uid_cache, r.cache, rows)
  BY <1>1, LookupFacts
<1>4. r.uid = Unknown \/ r.uid = Failed
  <2>1. \A n \in Nat : ~(n < 0)
    OBVIOUS
  <2>2. QED
    BY <1>2, <1>3, <2>1, UidFacts
<1>5. u \in Owner /\ (u # Unknown => Had(u, f) /\ HadOnce(u, f))
  BY <1>1, HadBoth DEF LookupInv, MapOwned
<1>6. Packet(f) /\ q' = q /\ rows' = rows /\ gone' = gone /\ map' = map
  BY DEF OfDestination, Packet
<1> DEFINE b == r.uid = Failed \/ q
<1> HIDE DEF u, b
<1>7. last'.by = "map" /\ last'.flow = f /\ last'.uid = u /\ last'.failed = b
  BY <1>2 DEF b
<1>8. last' # NoPacket /\ KernelAnswerFresh'
  BY <1>7 DEF NoPacket, KernelAnswerFresh
<1>9. DestinationIsLast'
  <2>1. ~b => ~\E s \in rows : Matches(s, f)
    BY <1>3, <1>4 DEF b
  <2>2. QED
    BY <1>6, <1>7, <2>1 DEF DestinationIsLast, Matches
<1>10. seen' \in SeenType /\ SameOwners /\ Len(uid_cache') <= seen'.peak
  BY <1>2, <1>3, CountFacts
<1>11. sessions' \in Kept(f, u) /\ Refilled(uid_cache, uid_cache', rows)
  BY <1>2, <1>3
<1>12. QED
  BY <1>5, <1>6, <1>7, <1>8, <1>9, <1>10, <1>11, PacketStep

(***************************************************************************)
(* Between packets.                                                        *)
(***************************************************************************)
\* Nothing is said of a packet that is not there.
LEMMA NoVerdict == ASSUME last' = NoPacket PROVE Verdict'
<1>1. last'.by = "none"
  BY DEF NoPacket
<1>2. QED
  BY <1>1 DEF Verdict, KernelAnswerFresh, DestinationIsLast, OwnerHadSocket

\* The parts of the invariant that say nothing of the packet.
LEMMA InvParts ==
  LookupInv =>
    /\ q \in BOOLEAN /\ rows \in SUBSET Sockets /\ gone \in SUBSET [row : Sockets, age : 0..MaxAge]
    /\ uid_cache \in Seq(Entry) /\ sessions \in Seq(Session) /\ map \in [Keys -> Owner]
    /\ seen \in SeenType /\ IsFiniteSet(rows)
    /\ CacheKnown /\ OwnersKnown /\ SessionsOwned /\ MapOwned /\ Len(uid_cache) <= seen.peak
  BY DEF LookupInv, TypeOK, Entry, Session, Owner, CacheBounded

\* They suffice in a state between packets.
LEMMA BetweenPackets ==
  ASSUME q' \in BOOLEAN, rows' \in SUBSET Sockets,
         gone' \in SUBSET [row : Sockets, age : 0..MaxAge],
         uid_cache' \in Seq(Entry), sessions' \in Seq(Session), map' \in [Keys -> Owner],
         seen' \in SeenType, IsFiniteSet(rows'), last' = NoPacket,
         CacheKnown', OwnersKnown', SessionsOwned', MapOwned', Len(uid_cache') <= seen'.peak
  PROVE  LookupInv'
<1>1. TypeOK'
  BY DEF TypeOK, Entry, Session, Owner, SeenType
<1>2. QED
  BY <1>1, NoVerdict DEF LookupInv, SeenType, CacheBounded

\* The first packet has not come.
LEMMA InitKeeps == Init => LookupInv
<1> SUFFICES ASSUME Init PROVE LookupInv
  OBVIOUS
<1>1. IsFiniteSet(rows)
  BY FS_EmptySet DEF Init
<1>2. map \in [Keys -> Owner] /\ \A f \in Flows : map[Key(f)] = Unknown
  BY DEF Init, NoUids, Owner, Keys
<1>3. last.by = "none" /\ last = NoPacket
  BY DEF Init, NoPacket
<1>4. Verdict
  BY <1>3 DEF Verdict, KernelAnswerFresh, DestinationIsLast, OwnerHadSocket
<1>5. seen \in SeenType /\ seen.peak = 0 /\ uid_cache = <<>>
  BY DEF Init, SeenType
<1>6. CacheKnown /\ OwnersKnown /\ SessionsOwned /\ MapOwned /\ CacheBounded
  BY <1>2, <1>5 DEF Init, CacheKnown, OwnersKnown, SessionsOwned, MapOwned, CacheBounded
<1>7. TypeOK
  BY <1>2, <1>3, <1>5 DEF Init, TypeOK, Owner, SeenType
<1>8. QED
  BY <1>1, <1>4, <1>5, <1>6, <1>7 DEF LookupInv

\* The packet is handled, and sessions end.
LEMMA SessionEnds ==
  ASSUME LookupInv, Dispatch \/ \E i \in DOMAIN sessions : EndSession(i)
  PROVE  LookupInv'
<1>1. /\ q' = q /\ rows' = rows /\ gone' = gone /\ uid_cache' = uid_cache /\ map' = map
      /\ seen' = seen /\ last' = NoPacket
  BY DEF Dispatch, EndSession
<1>2. CacheKnown' /\ OwnersKnown' /\ MapOwned'
  BY <1>1, InvParts DEF CacheKnown, OwnersKnown, MapOwned, Had, HadSocket, Expired
<1>3. /\ sessions' \in Seq(Session)
      /\ \A i \in DOMAIN sessions' : \E j \in DOMAIN sessions : sessions'[i] = sessions[j]
  <2>1. CASE Dispatch
    BY <2>1, InvParts DEF Dispatch
  <2>2. CASE \E i \in DOMAIN sessions : EndSession(i)
    <3>1. PICK i \in DOMAIN sessions :
            sessions' = SubSeq(sessions, 1, i - 1) \o SubSeq(sessions, i + 1, Len(sessions))
      BY <2>2 DEF EndSession
    <3> DEFINE n == Len(sessions)
               a == SubSeq(sessions, 1, i - 1)
               b == SubSeq(sessions, i + 1, n)
    <3>2. sessions \in Seq(Session) /\ n \in Nat /\ i \in 1..n /\ DOMAIN sessions = 1..n
      BY InvParts
    <3>3. \A j \in 1..n : sessions[j] \in Session
      BY <3>2
    <3>4. /\ a \in Seq(Session) /\ Len(a) = i - 1 /\ \A j \in 1..(i - 1) : a[j] = sessions[j]
      BY <3>2, <3>3
    <3>5. /\ b \in Seq(Session) /\ Len(b) = n - i /\ \A j \in 1..(n - i) : b[j] = sessions[i + j]
      BY <3>2, <3>3
    <3> HIDE DEF a, b, n
    <3>6. sessions' \in Seq(Session) /\ Len(sessions') = n - 1
      <4>1. sessions' = a \o b
        BY <3>1 DEF a, b, n
      <4>2. a \o b \in Seq(Session) /\ Len(a \o b) = Len(a) + Len(b)
        BY <3>4, <3>5
      <4>3. (i - 1) + (n - i) = n - 1
        BY <3>2
      <4>4. QED
        BY <3>4, <3>5, <4>1, <4>2, <4>3
    <3>7. ASSUME NEW j \in DOMAIN sessions' PROVE \E k \in 1..n : sessions'[j] = sessions[k]
      <4>1. j \in Nat /\ j >= 1 /\ j <= n - 1
        BY <3>2, <3>6
      <4>2. sessions' = a \o b
        BY <3>1 DEF a, b, n
      <4>3. CASE j <= i - 1
        <5>1. sessions'[j] = a[j]
          BY <3>2, <3>4, <3>5, <4>1, <4>2, <4>3
        <5>2. j \in 1..(i - 1) /\ j \in 1..n
          BY <3>2, <4>1, <4>3
        <5>3. QED
          BY <3>4, <5>1, <5>2
      <4>4. CASE j > i - 1
        <5> DEFINE k == j - (i - 1)
        <5>1. k \in 1..(n - i) /\ i + k = j + 1 /\ j + 1 \in 1..n
          BY <3>2, <4>1, <4>4
        <5>2. sessions'[j] = b[k]
          BY <3>2, <3>4, <3>5, <4>1, <4>2, <4>4
        <5> HIDE DEF k
        <5>3. QED
          BY <3>5, <5>1, <5>2
      <4>5. QED
        BY <3>2, <4>1, <4>3, <4>4
    <3>8. QED
      BY <3>2, <3>6, <3>7
  <2>3. QED
    BY <2>1, <2>2
<1>4. SessionsOwned'
  BY <1>1, <1>3, InvParts DEF SessionsOwned, HadOnce, HadSocket
<1>5. QED
  BY <1>1, <1>2, <1>3, <1>4, InvParts, BetweenPackets

\* The tunnel is started again, or the service ends: what was learnt of
\* destinations is forgotten, and so are the sessions, unless the loop had ended
\* by itself.
LEMMA RestartKeeps ==
  ASSUME LookupInv, Restart \/ RestartAfterExit \/ Destroy
  PROVE  LookupInv'
<1>1. /\ q' = q /\ rows' = rows /\ gone' = gone /\ last' = NoPacket /\ map' = NoUids
      /\ \/ /\ sessions' = <<>> /\ uid_cache' = uid_cache
            /\ seen' = [seen EXCEPT !.owners = Owning, !.cleared = Owning]
         \/ /\ sessions' = sessions /\ uid_cache' = uid_cache
            /\ seen' = [seen EXCEPT !.owners = Owning]
         \/ /\ sessions' = <<>> /\ uid_cache' = <<>>
            /\ seen' = [owners |-> Owning, cleared |-> Owning, peak |-> 0]
  BY DEF Restart, RestartAfterExit, Destroy, prepareCacheMaps
<1>2. /\ Owning \in SUBSET (Uids \X STRING) /\ Owning \subseteq seen.cleared
      /\ \A s \in rows : <<s.uid, s.dest>> \in Owning
      /\ \A g \in gone : <<g.row.uid, g.row.dest>> \in Owning
  <2>1. \A s \in rows \cup {g.row : g \in gone} : s \in Sockets
    BY InvParts
  <2>2. \A s \in rows \cup {g.row : g \in gone} : <<s.uid, s.dest>> \in seen.cleared
    BY InvParts DEF OwnersKnown
  <2>3. QED
    BY <2>1, <2>2, UidFacts DEF Owning
<1>3. /\ seen' \in SeenType /\ seen'.owners = Owning /\ uid_cache' \in Seq(Entry)
      /\ Len(uid_cache') <= seen'.peak /\ Owning \subseteq seen'.cleared
      /\ sessions' = <<>> \/ (sessions' = sessions /\ seen'.cleared = seen.cleared)
  <2>1. CASE uid_cache' = uid_cache /\ seen' = [seen EXCEPT !.owners = Owning, !.cleared = Owning]
    BY <1>1, <1>2, <2>1, InvParts DEF SeenType
  <2>2. CASE /\ sessions' = sessions /\ uid_cache' = uid_cache
             /\ seen' = [seen EXCEPT !.owners = Owning]
    BY <1>2, <2>2, InvParts DEF SeenType
  <2>3. CASE /\ sessions' = <<>> /\ uid_cache' = <<>>
             /\ seen' = [owners |-> Owning, cleared |-> Owning, peak |-> 0]
    BY <1>2, <2>3 DEF SeenType
  <2>4. QED
    BY <1>1, <2>1, <2>2, <2>3
<1>4. map' \in [Keys -> Owner] /\ \A f \in Flows : map'[Key(f)] = Unknown
  BY <1>1 DEF NoUids, Owner, Keys
<1>5. sessions' \in Seq(Session) /\ SessionsOwned' /\ MapOwned' /\ OwnersKnown'
  <2>1. MapOwned' /\ OwnersKnown'
    BY <1>1, <1>2, <1>3, <1>4 DEF MapOwned, OwnersKnown
  <2>2. CASE sessions' = <<>>
    BY <2>1, <2>2 DEF SessionsOwned
  <2>3. CASE sessions' = sessions /\ seen'.cleared = seen.cleared
    BY <2>1, <2>3, InvParts DEF SessionsOwned, HadOnce, HadSocket
  <2>4. QED
    BY <1>3, <2>2, <2>3
<1>6. CacheKnown'
  <2>1. CASE uid_cache' = uid_cache
    BY <1>1, <2>1, InvParts DEF CacheKnown, Expired
  <2>2. CASE uid_cache' = <<>>
    BY <2>2 DEF CacheKnown
  <2>3. QED
    BY <1>1, <2>1, <2>2
<1>7. QED
  BY <1>1, <1>3, <1>4, <1>5, <1>6, InvParts, BetweenPackets

\* An app opens a socket.
LEMMA OpenKeeps ==
  ASSUME LookupInv, NEW s \in Sockets, Open(s)
  PROVE  LookupInv'
<1>1. /\ q' = q /\ uid_cache' = uid_cache /\ sessions' = sessions /\ map' = map /\ last' = NoPacket
      /\ rows' = rows \cup {s} /\ gone' = {g \in gone : g.row # s}
      /\ seen' = [seen EXCEPT !.owners = @ \cup {<<s.uid, s.dest>>},
                              !.cleared = @ \cup {<<s.uid, s.dest>>}]
  BY DEF Open
<1>2. s.uid \in Uids /\ s.dest \in STRING
  BY UidFacts
<1>3. /\ seen' \in SeenType /\ seen'.peak = seen.peak
      /\ seen'.owners = seen.owners \cup {<<s.uid, s.dest>>}
      /\ seen'.cleared = seen.cleared \cup {<<s.uid, s.dest>>}
  <2> DEFINE a == seen.owners \cup {<<s.uid, s.dest>>}
             b == seen.cleared \cup {<<s.uid, s.dest>>}
  <2>1. seen \in SeenType
    BY InvParts
  <2>2. a \in SUBSET (Uids \X STRING) /\ b \in SUBSET (Uids \X STRING)
    BY <1>2, <2>1 DEF SeenType
  <2>3. seen' = [seen EXCEPT !.owners = a, !.cleared = b]
    BY <1>1, <2>1 DEF SeenType
  <2> HIDE DEF a, b
  <2>4. seen' \in SeenType /\ seen'.peak = seen.peak /\ seen'.owners = a /\ seen'.cleared = b
    BY <2>1, <2>2, <2>3 DEF SeenType
  <2>5. QED
    BY <2>4 DEF a, b
<1>4. IsFiniteSet(rows')
  BY <1>1, InvParts, FS_AddElement
<1>5. OwnersKnown'
  BY <1>1, <1>3, InvParts DEF OwnersKnown
<1>6. SessionsOwned' /\ MapOwned'
  BY <1>1, <1>3, InvParts DEF SessionsOwned, MapOwned, Had, HadOnce, HadSocket
<1>7. CacheKnown'
  BY <1>1, InvParts DEF CacheKnown, Expired
<1>8. QED
  BY <1>1, <1>3, <1>4, <1>5, <1>6, <1>7, InvParts, BetweenPackets

\* An app closes one: a row that was read before is not newer than that.
LEMMA CloseKeeps ==
  ASSUME LookupInv, NEW s \in Sockets, Close(s)
  PROVE  LookupInv'
<1>1. /\ q' = q /\ uid_cache' = uid_cache /\ sessions' = sessions /\ map' = map /\ last' = NoPacket
      /\ seen' = seen /\ rows' = rows \ {s} /\ s \in rows
      /\ gone' = gone \cup {[row |-> s, age |-> 0]}
  BY DEF Close
<1> DEFINE c == [row |-> s, age |-> 0]
<1>2. c \in [row : Sockets, age : 0..MaxAge] /\ c.row = s /\ c.age = 0
  BY OwnerAssumption
<1>3. IsFiniteSet(rows')
  BY <1>1, InvParts, FS_Subset
<1> HIDE DEF c
<1>4. gone' = gone \cup {c}
  BY <1>1 DEF c
<1>5. gone' \in SUBSET [row : Sockets, age : 0..MaxAge]
  BY <1>2, <1>4, InvParts
<1>6. OwnersKnown'
  BY <1>1, <1>2, <1>4, InvParts DEF OwnersKnown
<1>7. SessionsOwned' /\ MapOwned'
  BY <1>1, InvParts DEF SessionsOwned, MapOwned, Had, HadOnce, HadSocket
<1>8. CacheKnown'
  <2>1. ASSUME NEW i \in DOMAIN uid_cache, ~Expired(uid_cache[i])
        PROVE  \/ uid_cache[i].row \in rows'
               \/ \E g \in gone' : g.row = uid_cache[i].row /\ g.age <= uid_cache[i].age
    <3>1. uid_cache[i] \in Entry
      BY InvParts
    <3>2. uid_cache[i].age \in Nat
      <4>1. uid_cache[i].age \in 0..(MaxAge + 1) /\ MaxAge \in Nat
        BY <3>1, OwnerAssumption DEF Entry
      <4>2. QED
        BY <4>1
    <3>3. CASE uid_cache[i].row \in rows
      <4>1. 0 <= uid_cache[i].age
        BY <3>2
      <4>2. QED
        BY <1>1, <1>2, <1>4, <3>3, <4>1
    <3>4. CASE \E g \in gone : g.row = uid_cache[i].row /\ g.age <= uid_cache[i].age
      BY <1>4, <3>4
    <3>5. QED
      BY <2>1, <3>3, <3>4, InvParts DEF CacheKnown
  <2>2. QED
    BY <1>1, <2>1 DEF CacheKnown, Expired
<1>9. QED
  BY <1>1, <1>3, <1>5, <1>6, <1>7, <1>8, InvParts, BetweenPackets

\* Time passes for rows that were read as for sockets that were closed.
LEMMA TickKeeps ==
  ASSUME LookupInv, Tick
  PROVE  LookupInv'
<1> DEFINE Aged(e) == [e EXCEPT !.age = IF Expired(e) THEN @ ELSE @ + 1]
           Older(g) == [g EXCEPT !.age = @ + 1]
<1>1. /\ q' = q /\ rows' = rows /\ sessions' = sessions /\ map' = map /\ last' = NoPacket
      /\ seen' = seen
      /\ gone' = {Older(g) : g \in {h \in gone : h.age < MaxAge}}
      /\ uid_cache' = [i \in DOMAIN uid_cache |-> Aged(uid_cache[i])]
  BY DEF Tick
<1>2. MaxAge \in Nat
  BY OwnerAssumption
<1>3. ASSUME NEW e \in Entry
      PROVE  /\ Aged(e) \in Entry /\ Aged(e).row = e.row /\ e.age \in Nat /\ Aged(e).age \in Nat
             /\ ~Expired(Aged(e)) => e.age < MaxAge /\ Aged(e).age = e.age + 1 /\ ~Expired(e)
  <2> DEFINE a == IF e.age > MaxAge THEN e.age ELSE e.age + 1
  <2>1. e.age \in 0..(MaxAge + 1) /\ e.row \in Sockets
    BY DEF Entry
  <2>2. /\ e.age \in Nat /\ a \in Nat /\ a \in 0..(MaxAge + 1)
        /\ ~(a > MaxAge) => e.age < MaxAge /\ a = e.age + 1 /\ ~(e.age > MaxAge)
    BY <1>2, <2>1
  <2>3. Aged(e) = [e EXCEPT !.age = a]
    BY DEF Expired
  <2> HIDE DEF a, Aged
  <2>4. Aged(e) \in Entry /\ Aged(e).row = e.row /\ Aged(e).age = a
    BY <2>2, <2>3 DEF Entry
  <2>5. QED
    BY <2>2, <2>4 DEF Expired
<1>4. ASSUME NEW g \in gone, g.age < MaxAge
      PROVE  /\ Older(g) \in [row : Sockets, age : 0..MaxAge] /\ Older(g).row = g.row
             /\ Older(g).age = g.age + 1 /\ g.age \in Nat
  <2> DEFINE a == g.age + 1
  <2>1. g \in [row : Sockets, age : 0..MaxAge]
    BY InvParts
  <2>2. a \in 0..MaxAge /\ g.age \in Nat
    BY <1>2, <1>4, <2>1
  <2>3. Older(g) = [g EXCEPT !.age = a]
    OBVIOUS
  <2> HIDE DEF a, Older
  <2>4. Older(g) \in [row : Sockets, age : 0..MaxAge] /\ Older(g).row = g.row /\ Older(g).age = a
    BY <2>1, <2>2, <2>3
  <2>5. QED
    BY <2>2, <2>4 DEF a
<1> HIDE DEF Aged, Older
<1>5. gone' \in SUBSET [row : Sockets, age : 0..MaxAge]
  BY <1>1, <1>4
<1>6. \A i \in DOMAIN uid_cache : uid_cache[i] \in Entry
  BY InvParts
<1>7. uid_cache' \in Seq(Entry) /\ Len(uid_cache') = Len(uid_cache)
  <2>1. Len(uid_cache) \in Nat /\ DOMAIN uid_cache = 1..Len(uid_cache)
    BY InvParts
  <2>2. uid_cache' \in [1..Len(uid_cache) -> Entry]
    BY <1>1, <1>3, <1>6, <2>1
  <2>3. QED
    BY <2>1, <2>2
<1>8. OwnersKnown'
  <2>1. \A g \in gone' : <<g.row.uid, g.row.dest>> \in seen.owners
    BY <1>1, <1>4, InvParts DEF OwnersKnown
  <2>2. QED
    BY <1>1, <2>1, InvParts DEF OwnersKnown
<1>9. SessionsOwned' /\ MapOwned'
  BY <1>1, InvParts DEF SessionsOwned, MapOwned, Had, HadOnce, HadSocket
<1>10. CacheKnown'
  <2>1. ASSUME NEW i \in DOMAIN uid_cache, ~Expired(Aged(uid_cache[i]))
        PROVE  \/ Aged(uid_cache[i]).row \in rows
               \/ \E g \in gone' : g.row = Aged(uid_cache[i]).row /\ g.age <= Aged(uid_cache[i]).age
    <3> DEFINE e == uid_cache[i]
    <3>1. /\ Aged(e).row = e.row /\ ~Expired(e) /\ e.age < MaxAge /\ Aged(e).age = e.age + 1
          /\ e.age \in Nat
      BY <1>3, <1>6, <2>1
    <3>2. e.row \in rows \/ \E g \in gone : g.row = e.row /\ g.age <= e.age
      BY <3>1, InvParts DEF CacheKnown
    <3> HIDE DEF e
    <3>3. CASE e.row \in rows
      BY <3>1, <3>3 DEF e
    <3>4. CASE \E g \in gone : g.row = e.row /\ g.age <= e.age
      <4>1. PICK g \in gone : g.row = e.row /\ g.age <= e.age
        BY <3>4
      <4>2. g.age \in Nat
        <5>1. g.age \in 0..MaxAge
          BY InvParts
        <5>2. QED
          BY <1>2, <5>1
      <4>3. g.age < MaxAge
        BY <1>2, <3>1, <4>1, <4>2
      <4>4. Older(g) \in gone' /\ Older(g).row = g.row /\ Older(g).age = g.age + 1
        BY <1>1, <1>4, <4>3
      <4>5. Older(g).age <= Aged(e).age
        BY <3>1, <4>1, <4>2, <4>4
      <4>6. QED
        BY <3>1, <4>1, <4>4, <4>5 DEF e
    <3>5. QED
      BY <3>2, <3>3, <3>4
  <2>2. \A i \in DOMAIN uid_cache' : i \in DOMAIN uid_cache /\ uid_cache'[i] = Aged(uid_cache[i])
    BY <1>1
  <2>3. QED
    BY <1>1, <2>1, <2>2 DEF CacheKnown, Expired
<1>11. QED
  BY <1>1, <1>5, <1>7, <1>8, <1>9, <1>10, InvParts, BetweenPackets

-----------------------------------------------------------------------------
\* Every step keeps the invariant.
LEMMA Invariance == Spec => []LookupInv
<1>1. LookupInv /\ [Next]_vars => LookupInv'
  <2> SUFFICES ASSUME LookupInv, [Next]_vars PROVE LookupInv'
    OBVIOUS
  <2>1. CASE \E f \in Flows : OfSession(f) \/ OfKernel(f) \/ OfDestination(f)
    BY <2>1, OfSessionKeeps, OfKernelKeeps, OfDestinationKeeps
  <2>2. CASE Dispatch \/ \E i \in DOMAIN sessions : EndSession(i)
    BY <2>2, SessionEnds
  <2>3. CASE \E s \in Sockets : Open(s) \/ Close(s)
    BY <2>3, OpenKeeps, CloseKeeps
  <2>4. CASE Restart \/ RestartAfterExit \/ Destroy
    BY <2>4, RestartKeeps
  <2>5. CASE Tick
    BY <2>5, TickKeeps
  <2>6. CASE UNCHANGED vars
    BY <2>6 DEF vars, LookupInv, TypeOK, SeenType, CacheKnown, OwnersKnown, SessionsOwned, MapOwned,
         Had, HadOnce, HadSocket, CacheBounded, Verdict, KernelAnswerFresh, DestinationIsLast, OwnerHadSocket, Matches,
         Expired
  <2>7. QED
    BY <2>1, <2>2, <2>3, <2>4, <2>5, <2>6, Zenon DEF Next
<1>2. QED
  BY <1>1, InitKeeps, PTL DEF Spec

\* handle_ip goes on with the uid of an app or with -1; a failed read of
\* /proc/net (-2) ends neither in a session nor in the map.
THEOREM OwnerTyped == Spec => []TypeOK
<1>1. LookupInv => TypeOK
  BY DEF LookupInv
<1>2. QED
  BY <1>1, Invariance, PTL

\* An owner from the kernel had a matching socket within UID_MAX_AGE, although
\* sockets are closed and their ports used again beside the cache.
THEOREM AnswersFresh == Spec => []KernelAnswerFresh
<1>1. LookupInv => KernelAnswerFresh
  BY DEF LookupInv, Verdict
<1>2. QED
  BY <1>1, Invariance, PTL

\* What is remembered of the destination is used only where no open socket
\* matches, in either table, or a table could not be read.
THEOREM DestinationLast == Spec => []DestinationIsLast
<1>1. LookupInv => DestinationIsLast
  BY DEF LookupInv, Verdict
<1>2. QED
  BY <1>1, Invariance, PTL

\* An owner found in the kernel's tables, in their cache or in the map had a
\* socket for the destination since the tunnel was started, or just before; that
\* of a session had one since the sessions were last cleared, an earlier time if
\* a loop has ended by itself since.
THEOREM OwnersHadSockets == Spec => []OwnerHadSocket
<1>1. LookupInv => OwnerHadSocket
  BY DEF LookupInv, Verdict
<1>2. QED
  BY <1>1, Invariance, PTL

\* uid_cache is never longer than the largest number of rows that were current
\* at one time.
THEOREM CacheLimited == Spec => []CacheBounded
<1>1. LookupInv => CacheBounded
  BY DEF LookupInv
<1>2. QED
  BY <1>1, Invariance, PTL
=============================================================================
