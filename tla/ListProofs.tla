----------------------------- MODULE ListProofs -----------------------------
(***************************************************************************)
(* What is proved of the operators of list.h and of the traversal of a     *)
(* list.  The traversal is a recursive function: a fact about all of it is *)
(* proved by looking at the least place where it would fail.               *)
(***************************************************************************)
EXTENDS RoutingList, WellFoundedInduction, TLAPS

(* A set of natural numbers that is not empty has a least element.         *)
LEMMA Least ==
    ASSUME NEW S \in SUBSET Nat, S # {}
    PROVE  \E m \in S : \A n \in S : m <= n
  <1>1. PICK m \in S : \A n \in S : ~ (<< n, m >> \in OpToRel(<, Nat))
    BY NatLessThanWellFounded, WFMin
  <1>2. \A n \in S : n < m => << n, m >> \in OpToRel(<, Nat)
    BY DEF OpToRel
  <1>3. \A n \in S : ~ (n < m)
    BY <1>1, <1>2, Zenon
  <1>4. \A n \in S : n \in Nat
    OBVIOUS
  <1> QED BY <1>3, <1>4

-----------------------------------------------------------------------------
(* The traversal, by the prev pointers, from the head on.                  *)
WalkTo(l, head, m) ==
    CHOOSE at : at = [i \in 0 .. m |-> l.prev[IF i = 0 THEN head ELSE at[i - 1]]]

(* There is a traversal of every length: one that is too short by one can  *)
(* be continued.                                                           *)
LEMMA WalkExists ==
    ASSUME NEW l, NEW head, NEW m \in Nat
    PROVE  WalkTo(l, head, m) =
             [i \in 0 .. m |->
                 l.prev[IF i = 0 THEN head ELSE WalkTo(l, head, m)[i - 1]]]
  <1> DEFINE IsWalk(at, k) ==
               at = [i \in 0 .. k |-> l.prev[IF i = 0 THEN head ELSE at[i - 1]]]
             Short == {k \in Nat : ~ \E at : IsWalk(at, k)}
  <1>1. Short = {}
    <2> SUFFICES ASSUME Short # {} PROVE FALSE
      OBVIOUS
    <2>1. PICK k \in Short : \A j \in Short : k <= j
      BY Least
    <2>2. k # 0
      <3> SUFFICES ASSUME k = 0 PROVE FALSE
        OBVIOUS
      <3> DEFINE at == [i \in 0 .. k |-> l.prev[head]]
      <3>1. IsWalk(at, k)
        OBVIOUS
      <3> QED BY <3>1
    <2>3. PICK at : IsWalk(at, k - 1)
      BY <2>1, <2>2
    <2> DEFINE on == [i \in 0 .. k |-> IF i = k THEN l.prev[at[k - 1]] ELSE at[i]]
    <2>4. IsWalk(on, k)
      <3>1. /\ k \in Nat /\ k - 1 \in Nat
            /\ \A i \in 0 .. k - 1 :
                  at[i] = l.prev[IF i = 0 THEN head ELSE at[i - 1]]
        BY <2>1, <2>2, <2>3
      <3>2. \A i \in 0 .. k : on[i] = l.prev[IF i = 0 THEN head ELSE on[i - 1]]
        BY <2>2, <3>1
      <3> HIDE DEF on
      <3>3. on = [i \in 0 .. k |-> on[i]]
        BY DEF on
      <3> QED BY <3>2, <3>3
    <2> QED BY <2>4
  <1>2. \E at : IsWalk(at, m)
    BY <1>1
  <1>3. IsWalk(WalkTo(l, head, m), m)
    BY <1>2, Zenon DEF WalkTo
  <1> QED BY <1>3

(* Backwards is that traversal up to its first return to the head.         *)
LEMMA BackwardsWalks ==
    ASSUME NEW l, NEW head
    PROVE  Backwards(l, head) =
             LET at == WalkTo(l, head, MaxCells + 1)
                 Ends == {i \in 0 .. MaxCells + 1 : at[i] = head}
                 length == IF Ends = {} THEN MaxCells + 1
                           ELSE CHOOSE i \in Ends : \A j \in Ends : i <= j
             IN  [i \in 1 .. length |-> at[i - 1]]
  BY Zenon DEF Backwards, WalkTo

-----------------------------------------------------------------------------
(* The cells from `first' up to, but not including, `end', linked with the *)
(* head in the order of their allocation, the other way by next.           *)
Ring(l, head, first, end) ==
    /\ l.prev[head] = IF first < end THEN first ELSE head
    /\ l.next[head] = IF first < end THEN end - 1 ELSE head
    /\ \A p \in first .. end - 1 :
          /\ l.prev[p] = IF p + 1 < end THEN p + 1 ELSE head
          /\ l.next[p] = IF first < p THEN p - 1 ELSE head

(* The pointers of every cell point to a cell.                             *)
LinksType(l) == l \in [next : [Cells -> Cells], prev : [Cells -> Cells]]

(* A traversal of a ring meets its cells from the oldest to the newest,    *)
(* and each once.                                                          *)
LEMMA RingBackwards ==
    ASSUME NEW l, NEW head \in Heads, NEW first \in Nat, NEW end \in Nat,
           2 <= first, first <= end, end <= MaxCells + 2,
           Ring(l, head, first, end)
    PROVE  Backwards(l, head) = [i \in 1 .. end - first |-> first + i - 1]
  <1> DEFINE at == WalkTo(l, head, MaxCells + 1)
             length == end - first
             Amiss == {i \in 0 .. length : at[i] # IF i < length THEN first + i ELSE head}
             Ends == {i \in 0 .. MaxCells + 1 : at[i] = head}
  <1>1. MaxCells \in Nat /\ length \in Nat /\ length <= MaxCells
    BY ListAssumption
  <1>2. \A i \in 0 .. MaxCells + 1 : at[i] = l.prev[IF i = 0 THEN head ELSE at[i - 1]]
    <2>1. at = [i \in 0 .. MaxCells + 1 |-> l.prev[IF i = 0 THEN head ELSE at[i - 1]]]
      BY <1>1, WalkExists
    <2> HIDE DEF at
    <2> QED BY <2>1
  <1> HIDE DEF at
  <1>3. Amiss = {}
    <2> SUFFICES ASSUME Amiss # {} PROVE FALSE
      OBVIOUS
    <2>1. PICK i \in Amiss : \A j \in Amiss : i <= j
      <3>1. Amiss \in SUBSET Nat
        BY <1>1
      <3> QED BY <3>1, Least
    <2>2. CASE i = 0
      BY <1>1, <1>2, <2>1, <2>2 DEF Ring
    <2>3. CASE i > 0
      <3>1. i - 1 \in 0 .. length /\ i - 1 \notin Amiss /\ i \in 0 .. MaxCells + 1
        BY <1>1, <2>1, <2>3
      <3>2. at[i - 1] = first + (i - 1)
        BY <1>1, <2>1, <2>3, <3>1
      <3>3. at[i] = l.prev[first + (i - 1)]
        BY <1>2, <2>3, <3>1, <3>2
      <3>4. first + (i - 1) \in first .. end - 1
        BY <1>1, <2>1, <2>3
      <3>5. at[i] = IF first + i < end THEN first + i ELSE head
        BY <3>3, <3>4 DEF Ring
      <3> QED BY <1>1, <2>1, <3>5
    <2> QED BY <1>1, <2>1, <2>2, <2>3
  <1>4. \A i \in 0 .. length : at[i] = IF i < length THEN first + i ELSE head
    BY <1>3
  <1>5. /\ length \in Ends
        /\ \A i \in Ends : length <= i
    <2>1. \A i \in 0 .. length - 1 : at[i] # head
      BY <1>1, <1>4 DEF Heads, RTBL, IF_INFO
    <2> QED BY <1>1, <1>4, <2>1
  <1>6. (CHOOSE i \in Ends : \A j \in Ends : i <= j) = length
    <2> HIDE DEF length
    <2>1. \A i \in Ends : i \in Nat
      BY <1>1
    <2> HIDE DEF Ends
    <2>2. \A i \in Ends : (\A j \in Ends : i <= j) => i = length
      BY <1>1, <1>5, <2>1
    <2> QED BY <1>5, <2>2
  <1>7. Backwards(l, head) = [i \in 1 .. length |-> at[i - 1]]
    BY <1>5, <1>6, BackwardsWalks, Zenon DEF at
  <1>8. \A i \in 1 .. length : at[i - 1] = first + i - 1
    BY <1>1, <1>4
  <1> QED BY <1>7, <1>8

(* In a ring next undoes prev.                                             *)
LEMMA RingTurns ==
    ASSUME NEW l, NEW head, NEW first \in Nat, NEW end \in Nat, first <= end,
           Ring(l, head, first, end)
    PROVE  \A p : p = head \/ p \in first .. end - 1 => l.next[l.prev[p]] = p
  <1> SUFFICES ASSUME NEW p, p = head \/ p \in first .. end - 1
               PROVE  l.next[l.prev[p]] = p
    OBVIOUS
  <1>1. /\ l.prev[head] = IF first < end THEN first ELSE head
        /\ l.next[head] = IF first < end THEN end - 1 ELSE head
        /\ \A q \in first .. end - 1 :
              /\ l.prev[q] = IF q + 1 < end THEN q + 1 ELSE head
              /\ l.next[q] = IF first < q THEN q - 1 ELSE head
    BY DEF Ring
  <1>2. CASE p = head /\ first = end
    BY <1>1, <1>2
  <1>3. CASE p = head /\ first < end
    <2>1. first \in first .. end - 1
      BY <1>3
    <2> QED BY <1>1, <1>3, <2>1
  <1>4. CASE p \in first .. end - 1 /\ p + 1 < end
    <2>1. p + 1 \in first .. end - 1 /\ first < p + 1 /\ p + 1 - 1 = p
      BY <1>4
    <2> QED BY <1>1, <1>4, <2>1
  <1>5. CASE p \in first .. end - 1 /\ ~ (p + 1 < end)
    <2>1. p = end - 1 /\ first < end
      BY <1>5
    <2> QED BY <1>1, <1>5, <2>1
  <1> QED BY <1>2, <1>3, <1>4, <1>5

-----------------------------------------------------------------------------
(* list_add puts the newest cell at the end of its ring.                   *)
LEMMA AddToRing ==
    ASSUME NEW l, LinksType(l), NEW head \in Heads, NEW first \in Nat, NEW new \in Nat,
           2 <= first, first <= new, new <= MaxCells + 1,
           Ring(l, head, first, new)
    PROVE  /\ LinksType(list_add(l, new, head))
           /\ Ring(list_add(l, new, head), head, first, new + 1)
  <1> DEFINE after == l.next[head]
             g == list_add(l, new, head)
  <1>1. /\ MaxCells \in Nat /\ head \in Cells /\ head < 2 /\ new \in Cells
        /\ after = IF first < new THEN new - 1 ELSE head
        /\ after \in Cells
    BY ListAssumption DEF Heads, RTBL, IF_INFO, Cells, Ring
  <1>2. /\ g.next = [l.next EXCEPT ![new] = after, ![head] = new]
        /\ g.prev = [l.prev EXCEPT ![after] = new, ![new] = head]
        /\ l.next \in [Cells -> Cells] /\ l.prev \in [Cells -> Cells]
        /\ g = [next |-> g.next, prev |-> g.prev]
    BY DEF list_add, list_insert, LinksType
  <1> HIDE DEF g, after
  <1>3. LinksType(g)
    BY <1>1, <1>2 DEF LinksType
  <1>4. /\ g.prev[head] = first
        /\ g.next[head] = new
    BY <1>1, <1>2 DEF Ring
  <1>5. ASSUME NEW p \in first .. new
        PROVE  /\ g.prev[p] = IF p + 1 < new + 1 THEN p + 1 ELSE head
               /\ g.next[p] = IF first < p THEN p - 1 ELSE head
    <2>1. p \in Cells /\ p # head
      BY <1>1 DEF Cells
    <2>2. CASE p = new
      BY <1>1, <1>2, <2>1, <2>2
    <2>3. CASE p # new
      <3>1. p \in first .. new - 1 /\ first < new /\ after = new - 1
        BY <1>1, <2>3
      <3>2. /\ l.prev[p] = IF p + 1 < new THEN p + 1 ELSE head
            /\ l.next[p] = IF first < p THEN p - 1 ELSE head
        BY <3>1 DEF Ring
      <3>3. g.next[p] = l.next[p] /\ g.prev[p] = IF p = after THEN new ELSE l.prev[p]
        BY <1>1, <1>2, <2>1, <2>3
      <3>4. p \in Nat /\ (p = after => p + 1 = new) /\ (p # after => p + 1 < new)
        BY <3>1
      <3>5. g.prev[p] = p + 1
        BY <3>2, <3>3, <3>4
      <3>6. g.next[p] = IF first < p THEN p - 1 ELSE head
        BY <3>2, <3>3
      <3>7. p + 1 < new + 1
        BY <3>4
      <3> QED BY <3>5, <3>6, <3>7
    <2> QED BY <2>2, <2>3
  <1> QED BY <1>1, <1>3, <1>4, <1>5 DEF Ring, g

(* It leaves the other ring alone, whose cells are older.                  *)
LEMMA AddBesideRing ==
    ASSUME NEW l, LinksType(l), NEW head \in Heads, NEW other \in Heads, head # other,
           NEW first \in Nat, NEW new \in Nat, NEW start \in Nat, NEW end \in Nat,
           2 <= first, first <= new, new <= MaxCells + 1,
           2 <= start, end <= first,
           Ring(l, head, first, new), Ring(l, other, start, end)
    PROVE  Ring(list_add(l, new, head), other, start, end)
  <1> DEFINE after == l.next[head]
             g == list_add(l, new, head)
  <1>1. /\ MaxCells \in Nat /\ head \in Cells /\ new \in Cells
        /\ other \in Cells /\ other < 2 /\ head < 2
        /\ after = IF first < new THEN new - 1 ELSE head
        /\ after \in Cells
    <2>1. /\ MaxCells \in Nat /\ head \in Cells /\ new \in Cells
          /\ other \in Cells /\ other < 2 /\ head < 2
      BY ListAssumption DEF Heads, RTBL, IF_INFO, Cells
    <2>2. after = IF first < new THEN new - 1 ELSE head
      BY DEF Ring
    <2> HIDE DEF after
    <2> QED BY <2>1, <2>2 DEF Cells
  <1>2. /\ g.next = [l.next EXCEPT ![new] = after, ![head] = new]
        /\ g.prev = [l.prev EXCEPT ![after] = new, ![new] = head]
        /\ l.next \in [Cells -> Cells] /\ l.prev \in [Cells -> Cells]
    BY DEF list_add, list_insert, LinksType
  <1> HIDE DEF g, after
  <1>3. ASSUME NEW p \in Cells, p = other \/ p \in start .. end - 1
        PROVE  g.next[p] = l.next[p] /\ g.prev[p] = l.prev[p]
    BY <1>1, <1>2, <1>3
  <1>4. \A p \in start .. end - 1 : p \in Cells
    BY <1>1 DEF Cells
  <1> QED BY <1>1, <1>3, <1>4 DEF Ring, g

-----------------------------------------------------------------------------
(* A heap whose routing table is a ring of the cells from `first' on, with *)
(* one entry for a key.                                                    *)
Entry == [key : Nodes, route : Route]

Orderly(h, first) ==
    /\ h \in [links : {h.links}, mem : {h.mem}, brk : Nat, done : BOOLEAN]
    /\ LinksType(h.links)
    /\ h.mem = [p \in Cells |-> h.mem[p]]
    /\ first \in Nat /\ 2 <= first /\ first <= h.brk /\ h.brk <= MaxCells + 2
    /\ Ring(h.links, RTBL, first, h.brk)
    /\ \A p \in first .. h.brk - 1 : h.mem[p] \in Entry
    /\ \A p, q \in first .. h.brk - 1 : h.mem[p].key = h.mem[q].key => p = q

(* A key is met at the one cell that has it.                               *)
LEMMA MatchingOne ==
    ASSUME NEW h, NEW first, Orderly(h, first), NEW key
    PROVE  /\ Backwards(h.links, RTBL) = [i \in 1 .. h.brk - first |-> first + i - 1]
           /\ \A p \in first .. h.brk - 1 :
                 h.mem[p].key = key => Matching(h, key) = {p - first + 1}
           /\ (\A p \in first .. h.brk - 1 : h.mem[p].key # key) => Matching(h, key) = {}
  <1> DEFINE list == Backwards(h.links, RTBL)
  <1>1. /\ first \in Nat /\ h.brk \in Nat /\ first <= h.brk
        /\ list = [i \in 1 .. h.brk - first |-> first + i - 1]
    <2>1. /\ RTBL \in Heads /\ first \in Nat /\ h.brk \in Nat /\ 2 <= first
          /\ first <= h.brk /\ h.brk <= MaxCells + 2 /\ Ring(h.links, RTBL, first, h.brk)
      BY DEF Orderly, Heads
    <2> QED BY <2>1, RingBackwards
  <1> HIDE DEF list
  <1>2. Matching(h, key) = {i \in 1 .. h.brk - first : h.mem[first + i - 1].key = key}
    BY <1>1 DEF Matching, list
  <1>3. ASSUME NEW p \in first .. h.brk - 1, h.mem[p].key = key
        PROVE  Matching(h, key) = {p - first + 1}
    <2>1. p - first + 1 \in Matching(h, key)
      BY <1>1, <1>2, <1>3
    <2>2. ASSUME NEW i \in Matching(h, key) PROVE i = p - first + 1
      <3>1. first + i - 1 \in first .. h.brk - 1 /\ h.mem[first + i - 1].key = key
        BY <1>1, <1>2
      <3>2. first + i - 1 = p
        BY <1>3, <3>1 DEF Orderly
      <3> QED BY <1>1, <1>2, <3>2
    <2> QED BY <2>1, <2>2
  <1>4. ASSUME \A p \in first .. h.brk - 1 : h.mem[p].key # key
        PROVE  Matching(h, key) = {}
    <2>1. \A i \in 1 .. h.brk - first : first + i - 1 \in first .. h.brk - 1
      BY <1>1
    <2> QED BY <1>2, <1>4, <2>1
  <1> QED BY <1>1, <1>3, <1>4 DEF list

(* Which is where the table's entry for the key is.                        *)
LEMMA TableOfOne ==
    ASSUME NEW h, NEW first, Orderly(h, first)
    PROVE  /\ TableOf(h) \in Table
           /\ \A p \in first .. h.brk - 1 :
                 TableOf(h)[h.mem[p].key] = h.mem[p].route
           /\ \A key \in Addresses :
                 (\A p \in first .. h.brk - 1 : h.mem[p].key # key) =>
                    TableOf(h)[key] = NoRoute
  <1> DEFINE list == Backwards(h.links, RTBL)
             Of(key) == IF entry_in_list(h, key)
                        THEN h.mem[list[CHOOSE i \in Matching(h, key) :
                                          \A j \in Matching(h, key) : i <= j]].route
                        ELSE NoRoute
  <1>1. TableOf(h) = [key \in Addresses |-> Of(key)]
    BY DEF TableOf
  <1>2. ASSUME NEW key, NEW p \in first .. h.brk - 1, h.mem[p].key = key
        PROVE  Of(key) = h.mem[p].route /\ Of(key) \in Route /\ key \in Addresses
    <2>1. /\ Matching(h, key) = {p - first + 1}
          /\ list = [i \in 1 .. h.brk - first |-> first + i - 1]
      BY <1>2, MatchingOne
    <2>2. first \in Nat /\ h.brk \in Nat
      BY DEF Orderly
    <2>3. (CHOOSE i \in Matching(h, key) : \A j \in Matching(h, key) : i <= j)
            = p - first + 1
      BY <2>1, <2>2
    <2>4. list[p - first + 1] = p
      <3> HIDE DEF list
      <3> QED BY <2>1, <2>2
    <2>5. entry_in_list(h, key)
      BY <2>1 DEF entry_in_list
    <2>6. h.mem[p] \in Entry
      BY DEF Orderly
    <2>7. Of(key) = h.mem[p].route
      <3> HIDE DEF list
      <3> QED BY <2>3, <2>4, <2>5
    <2> HIDE DEF Of
    <2> QED BY <1>2, <2>6, <2>7 DEF Entry, Addresses
  <1>3. ASSUME NEW key, \A p \in first .. h.brk - 1 : h.mem[p].key # key
        PROVE  Of(key) = NoRoute
    BY <1>3, MatchingOne DEF entry_in_list
  <1> HIDE DEF Of
  <1>4. \A key \in Addresses : Of(key) \in Route \cup {NoRoute}
    BY <1>2, <1>3
  <1> QED BY <1>1, <1>2, <1>3, <1>4 DEF Table

(* Two tables are one if they agree on the keys in the cells, and beside.  *)
LEMMA TableOfAll ==
    ASSUME NEW h, NEW first, Orderly(h, first), NEW table \in Table,
           \A p \in first .. h.brk - 1 : table[h.mem[p].key] = h.mem[p].route,
           \A key \in Addresses :
              (\A p \in first .. h.brk - 1 : h.mem[p].key # key) => table[key] = NoRoute
    PROVE  TableOf(h) = table
  <1>1. ASSUME NEW key \in Addresses PROVE TableOf(h)[key] = table[key]
    <2>1. CASE \A p \in first .. h.brk - 1 : h.mem[p].key # key
      BY <2>1, TableOfOne
    <2>2. CASE \E p \in first .. h.brk - 1 : h.mem[p].key = key
      BY <2>2, TableOfOne
    <2> QED BY <2>1, <2>2
  <1> QED BY <1>1, TableOfOne DEF Table

-----------------------------------------------------------------------------
(* One update of the list, against the same update of the table.           *)
Updates(h, g, first, table) ==
    /\ Orderly(g, first)
    /\ TableOf(g) = table
    /\ h.brk <= g.brk
    /\ \A p \in Cells : p < first => g.mem[p] = h.mem[p]
    /\ Ring(h.links, IF_INFO, 2, first) => Ring(g.links, IF_INFO, 2, first)

(* A compare-and-update finds the entry, if there is one, and stops at it. *)
LEMMA CompareUpdates ==
    ASSUME NEW h, NEW first, Orderly(h, first),
           NEW key \in Nodes, NEW hop \in Int, NEW stale_hop \in Int,
           NEW via \in Nodes, NEW lan \in Lans, NEW now \in Nat,
           entry_in_list(h, key)
    PROVE  LET g == CompareInList(h, key, hop, stale_hop, via, lan, now)
           IN  /\ Updates(h, g, first, Learn(TableOf(h), key, hop, stale_hop, via, lan, now))
               /\ g.brk = h.brk /\ entry_in_list(g, key)
               /\ TableOf(h)[key] # NoRoute
  <1> DEFINE g == CompareInList(h, key, hop, stale_hop, via, lan, now)
             list == Backwards(h.links, RTBL)
  <1>1. /\ first \in Nat /\ h.brk \in Nat /\ 2 <= first /\ first <= h.brk
        /\ h.brk <= MaxCells + 2 /\ MaxCells \in Nat
        /\ \A p \in first .. h.brk - 1 : h.mem[p] \in Entry /\ p \in Cells
    <2>1. /\ first \in Nat /\ h.brk \in Nat /\ 2 <= first /\ first <= h.brk
          /\ h.brk <= MaxCells + 2 /\ MaxCells \in Nat
          /\ \A p \in first .. h.brk - 1 : h.mem[p] \in Entry
      BY ListAssumption DEF Orderly
    <2> QED BY <2>1 DEF Cells
  <1>2. PICK p \in first .. h.brk - 1 : h.mem[p].key = key
    BY MatchingOne DEF entry_in_list
  <1>3. /\ Matching(h, key) = {p - first + 1}
        /\ list = [i \in 1 .. h.brk - first |-> first + i - 1]
    BY <1>2, MatchingOne
  <1> DEFINE entry == [key |-> key,
                       route |-> CompareAndUpdate(h.mem[p].route, hop, stale_hop,
                                                  via, lan, now)]
             stale == Stale(h.mem[p].route, now)
  <1>4. list[p - first + 1] = p
    <2> HIDE DEF list
    <2> QED BY <1>1, <1>3
  <1>5. /\ g.links = h.links /\ g.brk = h.brk
        /\ g.mem = [q \in Cells |-> IF q = p THEN entry ELSE h.mem[q]]
        /\ g \in [links : {g.links}, mem : {g.mem}, brk : Nat, done : BOOLEAN]
    <2> DEFINE StaleAt == {i \in Matching(h, key) : Stale(h.mem[list[i]].route, now)}
               Reached == {i \in Matching(h, key) : \A j \in StaleAt : i <= j}
    <2>1. StaleAt = IF stale THEN {p - first + 1} ELSE {}
      <3> HIDE DEF list
      <3> QED BY <1>3, <1>4
    <2>2. Reached = {p - first + 1}
      <3>1. p - first + 1 \in Nat
        BY <1>1
      <3> HIDE DEF StaleAt
      <3> QED BY <1>3, <2>1, <3>1
    <2>3. \A q : (\E i \in Reached : list[i] = q) <=> q = p
      <3> HIDE DEF list, Reached
      <3> QED BY <1>4, <2>2
    <2>4. g = [h EXCEPT !.done = StaleAt # {},
                        !.mem = [q \in Cells |->
                            IF \E i \in Reached : list[i] = q
                            THEN [key |-> key,
                                  route |-> CompareAndUpdate(h.mem[q].route, hop,
                                                             stale_hop, via, lan, now)]
                            ELSE h.mem[q]]]
      BY DEF CompareInList
    <2>5. h \in [links : {h.links}, mem : {h.mem}, brk : Nat, done : BOOLEAN]
      BY DEF Orderly
    <2> HIDE DEF g, StaleAt, Reached, list
    <2>6. /\ g.links = h.links /\ g.brk = h.brk
          /\ g.mem = [q \in Cells |->
                            IF \E i \in Reached : list[i] = q
                            THEN [key |-> key,
                                  route |-> CompareAndUpdate(h.mem[q].route, hop,
                                                             stale_hop, via, lan, now)]
                            ELSE h.mem[q]]
          /\ g \in [links : {g.links}, mem : {g.mem}, brk : Nat, done : BOOLEAN]
      BY <2>4, <2>5
    <2> QED BY <2>3, <2>6
  <1> HIDE DEF g, list
  <1>6. entry \in Entry /\ entry.key = key
    <2>1. h.mem[p].route \in Route
      BY <1>1 DEF Entry
    <2>2. CompareAndUpdate(h.mem[p].route, hop, stale_hop, via, lan, now) \in Route
      BY <2>1 DEF CompareAndUpdate, Route
    <2> QED BY <2>2 DEF Entry
  <1> HIDE DEF entry
  <1>7. /\ g.mem[p] = entry
        /\ \A q \in Cells : q # p => g.mem[q] = h.mem[q]
        /\ \A q \in first .. h.brk - 1 : g.mem[q].key = h.mem[q].key
    BY <1>1, <1>2, <1>5, <1>6
  <1>8. Orderly(g, first)
    <2>1. \A q \in first .. g.brk - 1 : g.mem[q] \in Entry
      BY <1>1, <1>5, <1>6, <1>7
    <2> QED BY <1>5, <1>7, <2>1 DEF Orderly
  <1>9. TableOf(h)[key] = h.mem[p].route /\ h.mem[p].route # NoRoute
    BY <1>1, <1>2, TableOfOne, RouteAssumption DEF Entry
  <1>10. TableOf(g) = Learn(TableOf(h), key, hop, stale_hop, via, lan, now)
    <2> DEFINE table == Learn(TableOf(h), key, hop, stale_hop, via, lan, now)
    <2>1. /\ TableOf(h) \in Table /\ key \in Addresses
          /\ entry.route \in Route
          /\ table = [TableOf(h) EXCEPT ![key] = entry.route]
      BY <1>6, <1>9, TableOfOne DEF Learn, entry_exists_for_src, entry, Entry, Addresses
    <2> HIDE DEF table
    <2>2. table \in Table
      BY <2>1 DEF Table
    <2>3. ASSUME NEW q \in first .. g.brk - 1 PROVE table[g.mem[q].key] = g.mem[q].route
      <3>1. CASE q = p
        BY <1>6, <1>7, <2>1, <3>1 DEF Table
      <3>2. CASE q # p
        <4>1. h.mem[q].key \in Addresses /\ h.mem[q].key # key
          BY <1>1, <1>2, <1>5, <3>2 DEF Orderly, Entry, Addresses
        <4>2. g.mem[q] = h.mem[q] /\ TableOf(h)[h.mem[q].key] = h.mem[q].route
          BY <1>1, <1>5, <1>7, <3>2, TableOfOne
        <4> QED BY <2>1, <4>1, <4>2 DEF Table
      <3> QED BY <3>1, <3>2
    <2>4. ASSUME NEW other \in Addresses, \A q \in first .. g.brk - 1 : g.mem[q].key # other
          PROVE  table[other] = NoRoute
      <3>1. \A q \in first .. h.brk - 1 : h.mem[q].key # other
        BY <1>5, <1>7, <2>4
      <3>2. TableOf(h)[other] = NoRoute /\ other # key
        BY <1>2, <3>1, TableOfOne
      <3> QED BY <2>1, <3>2 DEF Table
    <2>5. TableOf(g) = table
      BY <1>8, <2>2, <2>3, <2>4, TableOfAll
    <2> QED BY <2>5 DEF table
  <1>11. entry_in_list(g, key)
    <2>1. p \in first .. g.brk - 1 /\ g.mem[p].key = key
      BY <1>2, <1>5, <1>6, <1>7
    <2>2. Matching(g, key) = {p - first + 1}
      BY <1>8, <2>1, MatchingOne
    <2> QED BY <2>2 DEF entry_in_list
  <1>12. h.brk <= g.brk /\ \A q \in Cells : q < first => g.mem[q] = h.mem[q]
    BY <1>1, <1>5, <1>7
  <1> QED BY <1>5, <1>8, <1>9, <1>10, <1>11, <1>12 DEF Updates, g

(* A new entry goes to the end of the ring.                                *)
LEMMA AddUpdates ==
    ASSUME NEW h, NEW first, Orderly(h, first), h.brk <= MaxCells + 1,
           NEW key \in Nodes, NEW hop \in Int, NEW stale_hop \in Int,
           NEW via \in Nodes, NEW lan \in Lans, NEW now \in Nat,
           ~ entry_in_list(h, key)
    PROVE  LET g == AddToList(h, key, hop, via, lan, now)
           IN  /\ Updates(h, g, first, Learn(TableOf(h), key, hop, stale_hop, via, lan, now))
               /\ g.brk = h.brk + 1 /\ entry_in_list(g, key)
               /\ TableOf(h)[key] = NoRoute
  <1> DEFINE g == AddToList(h, key, hop, via, lan, now)
             entry == [key |-> key, route |-> [via |-> via, lan |-> lan, hop |-> hop, ts |-> now]]
  <1>1. /\ first \in Nat /\ h.brk \in Nat /\ 2 <= first /\ first <= h.brk
        /\ h.brk <= MaxCells + 1 /\ MaxCells \in Nat /\ LinksType(h.links)
        /\ Ring(h.links, RTBL, first, h.brk)
        /\ \A p \in first .. h.brk - 1 : h.mem[p] \in Entry
    BY ListAssumption DEF Orderly
  <1>2. /\ h.brk \in Cells
        /\ \A p \in first .. h.brk - 1 : p \in Cells /\ p # h.brk
        /\ \A p \in Cells : p < first => p # h.brk
    BY <1>1 DEF Cells
  <1>3. h.mem = [p \in Cells |-> h.mem[p]]
    BY DEF Orderly
  <1>4. /\ g.links = list_add(h.links, h.brk, RTBL)
        /\ g.mem = [h.mem EXCEPT ![h.brk] = entry]
        /\ g.brk = h.brk + 1
        /\ g \in [links : {g.links}, mem : {g.mem}, brk : Nat, done : BOOLEAN]
    BY <1>1 DEF AddToList
  <1>5. entry \in Entry /\ entry.key = key
    BY DEF Entry, Route
  <1> HIDE DEF g, entry
  <1>6. /\ g.mem = [p \in Cells |-> g.mem[p]]
        /\ g.mem[h.brk] = entry
        /\ \A p \in Cells : p # h.brk => g.mem[p] = h.mem[p]
    BY <1>2, <1>3, <1>4
  <1>7. \A p \in first .. h.brk - 1 : h.mem[p].key # key
    <2> SUFFICES ASSUME NEW p \in first .. h.brk - 1, h.mem[p].key = key PROVE FALSE
      OBVIOUS
    <2>1. Matching(h, key) = {p - first + 1}
      BY MatchingOne
    <2> QED BY <2>1 DEF entry_in_list
  <1>8. TableOf(h)[key] = NoRoute
    BY <1>7, TableOfOne DEF Addresses
  <1>9. \A q \in first .. g.brk - 1 :
            (q = h.brk /\ g.mem[q] = entry)
            \/ (q \in first .. h.brk - 1 /\ g.mem[q] = h.mem[q])
    BY <1>1, <1>2, <1>4, <1>6
  <1>10. Orderly(g, first)
    <2>1. /\ LinksType(g.links) /\ Ring(g.links, RTBL, first, g.brk)
      BY <1>1, <1>4, AddToRing DEF Heads
    <2>2. \A q \in first .. g.brk - 1 : g.mem[q] \in Entry
      BY <1>1, <1>5, <1>9
    <2>3. \A p, q \in first .. g.brk - 1 : g.mem[p].key = g.mem[q].key => p = q
      <3> SUFFICES ASSUME NEW p \in first .. g.brk - 1, NEW q \in first .. g.brk - 1,
                          g.mem[p].key = g.mem[q].key
                   PROVE  p = q
        OBVIOUS
      <3>1. \A a, b \in first .. h.brk - 1 : h.mem[a].key = h.mem[b].key => a = b
        BY DEF Orderly
      <3> QED BY <1>5, <1>7, <1>9, <3>1
    <2> QED BY <1>1, <1>4, <1>6, <2>1, <2>2, <2>3 DEF Orderly
  <1>11. TableOf(g) = Learn(TableOf(h), key, hop, stale_hop, via, lan, now)
    <2> DEFINE table == Learn(TableOf(h), key, hop, stale_hop, via, lan, now)
    <2>1. /\ TableOf(h) \in Table /\ key \in Addresses
          /\ entry.route \in Route
          /\ table = [TableOf(h) EXCEPT ![key] = entry.route]
      BY <1>5, <1>8, TableOfOne DEF Learn, entry_exists_for_src, entry, Entry, Addresses
    <2> HIDE DEF table
    <2>2. table \in Table /\ table[key] = entry.route
          /\ \A other \in Addresses : other # key => table[other] = TableOf(h)[other]
      BY <2>1 DEF Table
    <2>3. ASSUME NEW q \in first .. g.brk - 1 PROVE table[g.mem[q].key] = g.mem[q].route
      <3>1. CASE q = h.brk /\ g.mem[q] = entry
        BY <1>5, <2>2, <3>1
      <3>2. CASE q \in first .. h.brk - 1 /\ g.mem[q] = h.mem[q]
        <4>1. h.mem[q].key \in Addresses /\ h.mem[q].key # key
          BY <1>1, <1>7, <3>2 DEF Entry, Addresses
        <4>2. TableOf(h)[h.mem[q].key] = h.mem[q].route
          BY <3>2, TableOfOne
        <4> QED BY <2>2, <3>2, <4>1, <4>2
      <3> QED BY <1>9, <3>1, <3>2
    <2>4. ASSUME NEW other \in Addresses, \A q \in first .. g.brk - 1 : g.mem[q].key # other
          PROVE  table[other] = NoRoute
      <3>1. h.brk \in first .. g.brk - 1 /\ \A q \in first .. h.brk - 1 : q \in first .. g.brk - 1
        BY <1>1, <1>4
      <3>2. other # key /\ \A q \in first .. h.brk - 1 : h.mem[q].key # other
        BY <1>2, <1>5, <1>6, <2>4, <3>1
      <3>3. TableOf(h)[other] = NoRoute
        BY <3>2, TableOfOne
      <3> QED BY <2>2, <3>2, <3>3
    <2>5. TableOf(g) = table
      BY <1>10, <2>2, <2>3, <2>4, TableOfAll
    <2> QED BY <2>5 DEF table
  <1>12. entry_in_list(g, key)
    <2>1. h.brk \in first .. g.brk - 1 /\ g.mem[h.brk].key = key
      BY <1>1, <1>4, <1>5, <1>6
    <2>2. Matching(g, key) = {h.brk - first + 1}
      BY <1>10, <2>1, MatchingOne
    <2> QED BY <2>2 DEF entry_in_list
  <1>13. Ring(h.links, IF_INFO, 2, first) => Ring(g.links, IF_INFO, 2, first)
    <2> SUFFICES ASSUME Ring(h.links, IF_INFO, 2, first) PROVE Ring(g.links, IF_INFO, 2, first)
      OBVIOUS
    <2>1. RTBL \in Heads /\ IF_INFO \in Heads /\ RTBL # IF_INFO /\ 2 \in Nat
      BY DEF Heads, RTBL, IF_INFO
    <2> QED BY <1>1, <1>4, <2>1, AddBesideRing
  <1>14. h.brk <= g.brk /\ \A q \in Cells : q < first => g.mem[q] = h.mem[q]
    BY <1>1, <1>2, <1>4, <1>6
  <1> QED BY <1>4, <1>8, <1>10, <1>11, <1>12, <1>13, <1>14 DEF Updates, g

(* So one of the update blocks does to the list what it does to the table. *)
LEMMA LearnUpdates ==
    ASSUME NEW h, NEW first, Orderly(h, first), h.brk <= MaxCells + 1,
           NEW key \in Nodes, NEW hop \in Int, NEW stale_hop \in Int,
           NEW via \in Nodes, NEW lan \in Lans, NEW now \in Nat
    PROVE  LET g == LearnInList(h, key, hop, stale_hop, via, lan, now)
           IN  /\ Updates(h, g, first, Learn(TableOf(h), key, hop, stale_hop, via, lan, now))
               /\ entry_in_list(g, key)
  BY CompareUpdates, AddUpdates DEF LearnInList

(* The same update once more changes nothing in the table.                 *)
LEMMA LearnTwice ==
    ASSUME NEW table \in Table, NEW key \in Nodes, NEW hop \in Int,
           NEW via \in Nodes, NEW lan \in Lans, NEW now \in Nat
    PROVE  LET once == Learn(table, key, hop, hop, via, lan, now)
           IN  Learn(once, key, hop, hop, via, lan, now) = once
  <1> DEFINE once == Learn(table, key, hop, hop, via, lan, now)
             new == [via |-> via, lan |-> lan, hop |-> hop, ts |-> now]
             entry == IF entry_exists_for_src(table, key)
                      THEN CompareAndUpdate(table[key], hop, hop, via, lan, now)
                      ELSE new
  <1>1. entry \in Route /\ CompareAndUpdate(entry, hop, hop, via, lan, now) = entry
    <2>1. CASE entry_exists_for_src(table, key)
      <3>1. table[key] \in Route
        BY <2>1 DEF entry_exists_for_src, Table, Addresses
      <3>2. CASE entry = table[key] /\ ~ Stale(table[key], now) /\ ~ (table[key].hop > hop)
        BY <2>1, <3>1, <3>2 DEF CompareAndUpdate
      <3>3. CASE entry = [via |-> via, lan |-> lan, ts |-> now, hop |-> hop]
        BY <3>3 DEF CompareAndUpdate, Route
      <3>4. CASE entry = [via |-> via, lan |-> lan, ts |-> now, hop |-> table[key].hop]
                 /\ ~ (table[key].hop > hop)
        BY <3>1, <3>4 DEF CompareAndUpdate, Route
      <3> QED BY <2>1, <3>2, <3>3, <3>4 DEF CompareAndUpdate
    <2>2. CASE ~ entry_exists_for_src(table, key)
      BY <2>2 DEF CompareAndUpdate, Route
    <2> QED BY <2>1, <2>2
  <1>2. once = [table EXCEPT ![key] = entry]
    BY DEF Learn
  <1> HIDE DEF entry, once
  <1>3. key \in Addresses /\ once \in Table /\ once[key] = entry
    BY <1>1, <1>2 DEF Table, Addresses
  <1>4. entry_exists_for_src(once, key)
    BY <1>1, <1>3, RouteAssumption DEF entry_exists_for_src
  <1>5. Learn(once, key, hop, hop, via, lan, now) = [once EXCEPT ![key] = entry]
    BY <1>1, <1>3, <1>4 DEF Learn
  <1> QED BY <1>3, <1>5 DEF Table, once

=============================================================================
