--------------------------- MODULE ListingsProofs ---------------------------
(***************************************************************************)
(* What Listings guarantees for tables of any size, any pages and any      *)
(* width of the offset: which rows a page holds, that totals cover pages,  *)
(* and that a reader who turns the pages skips nothing.                    *)
(***************************************************************************)
EXTENDS Listings, FiniteSetTheorems, WellFoundedInduction, TLAPS

-----------------------------------------------------------------------------
(* Sorting: a row's place is one more than the number of rows before it.   *)

Ahead(l, x, S) == {y \in S : Precedes(l, y, x)}

(* Rows come one before the other, and nothing comes before itself. *)
LEMMA Order ==
    ASSUME NEW l, NEW x \in Int, NEW y \in Int, NEW z \in Int
    PROVE  /\ x = y \/ Precedes(l, x, y) \/ Precedes(l, y, x)
           /\ ~Precedes(l, x, x)
           /\ Precedes(l, x, y) /\ Precedes(l, y, z) => Precedes(l, x, z)
BY DEF Precedes

(* The number of rows before a row: less than all, and more for later rows. *)
LEMMA Places ==
    ASSUME NEW l, NEW S \in SUBSET Int, IsFiniteSet(S), NEW x \in S
    PROVE  /\ Cardinality(Ahead(l, x, S)) \in 0..(Cardinality(S) - 1)
           /\ \A y \in S : Precedes(l, x, y) =>
                Cardinality(Ahead(l, x, S)) < Cardinality(Ahead(l, y, S))
<1>1. \A y \in S : Ahead(l, y, S) \subseteq S \ {y}
  BY Order DEF Ahead
<1>2. \A T \in SUBSET S : /\ IsFiniteSet(T) /\ Cardinality(T) \in Nat
                          /\ Cardinality(T) <= Cardinality(S)
  BY FS_Subset, FS_CardinalityType
<1>3. Cardinality(S \ {x}) = Cardinality(S) - 1
  BY FS_RemoveElement
<1>4. \A T \in SUBSET (S \ {x}) : Cardinality(T) <= Cardinality(S) - 1
  <2>1. IsFiniteSet(S \ {x})
    BY FS_RemoveElement
  <2> QED
    BY <1>3, <2>1, FS_Subset
<1>5. ASSUME NEW y \in S, Precedes(l, x, y)
      PROVE  Cardinality(Ahead(l, x, S)) < Cardinality(Ahead(l, y, S))
  <2> DEFINE A == Ahead(l, x, S)
             B == Ahead(l, y, S)
  <2>1. x \notin A /\ A \cup {x} \subseteq B
    BY <1>5, Order DEF Ahead
  <2>2. B \in SUBSET S /\ A \in SUBSET S
    BY DEF Ahead
  <2> HIDE DEF A, B
  <2>3. Cardinality(A \cup {x}) = Cardinality(A) + 1
    BY <1>2, <2>1, <2>2, FS_AddElement
  <2>4. Cardinality(A \cup {x}) <= Cardinality(B)
    BY <1>2, <2>1, <2>2, FS_Subset
  <2>5. Cardinality(A) \in Nat /\ Cardinality(B) \in Nat
    BY <1>2, <2>2
  <2>6. Cardinality(A) < Cardinality(B)
    BY <2>3, <2>4, <2>5
  <2> QED
    BY <2>6 DEF A, B
<1>6. Cardinality(Ahead(l, x, S)) <= Cardinality(S) - 1
  BY <1>1, <1>4
<1>7. Cardinality(Ahead(l, x, S)) \in Nat /\ Cardinality(S) \in Nat
  BY <1>1, <1>2
<1> QED
  BY <1>5, <1>6, <1>7

InOrder(l, s) == \A i, j \in DOMAIN s : i < j => Precedes(l, s[i], s[j])

(* A finite set of ids can be sorted: every row at the place that the number
   of rows before it says. *)
LEMMA Sortable ==
    ASSUME NEW l, NEW S \in SUBSET Int, IsFiniteSet(S)
    PROVE  \E s \in SetToSeqs(S) : InOrder(l, s)
<1> DEFINE n == Cardinality(S)
           place == [x \in S |-> Cardinality(Ahead(l, x, S)) + 1]
<1>1. n \in Nat /\ IsFiniteSet(1..n) /\ Cardinality(1..n) = n
  BY FS_CardinalityType, FS_Interval
<1>2. \A x \in S : place[x] \in 1..n
  BY <1>1, Places
<1>3. \A x, y \in S : Precedes(l, x, y) => place[x] < place[y]
  BY Places
<1> HIDE DEF place
<1>4. \A x, y \in S : place[x] = place[y] => x = y
  <2>1. \A x \in S : place[x] \in Int
    BY <1>2
  <2> QED
    BY <1>3, <2>1, Order
<1>5. place \in Injection(S, 1..n)
  BY <1>2, <1>4 DEF Injection, IsInjective, place
<1>6. place \in Surjection(S, 1..n)
  BY <1>1, <1>5, FS_Injection
<1>7. \A i \in 1..n : \E x \in S : place[x] = i
  BY <1>6 DEF Surjection
<1> DEFINE s == [i \in 1..n |-> CHOOSE x \in S : place[x] = i]
<1>8. \A i \in 1..n : s[i] \in S /\ place[s[i]] = i
  BY <1>7
<1>9. s \in [1..n -> S] /\ DOMAIN s = 1..n
  BY <1>8
<1> HIDE DEF s, n
<1>10. s \in SetToSeqs(S)
  BY <1>8, <1>9 DEF SetToSeqs, n
<1>11. InOrder(l, s)
  <2> SUFFICES ASSUME NEW i \in 1..n, NEW j \in 1..n, i < j
               PROVE  Precedes(l, s[i], s[j])
    BY <1>9 DEF InOrder
  <2>1. s[i] \in S /\ s[j] \in S /\ place[s[i]] = i /\ place[s[j]] = j
    BY <1>8
  <2>2. i \in Int /\ j \in Int
    BY <1>1 DEF n
  <2>3. ~(place[s[j]] < place[s[i]]) /\ place[s[i]] # place[s[j]]
    BY <2>1, <2>2
  <2>4. s[i] # s[j] /\ ~Precedes(l, s[j], s[i])
    BY <1>3, <2>1, <2>3
  <2>5. s[i] \in Int /\ s[j] \in Int
    BY <2>1
  <2> QED
    BY <2>4, <2>5, Order
<1> QED
  BY <1>10, <1>11

(* ORDER BY lists every row once, at its place. *)
LEMMA SortedRows ==
    ASSUME NEW l, NEW S \in SUBSET Int, IsFiniteSet(S)
    PROVE  /\ Cardinality(S) \in Nat
           /\ Sorted(l, S) \in [1..Cardinality(S) -> S]
           /\ \A i \in 1..Cardinality(S) :
                 Cardinality(Ahead(l, Sorted(l, S)[i], S)) = i - 1
           /\ \A x \in S : \E i \in 1..Cardinality(S) : Sorted(l, S)[i] = x
<1> DEFINE n == Cardinality(S)
           s == Sorted(l, S)
<1>1. n \in Nat /\ IsFiniteSet(1..n) /\ Cardinality(1..n) = n
  BY FS_CardinalityType, FS_Interval
<1>2. s \in SetToSeqs(S) /\ InOrder(l, s)
  <2>1. s = CHOOSE t \in SetToSeqs(S) : InOrder(l, t)
    BY DEF Sorted, InOrder
  <2> HIDE DEF s
  <2> QED
    BY <2>1, Sortable
<1> HIDE DEF s
<1>3. s \in [1..n -> S] /\ \A i, j \in 1..n : i # j => s[i] # s[j]
  BY <1>2 DEF SetToSeqs
<1>4. \A i, j \in 1..n : i < j => Precedes(l, s[i], s[j])
  BY <1>2, <1>3 DEF InOrder
<1> HIDE DEF n
<1>5. s \in Injection(1..n, S)
  BY <1>3 DEF Injection, IsInjective
<1>6. s \in Surjection(1..n, S)
  BY <1>1, <1>5, FS_Injection DEF n
<1>7. \A x \in S : \E i \in 1..n : s[i] = x
  BY <1>6 DEF Surjection
<1>8. ASSUME NEW i \in 1..n PROVE Cardinality(Ahead(l, s[i], S)) = i - 1
  <2> DEFINE D == 1..(i - 1)
             A == Ahead(l, s[i], S)
             h == [j \in D |-> s[j]]
  <2>0. i \in Nat /\ i >= 1 /\ D \subseteq 1..n /\ \A j \in D : j < i
    BY <1>1
  <2>1. \A j \in D : s[j] \in A
    BY <1>3, <1>4, <2>0 DEF Ahead
  <2>2. \A y \in A : \E j \in D : s[j] = y
    <3> SUFFICES ASSUME NEW y \in A PROVE \E j \in D : s[j] = y
      OBVIOUS
    <3>1. y \in S /\ Precedes(l, y, s[i])
      BY DEF Ahead
    <3>2. PICK j \in 1..n : s[j] = y
      BY <1>7, <3>1
    <3>3. s[i] \in Int /\ y \in Int
      BY <1>3, <3>1
    <3>4. j # i /\ ~(i < j)
      BY <1>4, <3>1, <3>2, <3>3, Order
    <3>5. j \in D
      BY <1>1, <3>4
    <3> QED
      BY <3>2, <3>5
  <2> HIDE DEF A
  <2>3. h \in Surjection(D, A)
    BY <2>1, <2>2 DEF Surjection
  <2>4. h \in Injection(D, A)
    BY <1>3, <2>0, <2>1 DEF Injection, IsInjective
  <2>5. IsFiniteSet(D) /\ Cardinality(D) = i - 1
    BY <2>0, FS_Interval
  <2> HIDE DEF D, h
  <2>6. Cardinality(A) = Cardinality(D)
    BY <2>3, <2>4, <2>5, FS_Surjection
  <2> QED
    BY <2>5, <2>6 DEF A
<1> QED
  BY <1>1, <1>3, <1>7, <1>8 DEF n, s

-----------------------------------------------------------------------------
(* Pages. *)

(* An offset that fits is exact; one between the largest int32 and the end of
   its range is negative. *)
LEMMA Overflow ==
    ASSUME NEW n \in Nat
    PROVE  /\ Int32(n) \in Int
           /\ n <= MaxInt32 => Int32(n) = n
           /\ n > MaxInt32 /\ n < Int32Range => Int32(n) < 0
<1> DEFINE H == MaxInt32 + 1
<1>1. H \in Nat \ {0} /\ Int32Range = 2 * H
  BY BoundsAssumption DEF Int32Range
<1>2. Int32(n) = ((n + H) % (2 * H)) - H
  BY <1>1, BoundsAssumption DEF Int32, Int32Range
<1>3. (n <= MaxInt32 <=> n < H) /\ (n > MaxInt32 <=> H <= n)
  BY BoundsAssumption
<1> HIDE DEF H
<1>4. n < H => ((n + H) % (2 * H)) - H = n
  BY <1>1
<1>5. H <= n /\ n < 2 * H => ((n + H) % (2 * H)) - H < 0
  BY <1>1
<1>6. ((n + H) % (2 * H)) - H \in Int
  BY <1>1
<1> QED
  BY <1>1, <1>2, <1>3, <1>4, <1>5, <1>6

(* The two numbers that LIMIT and OFFSET compare. *)
LEMMA Smaller ==
    ASSUME NEW a \in Int, NEW b \in Int
    PROVE  Min({a, b}) = IF a <= b THEN a ELSE b
<1> DEFINE m == IF a <= b THEN a ELSE b
<1>1. m \in {a, b} /\ \A y \in {a, b} : m <= y
  OBVIOUS
<1>2. \A x \in {a, b} : (\A y \in {a, b} : x <= y) => x = m
  OBVIOUS
<1> HIDE DEF m
<1>3. Min({a, b}) = CHOOSE x \in {a, b} : \A y \in {a, b} : x <= y
  BY DEF Min
<1>4. Min({a, b}) \in {a, b} /\ \A y \in {a, b} : Min({a, b}) <= y
  BY <1>1, <1>3
<1>5. Min({a, b}) = m
  BY <1>2, <1>4
<1> QED
  BY <1>5 DEF m

(* p is what LIMIT and OFFSET leave of the n rows s. *)
Cut(p, s, n, offset, limit) ==
    /\ Len(p) <= limit
    /\ p # <<>> => offset + Len(p) <= n
    /\ \A j \in 1..n : offset < j /\ j <= offset + limit => s[j] \in Range(p)
    /\ \A x \in Range(p) :
          \E j \in 1..n : offset < j /\ j <= offset + limit /\ s[j] = x

(* LIMIT and OFFSET cut a piece out of the rows. *)
LEMMA SliceRows ==
    ASSUME NEW S, NEW n \in Nat, NEW s \in [1..n -> S],
           NEW offset \in Nat, NEW limit \in Nat,
           NEW p, p = Slice(s, offset, limit)
    PROVE  p \in Seq(S) /\ Cut(p, s, n, offset, limit)
<1>1. s \in Seq(S) /\ Len(s) = n
  OBVIOUS
<1> DEFINE m == IF offset + limit <= n THEN offset + limit ELSE n
<1>2. m \in Nat /\ m <= n /\ m <= offset + limit
  OBVIOUS
<1>3. p = SubSeq(s, offset + 1, m)
  BY <1>1, Smaller DEF Slice
<1>4. /\ p \in Seq(S)
      /\ Len(p) = IF offset + 1 <= m THEN m - offset ELSE 0
      /\ \A i \in 1..Len(p) : p[i] = s[offset + i]
  BY <1>1, <1>2, <1>3
<1>5. m = offset + limit \/ m = n
  OBVIOUS
<1> HIDE DEF m
<1>6. Len(p) <= limit /\ (p # <<>> => offset + Len(p) <= n)
  BY <1>2, <1>4
<1>7. Range(p) = {p[i] : i \in 1..Len(p)}
  BY <1>4 DEF Range
<1>8. ASSUME NEW j \in 1..n, offset < j, j <= offset + limit
      PROVE  s[j] \in Range(p)
  <2>1. j - offset \in 1..Len(p) /\ offset + (j - offset) = j
    BY <1>2, <1>4, <1>5, <1>8
  <2>2. p[j - offset] = s[j]
    BY <1>4, <2>1
  <2> QED
    BY <1>7, <2>1, <2>2
<1>9. ASSUME NEW i \in 1..Len(p)
      PROVE  \E j \in 1..n : /\ offset < j /\ j <= offset + limit
                             /\ s[j] = p[i]
  <2>1. /\ offset + i \in 1..n /\ offset < offset + i
        /\ offset + i <= offset + limit
    BY <1>2, <1>4
  <2> QED
    BY <1>4, <2>1
<1>10. \A x \in Range(p) :
         \E j \in 1..n : offset < j /\ j <= offset + limit /\ s[j] = x
  <2> SUFFICES ASSUME NEW x \in Range(p)
               PROVE  \E j \in 1..n : /\ offset < j /\ j <= offset + limit
                                      /\ s[j] = x
    OBVIOUS
  <2>1. PICK i \in 1..Len(p) : p[i] = x
    BY <1>7, Zenon
  <2> QED
    BY <1>9, <2>1, Zenon
<1>11. \A j \in 1..n : offset < j /\ j <= offset + limit => s[j] \in Range(p)
  BY <1>8, Zenon
<1>12. p \in Seq(S)
  BY <1>4
<1> QED
  BY <1>6, <1>10, <1>11, <1>12, Zenon DEF Cut

(* page is the piece of the rows S, in the order of listing l, that offset
   and limit describe: the rows whose place is on it. *)
IsPage(page, l, S, offset, limit) ==
    /\ page \in Seq(S)
    /\ Len(page) <= limit
    /\ page # <<>> => offset + Len(page) <= Cardinality(S)
    /\ Range(page) = {x \in S : Cardinality(Ahead(l, x, S)) \in
                                   offset .. offset + limit - 1}

(* A page is the rows whose place is on it. *)
LEMMA PageRows ==
    ASSUME NEW l, NEW S \in SUBSET Int, IsFiniteSet(S),
           NEW offset \in Nat, NEW limit \in Nat,
           NEW page, page = Slice(Sorted(l, S), offset, limit)
    PROVE  IsPage(page, l, S, offset, limit)
<1> DEFINE n == Cardinality(S)
<1>1. PICK s : s = Sorted(l, S)
  OBVIOUS
<1>2. /\ n \in Nat /\ s \in [1..n -> S]
      /\ \A i \in 1..n : Cardinality(Ahead(l, s[i], S)) = i - 1
      /\ \A x \in S : \E i \in 1..n : s[i] = x
  BY <1>1, SortedRows
<1> HIDE DEF n
<1>3. page \in Seq(S) /\ Cut(page, s, n, offset, limit)
  <2>1. page = Slice(s, offset, limit)
    BY <1>1
  <2> QED
    BY <1>2, <2>1, SliceRows, Zenon
<1>4. ASSUME NEW x \in S
      PROVE  x \in Range(page) <=>
               Cardinality(Ahead(l, x, S)) \in offset .. offset + limit - 1
  <2>1. PICK i \in 1..n : s[i] = x
    BY <1>2
  <2>2. Cardinality(Ahead(l, x, S)) = i - 1
    BY <1>2, <2>1
  <2>3. \A j \in 1..n : s[j] = x => j - 1 = i - 1
    BY <1>2, <2>2
  <2>4. \A j \in 1..n : s[j] = x => j = i
    BY <1>2, <2>3
  <2>5. x \in Range(page) <=> offset < i /\ i <= offset + limit
    BY <1>3, <2>1, <2>4 DEF Cut
  <2> QED
    BY <1>2, <2>2, <2>5
<1>5. Range(page) \subseteq S
  BY <1>2, <1>3 DEF Cut
<1>6. Range(page) = {x \in S : Cardinality(Ahead(l, x, S)) \in
                                 offset .. offset + limit - 1}
  BY <1>4, <1>5, Zenon
<1> QED
  BY <1>3, <1>6 DEF n, Cut, IsPage

-----------------------------------------------------------------------------
(***************************************************************************)
(* The inductive invariant.  TotalCoversPage and NothingSkipped speak of   *)
(* answers; the invariant says the same of a request in progress, of what  *)
(* is in the table at each moment.  Its core is Walked: a row that was     *)
(* there all the time and comes, by its place, before the end of the pages *)
(* read has been seen.  Places only grow, for rows are added anywhere but  *)
(* removed at the end of the journal only.                                 *)
(***************************************************************************)

Paged == {"users", "admins", "wallets", "entries", "logs"}

Request(shown) ==
    [pc : {"idle", "count", "roles", "users", "sum", "logs"},
     status : {0, 200, 400, 404, 500}, num : Int, size : Int, inc : BOOLEAN,
     id : Int, rows : Seq(Ids), total : Nat, roles : shown, stats : Seq(Int),
     perms : SUBSET Stats]

Types ==
    /\ TypeOK
    /\ req \in Request({req.roles})
    /\ balance \in [Ids -> Nat] /\ today \in Nat /\ walk \in Nat
    /\ list \in {"entries", "logs"} => gone = {}

(* Which request can be under way. *)
Asked ==
    /\ req.pc \in {"count", "roles"} =>
          list \in Paged /\ ValidPage(req.num, req.size)
    /\ req.pc = "roles" => list = "admins"
    /\ req.pc \in {"users", "sum", "logs"} => list = "dashboard"
    /\ req.pc # "idle" => req.status = 0
    /\ walk # 0 => list \in Paged

(* The rows of stay on the pages up to the last one asked for are in S. *)
SeenUpTo(S) ==
    \A x \in stay :
        Cardinality(Before(x, present)) < req.num * req.size => x \in S

(* All of them, when these pages make up the total. *)
SeenAll(S) == req.num * req.size >= req.total => stay \subseteq S

Walked ==
    /\ req.pc = "idle" /\ walk # 0 =>
          /\ walk = req.num /\ ValidPage(req.num, req.size)
          /\ (req.num - 1) * req.size <= MaxInt32
          /\ Steady => SeenUpTo(seen) /\ SeenAll(seen)
    /\ req.pc \in {"count", "roles"} /\ walk = req.num - 1 =>
          /\ (req.num - 1) * req.size <= MaxInt32
          /\ Steady => SeenUpTo(seen \cup Range(req.rows))
          /\ Steady /\ req.pc = "roles" => SeenAll(seen \cup Range(req.rows))

(* A page never goes beyond the rows that are there when its total is read. *)
Counted ==
    Steady /\ list # "logs" /\ req.rows # <<>> =>
        Offset(req.num, req.size) + Len(req.rows) <=
            IF req.pc = "count" THEN Cardinality(present) ELSE req.total

(* The dashboard has a number for each permission it has come to. *)
Tallied ==
    /\ req.pc = "users" => req.stats = <<>>
    /\ req.pc = "sum" =>
          Len(req.stats) = Cardinality(req.perms \cap {"user:read"})
    /\ req.pc = "logs" =>
          Len(req.stats) = Cardinality(req.perms \cap {"user:read", "wallet:read"})

IInv == Types /\ Asked /\ Walked /\ Counted /\ Tallied

(* The sets of rows are finite. *)
LEMMA Finite ==
    ASSUME Types
    PROVE  /\ present \in SUBSET Int
           /\ \A S \in SUBSET present :
                /\ IsFiniteSet(S) /\ Cardinality(S) \in Nat
                /\ S \in SUBSET Int
                /\ Cardinality(S) <= Cardinality(present)
           /\ \A x : Before(x, present) \in SUBSET present
<1>1. present \subseteq Ids
  BY DEF Types, TypeOK
<1>2. IsFiniteSet(present)
  <2>1. IsFiniteSet(Ids)
    BY BoundsAssumption, FS_Interval DEF Ids
  <2> QED
    BY <1>1, <2>1, FS_Subset
<1>3. Ids \subseteq Int
  BY BoundsAssumption DEF Ids
<1>4. \A S \in SUBSET present :
        /\ IsFiniteSet(S) /\ Cardinality(S) \in Nat
        /\ Cardinality(S) <= Cardinality(present)
  BY <1>2, FS_Subset, FS_CardinalityType
<1> QED
  BY <1>1, <1>3, <1>4 DEF Before

Counts ==
    /\ Cardinality(present) \in Nat
    /\ \A x : Cardinality(Before(x, present)) \in Nat

(* They have a number of rows, in all and before each place. *)
LEMMA Countable == Types => Counts
BY Finite DEF Counts

(* And so they have after a step. *)
LEMMA CountableNext == Types' => Counts'
BY Countable, PTL

(* Listings are in the order in which Before counts. *)
LEMMA BeforeAhead ==
    ASSUME NEW x, NEW S
    PROVE  Ahead(list, x, S) = Before(x, S)
BY DEF Ahead, Before, Precedes, Ascending

(* A row's place is within the number of rows. *)
LEMMA PlaceBelow ==
    ASSUME Types, NEW x \in present
    PROVE  Cardinality(Before(x, present)) < Cardinality(present)
<1>1. IsFiniteSet(present) /\ Cardinality(present) \in Nat
      /\ present \in SUBSET Int
  BY Finite
<1>2. Cardinality(Ahead(list, x, present)) \in 0..(Cardinality(present) - 1)
  BY <1>1, Places
<1> QED
  BY <1>1, <1>2, BeforeAhead

(* A step keeps the page of the request, and a request under way its status. *)
SameRequest ==
    /\ req'.pc = req.pc /\ req'.num = req.num /\ req'.size = req.size
    /\ req'.inc = req.inc /\ req'.rows = req.rows /\ req'.total = req.total
    /\ req'.stats = req.stats /\ req'.perms = req.perms
    /\ req.pc # "idle" => req'.status = req.status

(* What others may do to a reader: rows of stay that are still there do not
   move towards the first page, and no row of a steady listing goes. *)
LEMMA QuietStep ==
    ASSUME IInv, Types', UNCHANGED <<list, walk, seen>>, SameRequest,
           stay' \subseteq stay,
           Steady => \A x \in stay' :
             Cardinality(Before(x, present)) <= Cardinality(Before(x, present)'),
           Steady /\ list # "logs" => Cardinality(present) <= Cardinality(present')
    PROVE  IInv'
<1> USE DEF IInv, SameRequest
<1>1. Asked' /\ Tallied'
  BY DEF Asked, Tallied, ValidPage
<1>2. Steady' <=> Steady
  BY DEF Steady
<1>3. ASSUME NEW S, Steady, SeenUpTo(S) PROVE SeenUpTo(S)'
  <2> SUFFICES ASSUME NEW x \in stay',
                      Cardinality(Before(x, present)') < req.num * req.size
               PROVE  x \in S
    BY DEF SeenUpTo
  <2>1. /\ Cardinality(Before(x, present)) \in Nat
        /\ Cardinality(Before(x, present)') \in Nat
    BY Countable, CountableNext DEF Counts
  <2>2. req.num * req.size \in Int
    BY DEF Types, Request
  <2>3. Cardinality(Before(x, present)) <= Cardinality(Before(x, present)')
    BY <1>3
  <2>4. Cardinality(Before(x, present)) < req.num * req.size
    BY <2>1, <2>2, <2>3
  <2> QED
    BY <1>3, <2>4 DEF SeenUpTo
<1>4. ASSUME NEW S, SeenAll(S) PROVE SeenAll(S)'
  BY <1>4 DEF SeenAll
<1>5. Walked'
  <2>1. CASE req.pc = "idle" /\ walk # 0
    <3>1. Steady => SeenUpTo(seen)' /\ SeenAll(seen)'
      BY <1>3, <1>4, <2>1 DEF Walked
    <3> QED
      BY <1>2, <2>1, <3>1 DEF Walked, ValidPage, SeenUpTo, SeenAll
  <2>2. CASE req.pc \in {"count", "roles"} /\ walk = req.num - 1
    <3> DEFINE S == seen \cup Range(req.rows)
    <3>1. /\ Steady => SeenUpTo(S)
          /\ Steady /\ req.pc = "roles" => SeenAll(S)
      BY <2>2 DEF Walked
    <3>2. S' = S
      OBVIOUS
    <3> HIDE DEF S
    <3>3. /\ Steady => SeenUpTo(S)'
          /\ Steady /\ req.pc = "roles" => SeenAll(S)'
      <4>1. PICK T : T = S
        OBVIOUS
      <4>2. /\ Steady => SeenUpTo(T)'
            /\ Steady /\ req.pc = "roles" => SeenAll(T)'
        BY <1>3, <1>4, <3>1, <4>1
      <4> QED
        BY <3>2, <4>1, <4>2 DEF SeenUpTo, SeenAll
    <3> QED
      BY <1>2, <2>2, <3>3 DEF Walked, S
  <2>3. CASE /\ ~(req.pc = "idle" /\ walk # 0)
             /\ ~(req.pc \in {"count", "roles"} /\ walk = req.num - 1)
    BY <2>3 DEF Walked
  <2> QED
    BY <2>1, <2>2, <2>3
<1>6. Counted'
  <2> SUFFICES ASSUME Steady, list # "logs", req.rows # <<>>
               PROVE  Offset(req.num, req.size) + Len(req.rows) <=
                        IF req.pc = "count" THEN Cardinality(present')
                        ELSE req.total
    BY <1>2 DEF Counted, Offset, Int32
  <2>1. Offset(req.num, req.size) + Len(req.rows) <=
          IF req.pc = "count" THEN Cardinality(present) ELSE req.total
    BY DEF Counted
  <2>2. Cardinality(present) \in Nat /\ Cardinality(present') \in Nat
    BY Countable, CountableNext DEF Counts
  <2>3. Offset(req.num, req.size) + Len(req.rows) \in Int
    <3>1. req.num \in Int /\ req.size \in Int /\ Len(req.rows) \in Int
      BY DEF Types, Request
    <3>2. (req.num - 1) * req.size \in Int
      BY <3>1
    <3>3. Offset(req.num, req.size) \in Int
      BY <3>2, BoundsAssumption DEF Offset, Int32, Int32Range
    <3> QED
      BY <3>1, <3>3
  <2> QED
    BY <2>1, <2>2, <2>3
<1> QED
  BY <1>1, <1>5, <1>6

(* Places do not shrink when rows are added. *)
LEMMA PlacesGrow ==
    ASSUME Types, Types', list' = list, present \subseteq present'
    PROVE  /\ Cardinality(present) <= Cardinality(present')
           /\ \A x : Cardinality(Before(x, present)) <=
                     Cardinality(Before(x, present)')
<1>1. Types => \A S \in SUBSET present : IsFiniteSet(S)
  BY Finite
<1>2. IsFiniteSet(present')
  <2>1. present' \subseteq Ids
    BY DEF Types, TypeOK
  <2>2. IsFiniteSet(Ids)
    BY BoundsAssumption, FS_Interval DEF Ids
  <2> QED
    BY <2>1, <2>2, FS_Subset
<1>3. ASSUME NEW x
      PROVE  Cardinality(Before(x, present)) <= Cardinality(Before(x, present)')
  <2> DEFINE A == Before(x, present)
             B == Before(x, present)'
  <2>1. A \subseteq B /\ B \subseteq present'
    BY DEF Before
  <2> HIDE DEF A, B
  <2>2. IsFiniteSet(B)
    BY <1>2, <2>1, FS_Subset
  <2>3. Cardinality(A) <= Cardinality(B)
    BY <2>1, <2>2, FS_Subset
  <2> QED
    BY <2>3 DEF A, B
<1> QED
  BY <1>2, <1>3, FS_Subset

(* Every writer keeps the invariant. *)
LEMMA WriteStep ==
    ASSUME IInv, Write
    PROVE  IInv'
<1> USE DEF reader, SameRequest
<1>t. /\ Types /\ TypeOK
      /\ present \subseteq used /\ used \subseteq Ids /\ gone \subseteq present
      /\ stay \subseteq present /\ seen \subseteq used
      /\ Cardinality(present) \in Nat
      /\ \A x : Cardinality(Before(x, present)) \in Nat
  BY Countable DEF IInv, Types, TypeOK, Counts
<1>1. ASSUME Types', UNCHANGED <<list, reader>>, present \subseteq present'
      PROVE  IInv'
  <2>1. /\ Cardinality(present) <= Cardinality(present')
        /\ \A x : Cardinality(Before(x, present)) <=
                  Cardinality(Before(x, present)')
    BY <1>1, <1>t, PlacesGrow
  <2> QED
    BY <1>1, <2>1, QuietStep
<1>2. CASE Midnight
  BY <1>1, <1>2, <1>t DEF Midnight, Types, TypeOK
<1>3. ASSUME NEW x \in Ids, Insert(x) PROVE IInv'
  <2>1. Types'
    <3>1. today' \in Nat
      <4>1. today \in Nat /\ today' = IF list = "dashboard" THEN today + 1 ELSE today
        BY <1>3, <1>t DEF Insert, Types
      <4> QED
        BY <4>1
    <3>2. present' \subseteq used' /\ used' \subseteq Ids /\ gone \subseteq present'
      BY <1>3, <1>t DEF Insert
    <3>3. stay \subseteq present' /\ seen \subseteq used' /\ Range(req.rows) \subseteq used'
      BY <1>3, <1>t DEF Insert, Types, TypeOK
    <3>4. UNCHANGED <<list, gone, roles, balance, req, walk, seen, stay>>
      BY <1>3 DEF Insert
    <3>5. TypeOK'
      BY <1>t, <3>2, <3>3, <3>4 DEF TypeOK
    <3> QED
      BY <1>t, <3>1, <3>4, <3>5 DEF Types
  <2> QED
    BY <1>1, <1>3, <2>1 DEF Insert
<1>4. ASSUME NEW x \in Ids, SoftDelete(x) PROVE IInv'
  <2>1. stay' \subseteq stay /\ present' = present /\ list' = list
        /\ UNCHANGED <<req, walk, seen>>
    BY <1>4 DEF SoftDelete, StillThere
  <2>2. Types'
    <3>1. gone' \subseteq present' /\ stay' \subseteq present'
      BY <1>4, <1>t, <2>1 DEF SoftDelete
    <3>2. list' \in {"entries", "logs"} => gone' = {}
      BY <1>4, <2>1 DEF SoftDelete
    <3>3. UNCHANGED <<list, present, used, roles, balance, today, req, walk, seen>>
      BY <1>4 DEF SoftDelete
    <3>4. TypeOK'
      BY <1>t, <3>1, <3>3 DEF TypeOK
    <3> QED
      BY <1>t, <3>2, <3>3, <3>4 DEF Types
  <2>3. \A y : Before(y, present)' = Before(y, present)
    BY <2>1 DEF Before
  <2> QED
    BY <1>t, <2>1, <2>2, <2>3, QuietStep
<1>5. ASSUME NEW x \in Ids, Restore(x) PROVE IInv'
  <2>1. Types'
    BY <1>5, <1>t DEF Restore, Types, TypeOK
  <2> QED
    BY <1>1, <1>5, <2>1 DEF Restore
<1>6. ASSUME NEW x \in Ids, Purge(x) PROVE IInv'
  <2>1. /\ stay' \subseteq stay /\ stay' \subseteq present'
        /\ present' \subseteq present
        /\ list' = list /\ list = "logs" /\ gone = {}
        /\ UNCHANGED <<req, walk, seen>>
    BY <1>6, <1>t DEF Purge, StillThere, Types
  <2>2. Types'
    BY <1>6, <1>t, <2>1 DEF Purge, Types, TypeOK
  <2>3. \A y \in stay' : Before(y, present)' = Before(y, present)
    <3>1. present \subseteq Int
      BY <1>t, Finite
    <3>2. \A y \in stay' : y > x
      BY <1>6, <2>1 DEF Purge
    <3>3. \A y \in stay' : y \in Int
      BY <2>1, <3>1
    <3>4. x \in Int
      BY <1>6, BoundsAssumption DEF Ids
    <3>5. present' = {z \in present : z > x}
      BY <1>6 DEF Purge
    <3> SUFFICES ASSUME NEW y \in stay'
                 PROVE  Before(y, present)' = Before(y, present)
      OBVIOUS
    <3>6. Before(y, present) = {z \in present : z > y}
      BY <2>1 DEF Before
    <3>7. Before(y, present)' = {z \in present' : z > y}
      BY <2>1 DEF Before
    <3>8. \A z \in present : z > y => z > x
      BY <3>1, <3>2, <3>3, <3>4
    <3> QED
      BY <3>5, <3>6, <3>7, <3>8
  <2> QED
    BY <1>t, <2>1, <2>2, <2>3, QuietStep
<1>7. ASSUME NEW x \in Ids, Adjust(x) PROVE IInv'
  <2>1. balance' \in [Ids -> Nat]
    BY <1>7, <1>t DEF Adjust, Types
  <2>2. Types'
    BY <1>7, <1>t, <2>1 DEF Adjust, Types, TypeOK
  <2> QED
    BY <1>1, <1>7, <2>2 DEF Adjust
<1>8. ASSUME NEW x \in Ids, NEW R \in SUBSET Roles, ReplaceRoles(x, R)
      PROVE  IInv'
  <2>1. Types'
    BY <1>8, <1>t DEF ReplaceRoles, Types, TypeOK
  <2> QED
    BY <1>1, <1>8, <2>1 DEF ReplaceRoles
<1> QED
  BY <1>2, <1>3, <1>4, <1>5, <1>6, <1>7, <1>8 DEF Write

(* The invariant holds at first: nothing is asked and there are no rows. *)
LEMMA InvInit == Init => IInv
<1> SUFFICES ASSUME Init PROVE IInv
  OBVIOUS
<1>1. /\ req.pc = "idle" /\ req.status = 0 /\ req.rows = <<>>
      /\ req \in Request({req.roles})
  BY DEF Init, NoRequest, Request
<1>2. Range(req.rows) = {} /\ Len(req.rows) = 0
  BY <1>1 DEF Range
<1>3. Types
  BY <1>1, <1>2, BoundsAssumption DEF Init, Types, TypeOK, Lists
<1>4. Asked /\ Walked /\ Counted /\ Tallied
  BY <1>1 DEF Init, Asked, Walked, Counted, Tallied
<1> QED
  BY <1>3, <1>4 DEF IInv

-----------------------------------------------------------------------------
(* The reader's steps. *)

(* Ending a request with an error keeps the invariant: the reader starts
   again with nothing. *)
LEMMA FailedStep ==
    ASSUME IInv, NEW code \in {400, 500}, Failed(code)
    PROVE  IInv'
<1>1. req' = [NoRequest EXCEPT !.status = code]
  BY DEF Failed
<1>2. /\ req'.pc = "idle" /\ req'.rows = <<>> /\ req'.status = code
      /\ req' \in Request({req'.roles})
  <2>1. /\ req'.pc = "idle" /\ req'.rows = <<>> /\ req'.status = code
        /\ req'.roles = <<>>
    BY <1>1 DEF NoRequest
  <2>2. req' \in Request({<<>>})
    <3>1. req' = [pc |-> "idle", status |-> code, num |-> 0, size |-> 0,
                  inc |-> FALSE, id |-> 0, rows |-> <<>>, total |-> 0,
                  roles |-> <<>>, stats |-> <<>>, perms |-> {}]
      BY <1>1 DEF NoRequest
    <3> QED
      BY <3>1 DEF Request
  <2> QED
    BY <2>1, <2>2
<1>3. Range(req.rows)' = {} /\ Len(req'.rows) = 0
  BY <1>2 DEF Range
<1>4. walk' = 0 /\ seen' = {} /\ stay' = {} /\ UNCHANGED <<list, tables>>
  BY DEF Failed
<1>5. TypeOK'
  BY <1>2, <1>3, <1>4, BoundsAssumption DEF IInv, Types, TypeOK, tables
<1>6. Types'
  BY <1>2, <1>4, <1>5 DEF IInv, Types, tables
<1>7. Asked' /\ Walked' /\ Counted' /\ Tallied'
  BY <1>2, <1>4 DEF Asked, Walked, Counted, Tallied
<1> QED
  BY <1>6, <1>7 DEF IInv

(* Places are what they were as long as the table and the listing are. *)
LEMMA SamePlaces ==
    ASSUME UNCHANGED <<list, present>>
    PROVE  \A x : Before(x, present)' = Before(x, present)
BY DEF Before

(* The page that follows a page whose offset fits has an offset that fits or
   a negative one, and one page more ends one size later. *)
LEMMA NextOffset ==
    ASSUME NEW num \in Nat \ {0}, NEW size \in Nat, size <= MaxInt32 + 1,
           \/ num = 1
           \/ num > 1 /\ (num - 1 - 1) * size <= MaxInt32,
           Offset(num, size) >= 0
    PROVE  /\ (num - 1) * size \in Nat
           /\ (num - 1) * size <= MaxInt32
           /\ Offset(num, size) = (num - 1) * size
           /\ num * size = (num - 1) * size + size
<1> DEFINE off == (num - 1) * size
<1>1. off \in Nat /\ num * size = off + size
  OBVIOUS
<1>2. off < Int32Range
  <2>1. CASE num = 1
    <3>1. off = 0
      BY <2>1
    <3> QED
      BY <3>1, BoundsAssumption DEF Int32Range
  <2>2. CASE num > 1 /\ (num - 1 - 1) * size <= MaxInt32
    <3>1. off = (num - 1 - 1) * size + size
      BY <2>2
    <3>2. (num - 1 - 1) * size \in Int
      OBVIOUS
    <3> QED
      BY <2>2, <3>1, <3>2, BoundsAssumption DEF Int32Range
  <2> QED
    BY <2>1, <2>2
<1>3. Offset(num, size) = Int32(off)
  BY DEF Offset
<1> HIDE DEF off
<1>4. /\ Int32(off) \in Int
      /\ off <= MaxInt32 => Int32(off) = off
      /\ off > MaxInt32 /\ off < Int32Range => Int32(off) < 0
  BY <1>1, Overflow
<1>5. off <= MaxInt32
  BY <1>1, <1>2, <1>3, <1>4, BoundsAssumption
<1> QED
  BY <1>1, <1>3, <1>4, <1>5 DEF off

(* The first query of a listing keeps the invariant: the rows of the page are
   those whose places come next, and later rows come on later pages. *)
LEMMA FetchStep ==
    ASSUME IInv, list \in Paged, NEW num \in Int, NEW size \in Int,
           NEW inc \in BOOLEAN, NEW S \in SUBSET present,
           Steady' => S = present,
           FetchPage(S, num, size, inc)
    PROVE  IInv'
<1>1. CASE Offset(num, size) < 0
  BY <1>1, FailedStep DEF FetchPage
<1>2. CASE ~(Offset(num, size) < 0)
  <2> DEFINE off == Offset(num, size)
             page == Slice(Sorted(list, S), off, size)
  <2>0. /\ TypeOK /\ Types /\ req.pc = "idle"
        /\ ValidPage(num, size)
        /\ UNCHANGED <<list, tables>>
    BY <1>2 DEF IInv, Types, FetchPage
  <2>1. /\ num \in Nat \ {0} /\ size \in Nat /\ size <= MaxPageSize
        /\ size <= MaxInt32 + 1 /\ size >= 1
    BY <2>0, BoundsAssumption DEF ValidPage
  <2>2. off \in Nat
    <3>1. (num - 1) * size \in Nat
      BY <2>1
    <3>2. off \in Int
      BY <3>1, Overflow DEF Offset
    <3> QED
      BY <1>2, <3>2
  <2>3. req' = [NoRequest EXCEPT !.pc = "count", !.num = num, !.size = size,
                                 !.inc = inc, !.rows = page]
    BY <1>2 DEF FetchPage
  <2>4. /\ walk' = IF Follows(num, size, inc) THEN num - 1 ELSE 0
        /\ seen' = IF Follows(num, size, inc) /\ num > 1 THEN seen ELSE {}
        /\ stay' = CASE num = 1                 -> S
                     [] Follows(num, size, inc) -> stay
                     [] OTHER                   -> {}
    BY <1>2 DEF FetchPage
  <2>5. S \in SUBSET Int /\ IsFiniteSet(S)
    BY <2>0, Finite
  <2>p. page = Slice(Sorted(list, S), off, size)
    OBVIOUS
  <2> HIDE DEF page, off
  <2>6. /\ page \in Seq(S) /\ Len(page) <= size
        /\ page # <<>> => off + Len(page) <= Cardinality(S)
        /\ Range(page) = {x \in S : Cardinality(Ahead(list, x, S)) \in
                                       off .. off + size - 1}
    <3>1. size \in Nat
      BY <2>1
    <3>2. IsPage(page, list, S, off, size)
      BY <2>2, <2>5, <2>p, <3>1, PageRows, Zenon
    <3> QED
      BY <3>2, Zenon DEF IsPage
  <2>7. /\ req'.pc = "count" /\ req'.status = 0 /\ req'.num = num
        /\ req'.size = size /\ req'.inc = inc /\ req'.rows = page
        /\ req'.total = 0 /\ req'.stats = <<>>
    BY <2>3 DEF NoRequest
  <2>8. S \subseteq used /\ S \subseteq Ids
    BY <2>0 DEF TypeOK
  <2>9. req' \in Request({req'.roles})
    <3>1. page \in Seq(Ids)
      BY <2>6, <2>8
    <3>2. req' = [pc |-> "count", status |-> 0, num |-> num, size |-> size,
                  inc |-> inc, id |-> 0, rows |-> page, total |-> 0,
                  roles |-> <<>>, stats |-> <<>>, perms |-> {}]
      BY <2>3 DEF NoRequest
    <3>3. req' \in Request({<<>>}) /\ req'.roles = <<>>
      BY <3>1, <3>2 DEF Request
    <3> QED
      BY <3>3
  <2>10. Types'
    <3>1. Range(page) \subseteq used
      BY <2>6, <2>8
    <3>2. stay' \subseteq present /\ seen' \subseteq used /\ walk' \in Nat
      BY <2>0, <2>1, <2>4 DEF TypeOK
    <3>3. Len(page) <= MaxPageSize
      BY <2>1, <2>6, BoundsAssumption
    <3>4. TypeOK'
      BY <2>0, <2>7, <3>1, <3>2, <3>3 DEF TypeOK, tables
    <3> QED
      BY <2>0, <2>9, <3>2, <3>4 DEF Types, tables
  <2>11. Asked'
    BY <2>0, <2>7 DEF Asked, tables
  <2>12. Tallied'
    BY <2>7 DEF Tallied
  <2>13. Counted'
    <3> SUFFICES ASSUME Steady', page # <<>>
                 PROVE  off + Len(page) <= Cardinality(present)
      BY <2>0, <2>7 DEF Counted, tables, Offset, Int32, off
    <3> QED
      BY <2>6
  <2>14. Walked'
    <3> SUFFICES ASSUME walk' = num - 1
                 PROVE  /\ (num - 1) * size <= MaxInt32
                        /\ Steady' => SeenUpTo(seen \cup Range(req.rows))'
      BY <2>7 DEF Walked
    <3>1. Follows(num, size, inc)
      BY <2>1, <2>4 DEF Follows
    <3>2. num > 1 => /\ num = walk + 1 /\ walk # 0
                     /\ size = req.size /\ inc = req.inc
                     /\ walk = req.num /\ (req.num - 1) * req.size <= MaxInt32
                     /\ Steady => SeenUpTo(seen)
      BY <2>0, <2>1, <3>1 DEF Follows, IInv, Walked, Types
    <3>3. num = 1 \/ (num > 1 /\ (num - 1 - 1) * size <= MaxInt32)
      <4>1. num > 1 => num - 1 = req.num
        BY <2>0, <2>1, <3>2 DEF Types
      <4> QED
        BY <2>1, <3>2, <4>1
    <3>4. /\ (num - 1) * size \in Nat /\ (num - 1) * size <= MaxInt32
          /\ off = (num - 1) * size
          /\ num * size = (num - 1) * size + size
      BY <2>1, <2>2, <3>3, NextOffset DEF off
    <3>5. ASSUME Steady', NEW x \in stay',
                 Cardinality(Before(x, present)') < num * size
          PROVE  x \in seen' \cup Range(page)
      <4>1. S = present /\ Before(x, present)' = Before(x, present)
        BY <2>0, <3>5, SamePlaces DEF tables
      <4> DEFINE c == Cardinality(Before(x, present))
      <4>2. c \in Nat /\ c = Cardinality(Ahead(list, x, S))
        BY <2>0, <4>1, Countable, BeforeAhead DEF Counts
      <4>3. x \in S
        BY <2>10, <4>1, <2>0 DEF Types, TypeOK, tables
      <4> HIDE DEF c
      <4>4. c < off + size
        BY <3>4, <3>5, <4>1 DEF c
      <4>5. CASE c >= off
        <5>1. c \in off .. off + size - 1
          BY <2>1, <2>2, <4>2, <4>4, <4>5
        <5> QED
          BY <2>6, <4>2, <4>3, <5>1
      <4>6. CASE c < off
        <5>1. num # 1
          BY <2>1, <3>4, <4>2, <4>6
        <5>2. num > 1
          BY <2>1, <5>1
        <5>3. Steady
          BY <2>0, <2>7, <3>2, <3>5, <5>2 DEF Steady, tables
        <5>4. c < req.num * req.size
          <6>1. num - 1 = req.num
            BY <2>0, <2>1, <3>2, <5>2 DEF Types
          <6> QED
            BY <3>2, <3>4, <4>6, <5>2, <6>1
        <5>5. stay' = stay /\ seen' = seen
          BY <2>4, <3>1, <5>1, <5>2
        <5> QED
          BY <3>2, <3>5, <5>2, <5>3, <5>4, <5>5 DEF SeenUpTo, c
      <4> QED
        BY <2>2, <4>2, <4>5, <4>6
    <3> QED
      BY <2>7, <3>4, <3>5 DEF SeenUpTo
  <2> QED
    BY <2>10, <2>11, <2>12, <2>13, <2>14 DEF IInv
<1> QED
  BY <1>1, <1>2

(* Looking up one row by its id changes nothing about the pages. *)
LEMMA LookupStep ==
    ASSUME IInv, NEW id \in Int, getUser(id) \/ getWallet(id)
    PROVE  IInv'
<1>1. /\ req.pc = "idle" /\ Types /\ TypeOK
      /\ req \in Request({req.roles})
  BY DEF getUser, getWallet, IInv, Types
<1>2. /\ req' = [req EXCEPT !.id = id, !.status = Found(id, present)]
      /\ UNCHANGED <<list, tables, walk, seen, stay>>
  BY DEF getUser, getWallet
<1>3. Found(id, present) \in {200, 400, 404}
  BY DEF Found
<1>4. /\ req'.pc = req.pc /\ req'.num = req.num /\ req'.size = req.size
      /\ req'.inc = req.inc /\ req'.rows = req.rows
      /\ req'.total = req.total /\ req'.roles = req.roles
      /\ req'.stats = req.stats /\ req'.perms = req.perms
      /\ req'.status = Found(id, present)
  BY <1>1, <1>2 DEF Request
<1>5. req' \in Request({req'.roles})
  <2>1. req' = [pc |-> req.pc, status |-> Found(id, present),
                num |-> req.num, size |-> req.size, inc |-> req.inc, id |-> id,
                rows |-> req.rows, total |-> req.total, roles |-> req.roles,
                stats |-> req.stats, perms |-> req.perms]
    BY <1>1, <1>2 DEF Request
  <2>2. req.inc \in BOOLEAN
    BY <1>1 DEF Request
  <2>3. req' \in Request({req.roles})
    BY <1>1, <1>3, <2>1, <2>2 DEF Request
  <2> QED
    BY <1>4, <2>3
<1>6. Range(req.rows)' = Range(req.rows)
  BY <1>4 DEF Range
<1>7. TypeOK'
  BY <1>1, <1>2, <1>3, <1>4, <1>6 DEF TypeOK, tables
<1>8. Types'
  BY <1>1, <1>2, <1>5, <1>7 DEF Types, tables
<1>9. \A x : Before(x, present)' = Before(x, present)
  BY <1>2, SamePlaces DEF tables
<1>10. SameRequest
  BY <1>1, <1>4 DEF SameRequest
<1>11. Counts
  BY <1>1, Countable
<1> QED
  BY <1>2, <1>8, <1>9, <1>10, <1>11, QuietStep DEF tables, Counts

(* The total is the number of rows where no row is left out. *)
LEMMA TotalRight ==
    ASSUME Types, Asked, req.pc = "count"
    PROVE  Total \in Nat /\ (Steady => Total = Cardinality(present))
<1>1. \A inc : {x \in present : inc \/ x \notin gone} \in SUBSET present
  OBVIOUS
<1>2. {x \in present : x \notin gone} \in SUBSET present
  OBVIOUS
<1>3. \A S \in SUBSET present : Cardinality(S) \in Nat
  BY Finite
<1>4. \A inc : CountUsers(inc) \in Nat /\ CountAdminUsers(inc) \in Nat
  BY <1>1, <1>3 DEF CountUsers, CountAdminUsers
<1>5. CountWallets \in Nat
  BY <1>2, <1>3 DEF CountWallets
<1>6. Cardinality(present) \in Nat
  BY <1>3
<1>7. list \in Paged
  BY DEF Asked
<1>8. Total \in Nat
  BY <1>4, <1>5, <1>6, <1>7
     DEF Total, Paged, CountWalletEntries, CountOperationLogs
<1>9. ASSUME Steady PROVE Total = Cardinality(present)
  <2>1. CASE list \in {"entries", "logs"}
    BY <2>1 DEF Total, CountWalletEntries, CountOperationLogs
  <2>2. CASE list \in {"users", "admins"} /\ req.inc
    <3>1. {x \in present : req.inc \/ x \notin gone} = present
      BY <2>2
    <3> QED
      BY <2>2, <3>1 DEF Total, CountUsers, CountAdminUsers
  <2> QED
    BY <1>9, <2>1, <2>2 DEF Steady
<1> QED
  BY <1>8, <1>9

(* Rows of a page that makes up the total, with what was seen before, are all
   there are: the place of each is below the total. *)
LEMMA TotalSeen ==
    ASSUME Types, NEW S, SeenUpTo(S),
           req.num * req.size >= Cardinality(present)
    PROVE  stay \subseteq S
<1> SUFFICES ASSUME NEW x \in stay PROVE x \in S
  OBVIOUS
<1>1. x \in present
  BY DEF Types, TypeOK
<1>2. Cardinality(Before(x, present)) < Cardinality(present)
  BY <1>1, PlaceBelow
<1>3. /\ Cardinality(present) \in Nat
      /\ Cardinality(Before(x, present)) \in Nat
  BY Countable DEF Counts
<1>4. req.num * req.size \in Int
  BY DEF Types, Request
<1>5. Cardinality(Before(x, present)) < req.num * req.size
  BY <1>2, <1>3, <1>4
<1> QED
  BY <1>5 DEF SeenUpTo

(* An answer to the request: what it says beside the page. *)
Completes(answer) ==
    /\ answer \in Request({answer.roles})
    /\ answer.num = req.num /\ answer.size = req.size
    /\ answer.inc = req.inc /\ answer.rows = req.rows
    /\ Steady /\ list # "logs" /\ req.rows # <<>> =>
          Offset(req.num, req.size) + Len(req.rows) <= answer.total
    /\ Steady /\ walk = req.num - 1 /\ req.num * req.size >= answer.total =>
          stay \subseteq seen \cup Range(req.rows)

(* Delivering a page and its total keeps the invariant. *)
LEMMA DeliverStep ==
    ASSUME IInv, req.pc \in {"count", "roles"},
           NEW answer, Completes(answer), Deliver(answer)
    PROVE  IInv'
<1>1. /\ Types /\ TypeOK /\ Asked /\ list \in Paged
      /\ ValidPage(req.num, req.size)
      /\ req.num \in Int /\ req.size \in Int
      /\ req.num >= 1
  BY DEF IInv, Types, Asked, Request, ValidPage
<1>2. /\ req' = [answer EXCEPT !.pc = "idle", !.status = 200]
      /\ walk' = IF walk = req.num - 1 THEN req.num ELSE 0
      /\ seen' = IF walk = req.num - 1 THEN seen \cup Range(req.rows) ELSE {}
      /\ UNCHANGED <<list, tables, stay>>
  BY DEF Deliver
<1>3. /\ req'.pc = "idle" /\ req'.status = 200 /\ req'.num = req.num
      /\ req'.size = req.size /\ req'.inc = req.inc /\ req'.rows = req.rows
      /\ req'.total = answer.total /\ req'.roles = answer.roles
  BY <1>2 DEF Completes, Request
<1>4. req' \in Request({req'.roles})
  <2>1. req' = [pc |-> "idle", status |-> 200, num |-> answer.num,
                size |-> answer.size, inc |-> answer.inc, id |-> answer.id,
                rows |-> answer.rows, total |-> answer.total,
                roles |-> answer.roles, stats |-> answer.stats,
                perms |-> answer.perms]
    <3>1. PICK a \in Request({answer.roles}) : a = answer
      BY DEF Completes
    <3>2. a = [pc |-> a.pc, status |-> a.status, num |-> a.num,
               size |-> a.size, inc |-> a.inc, id |-> a.id, rows |-> a.rows,
               total |-> a.total, roles |-> a.roles, stats |-> a.stats,
               perms |-> a.perms]
      BY DEF Request
    <3>3. req' = [a EXCEPT !.pc = "idle", !.status = 200]
      BY <1>2, <3>1, Zenon
    <3>4. req' = [pc |-> "idle", status |-> 200, num |-> a.num,
                  size |-> a.size, inc |-> a.inc, id |-> a.id,
                  rows |-> a.rows, total |-> a.total, roles |-> a.roles,
                  stats |-> a.stats, perms |-> a.perms]
      BY <3>2, <3>3
    <3> QED
      BY <3>1, <3>4, Zenon
  <2>2. answer.inc \in BOOLEAN
    BY DEF Completes, Request
  <2>3. req' \in Request({answer.roles})
    BY <2>1, <2>2 DEF Completes, Request
  <2> QED
    BY <1>3, <2>3
<1>5. Range(req.rows)' = Range(req.rows)
  BY <1>3 DEF Range
<1>6. walk' \in Nat /\ seen' \subseteq used
  BY <1>1, <1>2 DEF TypeOK
<1>7. TypeOK'
  BY <1>1, <1>2, <1>3, <1>5, <1>6 DEF TypeOK, tables
<1>8. Types'
  BY <1>1, <1>2, <1>4, <1>6, <1>7 DEF Types, tables
<1>9. Asked' /\ Tallied'
  BY <1>1, <1>2, <1>3 DEF Asked, Tallied
<1>10. Steady' <=> Steady
  BY <1>2, <1>3 DEF Steady
<1>11. Counted'
  <2> SUFFICES ASSUME Steady, list # "logs", req.rows # <<>>
               PROVE  Offset(req.num, req.size) + Len(req.rows) <= answer.total
    BY <1>2, <1>3, <1>10 DEF Counted, Offset, Int32
  <2> QED
    BY DEF Completes
<1>12. Walked'
  <2> SUFFICES ASSUME walk = req.num - 1
               PROVE  /\ (req.num - 1) * req.size <= MaxInt32
                      /\ Steady => SeenUpTo(seen)' /\ SeenAll(seen)'
    BY <1>1, <1>2, <1>3, <1>10 DEF Walked, ValidPage, SeenUpTo, SeenAll
  <2>1. /\ (req.num - 1) * req.size <= MaxInt32
        /\ Steady => SeenUpTo(seen \cup Range(req.rows))
    BY DEF IInv, Walked
  <2>2. seen' = seen \cup Range(req.rows)
    BY <1>2
  <2>3. \A x : Before(x, present)' = Before(x, present)
    BY <1>2, SamePlaces DEF tables
  <2>4. Steady => SeenUpTo(seen)'
    BY <1>2, <1>3, <2>1, <2>2, <2>3 DEF SeenUpTo
  <2>5. Steady => SeenAll(seen)'
    BY <1>2, <1>3, <2>2 DEF SeenAll, Completes
  <2> QED
    BY <2>1, <2>4, <2>5
<1> QED
  BY <1>8, <1>9, <1>11, <1>12 DEF IInv

(* The second query of a listing: it answers with the total, but for admin
   users, whose roles come next. *)
LEMMA CountStep ==
    ASSUME IInv, CountRows
    PROVE  IInv'
<1>1. /\ req.pc = "count" /\ Types /\ TypeOK /\ Asked /\ list \in Paged
      /\ ValidPage(req.num, req.size) /\ req.status = 0
  BY DEF CountRows, IInv, Types, Asked
<1>r. req \in Request({req.roles})
  BY DEF IInv, Types
<1>2. Total \in Nat /\ (Steady => Total = Cardinality(present))
  BY <1>1, TotalRight
<1> DEFINE T == Total
           answer == [req EXCEPT !.total = T]
<1>3. T \in Nat /\ (Steady => T = Cardinality(present))
  BY <1>2
<1> HIDE DEF T
<1>4. /\ answer.pc = "count" /\ answer.status = 0
      /\ answer.num = req.num /\ answer.size = req.size
      /\ answer.inc = req.inc /\ answer.rows = req.rows
      /\ answer.total = T /\ answer.roles = req.roles
  BY <1>1, <1>r DEF Request
<1>5. answer \in Request({answer.roles})
  <2>1. answer = [pc |-> req.pc, status |-> req.status, num |-> req.num,
                  size |-> req.size, inc |-> req.inc, id |-> req.id,
                  rows |-> req.rows, total |-> T, roles |-> req.roles,
                  stats |-> req.stats, perms |-> req.perms]
    BY <1>r DEF Request
  <2>2. req.inc \in BOOLEAN
    BY <1>r DEF Request
  <2>3. answer \in Request({req.roles})
    <3> HIDE DEF answer
    <3> QED
      BY <1>r, <1>3, <2>1, <2>2 DEF Request
  <2> QED
    BY <1>4, <2>3
<1> HIDE DEF answer
<1>6. Steady /\ list # "logs" /\ req.rows # <<>> =>
        Offset(req.num, req.size) + Len(req.rows) <= T
  BY <1>1, <1>3 DEF IInv, Counted
<1> DEFINE S == seen \cup Range(req.rows)
<1>7. walk = req.num - 1 =>
        /\ (req.num - 1) * req.size <= MaxInt32
        /\ Steady => SeenUpTo(S)
  BY <1>1 DEF IInv, Walked
<1> HIDE DEF S
<1>8. Steady /\ walk = req.num - 1 /\ req.num * req.size >= T =>
        stay \subseteq S
  BY <1>1, <1>3, <1>7, TotalSeen
<1>9. CASE list # "admins"
  <2>1. Completes(answer)
    BY <1>4, <1>5, <1>6, <1>8 DEF Completes, S
  <2>2. Deliver(answer)
    BY <1>9 DEF CountRows, answer, T
  <2> QED
    BY <1>1, <2>1, <2>2, DeliverStep
<1>10. CASE list = "admins"
  <2>1. /\ req' = [req EXCEPT !.total = T, !.pc = "roles"]
        /\ UNCHANGED <<list, tables, walk, seen, stay>>
    BY <1>10 DEF CountRows, T
  <2>2. /\ req'.pc = "roles" /\ req'.status = 0
        /\ req'.num = req.num /\ req'.size = req.size
        /\ req'.inc = req.inc /\ req'.rows = req.rows
        /\ req'.total = T /\ req'.roles = req.roles
    BY <1>1, <1>r, <2>1 DEF Request
  <2>3. req' \in Request({req'.roles})
    <3>1. req' = [pc |-> "roles", status |-> req.status, num |-> req.num,
                  size |-> req.size, inc |-> req.inc, id |-> req.id,
                  rows |-> req.rows, total |-> T, roles |-> req.roles,
                  stats |-> req.stats, perms |-> req.perms]
      BY <1>r, <2>1 DEF Request
    <3>2. req.inc \in BOOLEAN
      BY <1>r DEF Request
    <3>3. req' \in Request({req.roles})
      BY <1>r, <1>3, <3>1, <3>2 DEF Request
    <3> QED
      BY <2>2, <3>3
  <2>4. Range(req.rows)' = Range(req.rows)
    BY <2>2 DEF Range
  <2>5. TypeOK'
    BY <1>1, <2>1, <2>2, <2>4 DEF TypeOK, tables
  <2>6. Types'
    BY <1>1, <2>1, <2>3, <2>5 DEF Types, tables
  <2>7. Asked' /\ Tallied'
    BY <1>1, <1>10, <2>1, <2>2 DEF Asked, Tallied, ValidPage, tables
  <2>8. Steady' <=> Steady
    BY <2>1, <2>2 DEF Steady
  <2>9. Counted'
    BY <1>6, <2>1, <2>2, <2>8 DEF Counted, Offset, Int32
  <2>10. Walked'
    <3> SUFFICES ASSUME walk = req.num - 1
                 PROVE  /\ (req.num - 1) * req.size <= MaxInt32
                        /\ Steady => /\ SeenUpTo(seen \cup Range(req.rows))'
                                     /\ SeenAll(seen \cup Range(req.rows))'
      BY <2>1, <2>2, <2>8 DEF Walked
    <3>1. \A x : Before(x, present)' = Before(x, present)
      BY <2>1, SamePlaces DEF tables
    <3>2. (seen \cup Range(req.rows))' = S
      BY <2>1, <2>4 DEF S
    <3>3. Steady => SeenUpTo(seen \cup Range(req.rows))'
      BY <1>7, <2>1, <2>2, <3>1, <3>2 DEF SeenUpTo
    <3>4. Steady => SeenAll(seen \cup Range(req.rows))'
      BY <1>8, <2>1, <2>2, <3>2 DEF SeenAll
    <3> QED
      BY <1>7, <3>3, <3>4
  <2> QED
    BY <2>6, <2>7, <2>9, <2>10 DEF IInv
<1> QED
  BY <1>9, <1>10

(* A request may take any roles. *)
LEMMA WithRoles ==
    ASSUME NEW shown, NEW r \in Request(shown), NEW g,
           NEW q, q = [r EXCEPT !.roles = g]
    PROVE  q \in Request({g})
<1>1. r.inc \in BOOLEAN
  BY DEF Request
<1> SUFFICES [pc |-> r.pc, status |-> r.status, num |-> r.num,
              size |-> r.size, inc |-> r.inc, id |-> r.id, rows |-> r.rows,
              total |-> r.total, roles |-> g, stats |-> r.stats,
              perms |-> r.perms] \in Request({g})
  BY DEF Request
<1> QED
  BY <1>1 DEF Request

(* The roles are put together with the page and its total. *)
LEMMA RolesStep ==
    ASSUME IInv, FetchRoles
    PROVE  IInv'
<1>1. req.pc = "roles" /\ Types /\ list = "admins"
  BY DEF FetchRoles, IInv, Types, Asked
<1>r. req \in Request({req.roles})
  BY DEF IInv, Types
<1> DEFINE G == Grouped(Range(req.rows), ListAdminUserRoles)
           answer == [req EXCEPT !.roles = G]
<1>2. Deliver(answer)
  BY DEF FetchRoles
<1> HIDE DEF G
<1>3. /\ answer.num = req.num /\ answer.size = req.size
      /\ answer.inc = req.inc /\ answer.rows = req.rows
      /\ answer.total = req.total /\ answer.roles = G
  BY <1>r DEF Request
<1>4. answer \in Request({answer.roles})
  <2>1. answer \in Request({G})
    BY <1>r, WithRoles, Zenon
  <2> QED
    BY <1>3, <2>1
<1> HIDE DEF answer
<1>5. Steady /\ list # "logs" /\ req.rows # <<>> =>
        Offset(req.num, req.size) + Len(req.rows) <= req.total
  BY <1>1 DEF IInv, Counted
<1>6. Steady /\ walk = req.num - 1 /\ req.num * req.size >= req.total =>
        stay \subseteq seen \cup Range(req.rows)
  BY <1>1 DEF IInv, Walked, SeenAll
<1>7. Completes(answer)
  BY <1>3, <1>4, <1>5, <1>6 DEF Completes
<1> QED
  BY <1>1, <1>2, <1>7, DeliverStep

-----------------------------------------------------------------------------
(***************************************************************************)
(* The sum of the balances.  The fold of the community modules is a        *)
(* recursive function; what it computes is proved through minimal          *)
(* counterexamples, as the members of a finite set of sets have a minimal  *)
(* one.  Summand first or last makes no difference for numbers.            *)
(***************************************************************************)

First(s) == CHOOSE x \in s : TRUE

(* f adds up w over every subset of U, the way MapThenSumSet does, or the way
   FoldSet does. *)
IsSum(f, U, w) ==
    f = [s \in SUBSET U |-> IF s = {} THEN 0
                            ELSE w[First(s)] + f[s \ {First(s)}]]
IsFold(f, U, w) ==
    f = [s \in SUBSET U |-> IF s = {} THEN 0
                            ELSE f[s \ {First(s)}] + w[First(s)]]

Weights(w, U) == \A x \in U : w[x] \in Nat

Adds(h, U, w) == h \in [SUBSET U -> Nat] /\ IsSum(h, U, w)

Agree(f, h, V) == \A s \in SUBSET V : f[s] = h[s]

Sum(w, U)  == MapThenSumSet(LAMBDA x : w[x], U)
Fold(w, U) == FoldSet(LAMBDA x, s : s + w[x], 0, U)

(* MapThenSumSet applies some function of the one kind, FoldSet of the
   other. *)
LEMMA Link ==
    ASSUME NEW w, NEW U
    PROVE  /\ Sum(w, U) = (CHOOSE f : IsSum(f, U, w))[U]
           /\ Fold(w, U) = (CHOOSE f : IsFold(f, U, w))[U]
BY DEF Sum, Fold, MapThenSumSet, FoldSet, MapThenFoldSet, IsSum, IsFold, First

(* Any set of subsets of a finite set has a minimal member. *)
LEMMA SubsetMin ==
    ASSUME NEW U, IsFiniteSet(U), NEW T, T \subseteq SUBSET U, T # {}
    PROVE  \E x \in T : \A y \in T : y \subseteq x => y = x
<1>1. T \subseteq FiniteSubsetsOf(U)
  BY FS_Subset DEF FiniteSubsetsOf
<1>2. PICK x \in T : \A y \in T : <<y, x>> \notin StrictSubsetOrdering(U)
  <2>1. IsWellFoundedOn(StrictSubsetOrdering(U), FiniteSubsetsOf(U))
    BY FS_StrictSubsetOrderingWellFounded
  <2> QED
    BY <1>1, <2>1, WFMin
<1> QED
  BY <1>2 DEF StrictSubsetOrdering

(* Functions that add up natural numbers agree where both are defined, in
   whichever order they take the summands. *)
LEMMA SumUnique ==
    ASSUME NEW U, IsFiniteSet(U), NEW V, V \subseteq U,
           NEW w, Weights(w, U), NEW h, Adds(h, U, w),
           NEW f, IsSum(f, V, w) \/ IsFold(f, V, w)
    PROVE  Agree(f, h, V)
<1> USE DEF Weights, Adds, Agree
<1> DEFINE Bad == {s \in SUBSET V : f[s] # h[s]}
<1> SUFFICES ASSUME Bad # {} PROVE FALSE
  OBVIOUS
<1>1. IsFiniteSet(V)
  BY FS_Subset
<1>2. PICK s \in Bad : \A u \in Bad : u \subseteq s => u = s
  <2>1. Bad \subseteq SUBSET V
    OBVIOUS
  <2> HIDE DEF Bad
  <2> QED
    BY <1>1, <2>1, SubsetMin
<1> DEFINE x == First(s)
           t == s \ {x}
<1>3. h[s] = IF s = {} THEN 0 ELSE w[x] + h[t]
  BY DEF IsSum
<1>4. \/ f[s] = IF s = {} THEN 0 ELSE w[x] + f[t]
      \/ f[s] = IF s = {} THEN 0 ELSE f[t] + w[x]
  <2>1. CASE IsSum(f, V, w)
    BY <2>1 DEF IsSum
  <2>2. CASE IsFold(f, V, w)
    BY <2>2 DEF IsFold
  <2> QED
    BY <2>1, <2>2
<1>5. s # {} /\ x \in s
  BY <1>3, <1>4 DEF First
<1>6. f[t] = h[t]
  BY <1>2, <1>5
<1>7. w[x] \in Nat /\ h[t] \in Nat
  BY <1>5
<1>8. w[x] + h[t] = h[t] + w[x]
  BY <1>7
<1>9. f[s] = h[s]
  BY <1>3, <1>4, <1>5, <1>6, <1>8
<1> QED
  BY <1>9

(* For a finite set there is a function that adds up natural numbers. *)
LEMMA SumExists ==
    ASSUME NEW U, IsFiniteSet(U), NEW w, Weights(w, U)
    PROVE  \E h : Adds(h, U, w)
<1> USE DEF Weights, Adds
<1> DEFINE Has(V) == \E h : Adds(h, V, w)
           Bad == {V \in SUBSET U : ~Has(V)}
<1> SUFFICES ASSUME Bad # {} PROVE FALSE
  BY DEF Bad
<1>1. PICK V \in Bad : \A W \in Bad : W \subseteq V => W = V
  <2>1. Bad \subseteq SUBSET U
    OBVIOUS
  <2> HIDE DEF Bad
  <2> QED
    BY <2>1, SubsetMin
<1> DEFINE Of(W) == CHOOSE h : Adds(h, W, w)
           g == [s \in SUBSET V |->
                   IF s = {} THEN 0
                   ELSE w[First(s)] + Of(s \ {First(s)})[s \ {First(s)}]]
<1>2. ASSUME NEW W \in SUBSET V, W # V
      PROVE  Of(W) \in [SUBSET W -> Nat] /\ IsSum(Of(W), W, w)
  <2>1. Has(W)
    BY <1>1, <1>2
  <2> QED
    BY <2>1
<1> HIDE DEF Of
<1>3. ASSUME NEW s \in SUBSET V, s # {}
      PROVE  /\ First(s) \in s /\ s \ {First(s)} \in SUBSET V
             /\ s \ {First(s)} # V
             /\ w[First(s)] \in Nat
             /\ Of(s \ {First(s)})[s \ {First(s)}] \in Nat
  <2>1. First(s) \in s
    BY <1>3 DEF First
  <2>2. Of(s \ {First(s)}) \in [SUBSET (s \ {First(s)}) -> Nat]
    BY <1>2, <2>1
  <2> QED
    BY <2>1, <2>2
<1>4. g \in [SUBSET V -> Nat]
  BY <1>3
<1>5. ASSUME NEW t \in SUBSET V, t # V PROVE g[t] = Of(t)[t]
  <2>1. Of(t) \in [SUBSET t -> Nat] /\ IsSum(Of(t), t, w)
    BY <1>2, <1>5
  <2>2. Of(t)[t] = IF t = {} THEN 0
                   ELSE w[First(t)] + Of(t)[t \ {First(t)}]
    BY <2>1 DEF IsSum
  <2>3. CASE t = {}
    BY <2>2, <2>3
  <2>4. CASE t # {}
    <3> DEFINE r == t \ {First(t)}
    <3>1. First(t) \in t /\ r \in SUBSET V /\ r # V /\ r \subseteq t
      BY <1>3, <2>4
    <3>2. IsSum(Of(r), r, w)
      BY <1>2, <3>1
    <3>3. IsFiniteSet(t)
      BY FS_Subset
    <3>4. Weights(w, t)
      OBVIOUS
    <3>5. Adds(Of(t), t, w)
      BY <2>1
    <3> HIDE DEF r, Weights, Adds
    <3>6. Agree(Of(r), Of(t), r)
      BY <3>1, <3>2, <3>3, <3>4, <3>5, SumUnique, Zenon
    <3>7. Of(r)[r] = Of(t)[r]
      BY <3>6 DEF Agree
    <3> QED
      BY <2>2, <2>4, <3>7 DEF r
  <2> QED
    BY <2>3, <2>4
<1>6. ASSUME NEW s \in SUBSET V
      PROVE  g[s] = IF s = {} THEN 0
                    ELSE w[First(s)] + g[s \ {First(s)}]
  <2>1. CASE s = {}
    BY <2>1
  <2>2. CASE s # {}
    <3>1. g[s \ {First(s)}] = Of(s \ {First(s)})[s \ {First(s)}]
      BY <1>3, <1>5, <2>2
    <3>2. g[s] = w[First(s)] + Of(s \ {First(s)})[s \ {First(s)}]
      BY <2>2
    <3> QED
      BY <2>2, <3>1, <3>2
  <2> QED
    BY <2>1, <2>2
<1> HIDE DEF g
<1>7. IsSum(g, V, w)
  <2>1. g = [s \in SUBSET V |-> g[s]]
    BY <1>4
  <2> QED
    BY <1>6, <2>1 DEF IsSum
<1> QED
  BY <1>1, <1>4, <1>7

(* The sum of the balances is a number, and both folds compute it. *)
LEMMA Sums ==
    ASSUME NEW U, IsFiniteSet(U), NEW w, Weights(w, U)
    PROVE  Sum(w, U) \in Nat /\ Fold(w, U) = Sum(w, U)
<1>h. PICK h : Adds(h, U, w)
  BY SumExists, Zenon
<1>1. h \in [SUBSET U -> Nat] /\ IsSum(h, U, w)
  BY <1>h DEF Adds
<1>2. IsFold(h, U, w)
  <2>1. ASSUME NEW s \in SUBSET U
        PROVE  h[s] = IF s = {} THEN 0 ELSE h[s \ {First(s)}] + w[First(s)]
    <3>1. h[s] = IF s = {} THEN 0 ELSE w[First(s)] + h[s \ {First(s)}]
      BY <1>1 DEF IsSum
    <3>2. CASE s # {}
      <4>1. First(s) \in s
        BY <3>2 DEF First
      <4>2. w[First(s)] \in Nat /\ h[s \ {First(s)}] \in Nat
        BY <1>1, <4>1 DEF Weights
      <4> QED
        BY <3>1, <3>2, <4>2
    <3> QED
      BY <3>1, <3>2
  <2>2. h = [s \in SUBSET U |-> h[s]]
    BY <1>1
  <2> QED
    BY <2>1, <2>2 DEF IsFold
<1>3. \A f : (IsSum(f, U, w) \/ IsFold(f, U, w)) => f[U] = h[U]
  <2> SUFFICES ASSUME NEW f, IsSum(f, U, w) \/ IsFold(f, U, w)
               PROVE  f[U] = h[U]
    OBVIOUS
  <2>1. U \subseteq U
    OBVIOUS
  <2>2. Agree(f, h, U)
    BY <1>h, <2>1, SumUnique, Zenon
  <2> QED
    BY <2>2 DEF Agree
<1>4. Sum(w, U) = h[U]
  <2>1. IsSum(CHOOSE f : IsSum(f, U, w), U, w)
    BY <1>1
  <2> QED
    BY <1>3, <2>1, Link
<1>5. Fold(w, U) = h[U]
  <2>1. IsFold(CHOOSE f : IsFold(f, U, w), U, w)
    BY <1>2
  <2> QED
    BY <1>3, <2>1, Link
<1>6. h[U] \in Nat
  BY <1>1
<1> QED
  BY <1>4, <1>5, <1>6

(* What the dashboard sums up is a number. *)
LEMMA SumType ==
    ASSUME Types
    PROVE  SumWalletBalances \in Nat
<1>1. /\ IsFiniteSet(present \ gone) /\ present \subseteq Ids
      /\ balance \in [Ids -> Nat]
  BY Finite DEF Types, TypeOK
<1>2. Weights(balance, present \ gone)
  BY <1>1 DEF Weights
<1>3. Sum(balance, present \ gone) \in Nat
  BY <1>1, <1>2, Sums
<1> QED
  BY <1>3 DEF Sum, SumWalletBalances

(* One permission more counts for one if it is among those held. *)
LEMMA Tally ==
    ASSUME NEW P, NEW A, IsFiniteSet(A), NEW c, c \notin A
    PROVE  /\ Cardinality(P \cap A) \in Nat
           /\ Cardinality(P \cap (A \cup {c})) =
                Cardinality(P \cap A) + (IF c \in P THEN 1 ELSE 0)
<1>1. IsFiniteSet(P \cap A) /\ Cardinality(P \cap A) \in Nat
  <2>1. P \cap A \subseteq A
    OBVIOUS
  <2>2. IsFiniteSet(P \cap A)
    BY <2>1, FS_Subset
  <2> QED
    BY <2>2, FS_CardinalityType
<1> DEFINE X == P \cap (A \cup {c})
           Y == P \cap A
<1>2. c \notin Y /\ X = IF c \in P THEN Y \cup {c} ELSE Y
  OBVIOUS
<1>3. IsFiniteSet(Y) /\ Cardinality(Y) \in Nat
  BY <1>1
<1> HIDE DEF X, Y
<1>4. Cardinality(Y \cup {c}) = Cardinality(Y) + 1
  BY <1>2, <1>3, FS_AddElement
<1>5. Cardinality(X) = Cardinality(Y) + (IF c \in P THEN 1 ELSE 0)
  BY <1>2, <1>3, <1>4
<1> QED
  BY <1>3, <1>5 DEF X, Y

(* The number of statistics after each query of the dashboard. *)
LEMMA Tallies ==
    ASSUME NEW P \in SUBSET Stats
    PROVE  /\ Cardinality(P \cap {"user:read"}) =
                IF "user:read" \in P THEN 1 ELSE 0
           /\ Cardinality(P \cap {"user:read", "wallet:read"}) =
                Cardinality(P \cap {"user:read"}) +
                  (IF "wallet:read" \in P THEN 1 ELSE 0)
           /\ Cardinality(P) =
                Cardinality(P \cap {"user:read", "wallet:read"}) +
                  (IF "operation_log:read" \in P THEN 1 ELSE 0)
<1> DEFINE A == {"user:read"}
           B == {"user:read", "wallet:read"}
<1>1. /\ A = {} \cup {"user:read"} /\ B = A \cup {"wallet:read"}
      /\ P = P \cap (B \cup {"operation_log:read"})
  BY DEF Stats
<1>2. /\ "user:read" \notin {} /\ "wallet:read" \notin A
      /\ "operation_log:read" \notin B
  OBVIOUS
<1>3. IsFiniteSet({}) /\ IsFiniteSet(A) /\ IsFiniteSet(B)
  BY FS_EmptySet, FS_Singleton, FS_AddElement, <1>1
<1> HIDE DEF A, B
<1>4. Cardinality(P \cap A) =
        Cardinality(P \cap {}) + (IF "user:read" \in P THEN 1 ELSE 0)
  <2>1. Cardinality(P \cap ({} \cup {"user:read"})) =
          Cardinality(P \cap {}) + (IF "user:read" \in P THEN 1 ELSE 0)
    BY <1>2, <1>3, Tally
  <2> QED
    BY <1>1, <2>1, Zenon
<1> DEFINE E == P \cap {}
<1>5. Cardinality(E) = 0
  <2>1. E = {}
    OBVIOUS
  <2> HIDE DEF E
  <2> QED
    BY <2>1, FS_EmptySet
<1>6. Cardinality(P \cap B) =
        Cardinality(P \cap A) + (IF "wallet:read" \in P THEN 1 ELSE 0)
  <2>1. Cardinality(P \cap (A \cup {"wallet:read"})) =
          Cardinality(P \cap A) + (IF "wallet:read" \in P THEN 1 ELSE 0)
    BY <1>2, <1>3, Tally
  <2> QED
    BY <1>1, <2>1, Zenon
<1> DEFINE F == P \cap (B \cup {"operation_log:read"})
<1>7. Cardinality(F) =
        Cardinality(P \cap B) + (IF "operation_log:read" \in P THEN 1 ELSE 0)
  BY <1>2, <1>3, Tally
<1>8. P = F
  BY <1>1
<1> HIDE DEF F
<1>9. Cardinality(P) =
        Cardinality(P \cap B) + (IF "operation_log:read" \in P THEN 1 ELSE 0)
  BY <1>7, <1>8
<1>10. Cardinality(P \cap A) = IF "user:read" \in P THEN 1 ELSE 0
  BY <1>4, <1>5
<1> QED
  BY <1>6, <1>9, <1>10, Zenon DEF A, B

-----------------------------------------------------------------------------
(* The dashboard, the roles, and all steps together. *)

(* A request that is not about a paged listing keeps the invariant when it
   keeps to its own steps. *)
LEMMA AsideStep ==
    ASSUME IInv, list \notin Paged, UNCHANGED <<list, tables, walk, seen, stay>>,
           req' \in Request({req'.roles}),
           req'.rows = <<>> \/ req'.rows = req.rows,
           req'.pc \in {"idle", "users", "sum", "logs"},
           req'.pc # "idle" => list = "dashboard" /\ req'.status = 0,
           Tallied'
    PROVE  IInv'
<1>1. Types /\ TypeOK /\ walk = 0 /\ ~Steady'
  BY DEF IInv, Types, Asked, Steady, Paged
<1>2. Range(req.rows)' \subseteq used /\ Len(req'.rows) <= MaxPageSize
  <2>1. CASE req'.rows = <<>>
    <3>1. Range(req.rows)' = {} /\ Len(req'.rows) = 0
      BY <2>1 DEF Range
    <3> QED
      BY <3>1, BoundsAssumption
  <2>2. CASE req'.rows = req.rows
    BY <1>1, <2>2 DEF TypeOK, Range
  <2> QED
    BY <2>1, <2>2
<1>3. /\ req'.status \in {0, 200, 400, 404, 500}
      /\ req'.pc \in {"idle", "count", "roles", "users", "sum", "logs"}
  BY DEF Request
<1>4. TypeOK'
  BY <1>1, <1>2, <1>3 DEF TypeOK, tables
<1>5. Types'
  BY <1>1, <1>4 DEF Types, tables
<1>6. Asked' /\ Walked' /\ Counted'
  BY <1>1 DEF Asked, Walked, Counted
<1> QED
  BY <1>5, <1>6 DEF IInv

(* Roles with their permissions are listed without pages. *)
LEMMA RoleListStep ==
    ASSUME IInv, listRoles
    PROVE  IInv'
<1> DEFINE G == Grouped(ListRoles, ListRolePermissions)
<1>1. /\ list = "roles"
      /\ req' = [NoRequest EXCEPT !.status = 200, !.roles = G]
      /\ UNCHANGED <<list, tables, walk, seen, stay>>
  BY DEF listRoles
<1> HIDE DEF G
<1>2. req' = [pc |-> "idle", status |-> 200, num |-> 0, size |-> 0,
              inc |-> FALSE, id |-> 0, rows |-> <<>>, total |-> 0,
              roles |-> G, stats |-> <<>>, perms |-> {}]
  BY <1>1 DEF NoRequest
<1>3. /\ req' \in Request({req'.roles})
      /\ req'.pc = "idle" /\ req'.rows = <<>>
  <2>1. req' \in Request({G}) /\ req'.roles = G
    BY <1>2 DEF Request
  <2> QED
    BY <1>2, <2>1
<1>4. Tallied'
  BY <1>3 DEF Tallied
<1> QED
  BY <1>1, <1>3, <1>4, AsideStep DEF Paged

(* The dashboard starts with no number. *)
LEMMA DashboardStart ==
    ASSUME IInv, NEW perms \in SUBSET Stats, dashboardStats(perms)
    PROVE  IInv'
<1>1. /\ list = "dashboard"
      /\ req' = [NoRequest EXCEPT !.pc = "users", !.perms = perms]
      /\ UNCHANGED <<list, tables, walk, seen, stay>>
  BY DEF dashboardStats
<1>2. req' = [pc |-> "users", status |-> 0, num |-> 0, size |-> 0,
              inc |-> FALSE, id |-> 0, rows |-> <<>>, total |-> 0,
              roles |-> <<>>, stats |-> <<>>, perms |-> perms]
  BY <1>1 DEF NoRequest
<1>3. /\ req' \in Request({req'.roles})
      /\ req'.pc = "users" /\ req'.rows = <<>> /\ req'.status = 0
      /\ req'.stats = <<>>
  <2>1. req' \in Request({<<>>}) /\ req'.roles = <<>>
    BY <1>2 DEF Request
  <2> QED
    BY <1>2, <2>1
<1>4. Tallied'
  BY <1>3 DEF Tallied
<1> QED
  BY <1>1, <1>3, <1>4, AsideStep DEF Paged

(* A sequence with a number more. *)
LEMMA OneMore ==
    ASSUME NEW s \in Seq(Int), NEW value \in Int
    PROVE  /\ Append(s, value) \in Seq(Int)
           /\ Len(Append(s, value)) = Len(s) + 1
           /\ Len(s) \in Nat
OBVIOUS

(* The request with another pc and status. *)
At(pc, status) ==
    [pc |-> pc, status |-> status, num |-> req.num, size |-> req.size,
     inc |-> req.inc, id |-> req.id, rows |-> req.rows, total |-> req.total,
     roles |-> req.roles, stats |-> req.stats, perms |-> req.perms]

Appends(code, value, next) ==
    IF code \in req.perms
    THEN req' = [next EXCEPT !.stats = Append(@, value)]
    ELSE req' = next

Appended(code, value, pc, status) ==
    /\ req' \in Request({req'.roles})
    /\ req'.rows = req.rows /\ req'.pc = pc /\ req'.status = status
    /\ req'.perms = req.perms
    /\ code \in req.perms => req'.stats = Append(req.stats, value)
    /\ code \notin req.perms => req'.stats = req.stats
    /\ Len(req'.stats) =
         Len(req.stats) + (IF code \in req.perms THEN 1 ELSE 0)

(* A number is appended where the permission is held, and the request comes
   to its next query. *)
LEMMA StatStep ==
    ASSUME Types, NEW code, NEW value \in Int,
           NEW pc \in {"idle", "sum", "logs"}, NEW status \in {0, 200},
           NEW next, next = At(pc, status), Appends(code, value, next)
    PROVE  Appended(code, value, pc, status)
<1> USE DEF At, Appends, Appended
<1>1. req \in Request({req.roles})
  BY DEF Types
<1> DEFINE stats == IF code \in req.perms THEN Append(req.stats, value)
                    ELSE req.stats
<1>2. req' = [pc |-> pc, status |-> status, num |-> req.num,
              size |-> req.size, inc |-> req.inc, id |-> req.id,
              rows |-> req.rows, total |-> req.total, roles |-> req.roles,
              stats |-> stats, perms |-> req.perms]
  <2>1. CASE code \in req.perms
    BY <2>1
  <2>2. CASE code \notin req.perms
    BY <2>2
  <2> QED
    BY <2>1, <2>2
<1>3. req.stats \in Seq(Int) /\ req.inc \in BOOLEAN
  BY <1>1 DEF Request
<1>4. /\ stats \in Seq(Int)
      /\ Len(stats) = Len(req.stats) + (IF code \in req.perms THEN 1 ELSE 0)
  <2>1. /\ Append(req.stats, value) \in Seq(Int)
        /\ Len(Append(req.stats, value)) = Len(req.stats) + 1
        /\ Len(req.stats) \in Nat
    BY <1>3, OneMore
  <2>2. CASE code \in req.perms
    BY <2>1, <2>2
  <2>3. CASE code \notin req.perms
    BY <1>3, <2>1, <2>3
  <2> QED
    BY <2>2, <2>3
<1> HIDE DEF stats
<1>5. req' \in Request({req.roles})
  BY <1>1, <1>2, <1>3, <1>4 DEF Request
<1>6. /\ req'.roles = req.roles /\ req'.rows = req.rows /\ req'.pc = pc
      /\ req'.status = status /\ req'.perms = req.perms /\ req'.stats = stats
  BY <1>2
<1>7. req' \in Request({req'.roles})
  BY <1>5, <1>6
<1>8. /\ code \in req.perms => stats = Append(req.stats, value)
      /\ code \notin req.perms => stats = req.stats
  BY DEF stats
<1> QED
  BY <1>4, <1>6, <1>7, <1>8

(* The number of users, if asked for. *)
LEMMA StatUsersStep ==
    ASSUME IInv, StatUsers
    PROVE  IInv'
<1>1. /\ req.pc = "users" /\ Types /\ list = "dashboard" /\ req.status = 0
      /\ req.stats = <<>> /\ req.perms \in SUBSET Stats
  BY DEF StatUsers, IInv, Types, Asked, Tallied, Request
<1>2. PICK next : next = [req EXCEPT !.pc = "sum"]
  OBVIOUS
<1>3. next = At("sum", 0)
  <2>1. req \in Request({req.roles})
    BY <1>1 DEF Types
  <2>2. next = At("sum", req.status)
    BY <1>2, <2>1 DEF Request, At
  <2> QED
    BY <1>1, <2>2
<1>4. CountUsers(FALSE) \in Int
  <2>1. \A S \in SUBSET present : Cardinality(S) \in Nat
    BY <1>1, Finite
  <2> QED
    BY <2>1 DEF CountUsers
<1> DEFINE value == CountUsers(FALSE)
<1>5. /\ Appends("user:read", value, next)
      /\ UNCHANGED <<list, tables, walk, seen, stay>>
  BY <1>2 DEF StatUsers, Stat, Appends
<1> HIDE DEF value
<1>6. value \in Int
  BY <1>4 DEF value
<1>7. /\ req' \in Request({req'.roles})
      /\ req'.rows = req.rows /\ req'.pc = "sum" /\ req'.status = 0
      /\ req'.perms = req.perms
      /\ Len(req'.stats) =
           Len(req.stats) + (IF "user:read" \in req.perms THEN 1 ELSE 0)
  <2>1. Appended("user:read", value, "sum", 0)
    BY <1>1, <1>3, <1>5, <1>6, StatStep
  <2> QED
    BY <2>1 DEF Appended
<1>8. Cardinality(req.perms \cap {"user:read"}) =
        IF "user:read" \in req.perms THEN 1 ELSE 0
  BY <1>1, Tallies
<1>9. Tallied'
  BY <1>1, <1>7, <1>8 DEF Tallied
<1> QED
  BY <1>1, <1>5, <1>7, <1>9, AsideStep DEF Paged

(* The sum of the balances is appended where it is asked for, unless it is too
   large. *)
LEMMA WalletStat ==
    ASSUME IInv, StatWallets,
           ~("wallet:read" \in req.perms /\ SumWalletBalances > MaxInt64)
    PROVE  /\ Appended("wallet:read", SumWalletBalances, "logs", 0)
           /\ UNCHANGED <<list, tables, walk, seen, stay>>
<1>1. req.pc = "sum" /\ Types /\ req.status = 0
  BY DEF StatWallets, IInv, Types, Asked
<1>2. PICK next : next = [req EXCEPT !.pc = "logs"]
  OBVIOUS
<1>3. next = At("logs", 0)
  <2>1. req \in Request({req.roles})
    BY <1>1 DEF Types
  <2>2. next = At("logs", req.status)
    BY <1>2, <2>1 DEF Request, At
  <2> QED
    BY <1>1, <2>2
<1>4. SumWalletBalances \in Int
  BY <1>1, SumType
<1>5. /\ Appends("wallet:read", SumWalletBalances, next)
      /\ UNCHANGED <<list, tables, walk, seen, stay>>
  BY <1>2 DEF StatWallets, Stat, Appends
<1> QED
  BY <1>1, <1>3, <1>4, <1>5, StatStep

(* The sum of the balances, if asked for; one that is too large ends the
   request with an error. *)
LEMMA StatWalletsStep ==
    ASSUME IInv, StatWallets
    PROVE  IInv'
<1>1. CASE "wallet:read" \in req.perms /\ SumWalletBalances > MaxInt64
  BY <1>1, FailedStep DEF StatWallets
<1>2. CASE ~("wallet:read" \in req.perms /\ SumWalletBalances > MaxInt64)
  <2>1. /\ list = "dashboard" /\ req.perms \in SUBSET Stats
        /\ Len(req.stats) = Cardinality(req.perms \cap {"user:read"})
    BY DEF StatWallets, IInv, Types, Asked, Tallied, Request
  <2>2. /\ Appended("wallet:read", SumWalletBalances, "logs", 0)
        /\ UNCHANGED <<list, tables, walk, seen, stay>>
    BY <1>2, WalletStat
  <2>3. /\ req' \in Request({req'.roles})
        /\ req'.rows = req.rows /\ req'.pc = "logs" /\ req'.status = 0
        /\ req'.perms = req.perms
        /\ Len(req'.stats) =
             Len(req.stats) + (IF "wallet:read" \in req.perms THEN 1 ELSE 0)
    BY <2>2 DEF Appended
  <2>4. Cardinality(req.perms \cap {"user:read", "wallet:read"}) =
          Cardinality(req.perms \cap {"user:read"}) +
            (IF "wallet:read" \in req.perms THEN 1 ELSE 0)
    BY <2>1, Tallies
  <2>5. Tallied'
    BY <2>1, <2>3, <2>4 DEF Tallied
  <2> QED
    BY <2>1, <2>2, <2>3, <2>5, AsideStep DEF Paged
<1> QED
  BY <1>1, <1>2

(* What the last query of the dashboard leaves. *)
LEMMA LastStat ==
    ASSUME IInv, StatLogs
    PROVE  /\ req' \in Request({req'.roles})
           /\ req'.rows = req.rows /\ req'.pc = "idle"
           /\ req'.perms = req.perms
           /\ Len(req'.stats) = Cardinality(req.perms)
           /\ list = "dashboard" /\ UNCHANGED <<list, tables, walk, seen, stay>>
<1>1. /\ req.pc = "logs" /\ Types /\ list = "dashboard"
      /\ Len(req.stats) = Cardinality(req.perms \cap {"user:read", "wallet:read"})
      /\ req.perms \in SUBSET Stats
  BY DEF StatLogs, IInv, Types, Asked, Tallied, Request
<1>2. PICK next : next = [req EXCEPT !.pc = "idle", !.status = 200]
  OBVIOUS
<1>3. next = At("idle", 200)
  <2>1. PICK q \in Request({req.roles}) : q = req
    BY <1>1 DEF Types
  <2>2. q = [pc |-> q.pc, status |-> q.status, num |-> q.num,
             size |-> q.size, inc |-> q.inc, id |-> q.id, rows |-> q.rows,
             total |-> q.total, roles |-> q.roles, stats |-> q.stats,
             perms |-> q.perms]
    BY DEF Request
  <2>3. next = [q EXCEPT !.pc = "idle", !.status = 200]
    BY <1>2, <2>1, Zenon
  <2>4. next = [pc |-> "idle", status |-> 200, num |-> q.num, size |-> q.size,
                inc |-> q.inc, id |-> q.id, rows |-> q.rows, total |-> q.total,
                roles |-> q.roles, stats |-> q.stats, perms |-> q.perms]
    BY <2>2, <2>3
  <2> QED
    BY <2>1, <2>4, Zenon DEF At
<1>4. today \in Int
  BY <1>1 DEF Types
<1>5. /\ Appends("operation_log:read", today, next)
      /\ UNCHANGED <<list, tables, walk, seen, stay>>
  BY <1>2 DEF StatLogs, Stat, Appends, CountOperationLogsSince
<1>6. /\ req' \in Request({req'.roles})
      /\ req'.rows = req.rows /\ req'.pc = "idle"
      /\ req'.perms = req.perms
      /\ Len(req'.stats) = Len(req.stats) +
           (IF "operation_log:read" \in req.perms THEN 1 ELSE 0)
  <2>1. Appended("operation_log:read", today, "idle", 200)
    BY <1>1, <1>3, <1>4, <1>5, StatStep
  <2> QED
    BY <2>1 DEF Appended
<1>7. Cardinality(req.perms) =
        Cardinality(req.perms \cap {"user:read", "wallet:read"}) +
          (IF "operation_log:read" \in req.perms THEN 1 ELSE 0)
  BY <1>1, Tallies
<1>8. Len(req'.stats) = Cardinality(req.perms)
  BY <1>1, <1>6, <1>7
<1> QED
  BY <1>1, <1>5, <1>6, <1>8

(* Today's operations, if asked for. *)
LEMMA StatLogsStep ==
    ASSUME IInv, StatLogs
    PROVE  IInv'
<1>1. /\ req' \in Request({req'.roles})
      /\ req'.rows = req.rows /\ req'.pc = "idle"
      /\ list = "dashboard" /\ UNCHANGED <<list, tables, walk, seen, stay>>
  BY LastStat
<1>2. Tallied'
  BY <1>1 DEF Tallied
<1> QED
  BY <1>1, <1>2, AsideStep DEF Paged

(* Each listing asks for its rows. *)
LEMMA ListStep ==
    ASSUME IInv, NEW num \in Int, NEW size \in Int,
           \/ Refuse(num, size)
           \/ \E inc \in BOOLEAN :
                listUsers(num, size, inc) \/ listAdminUsers(num, size, inc)
           \/ listWallets(num, size) \/ listWalletEntries(num, size)
           \/ listOperationLogs(num, size)
    PROVE  IInv'
<1>1. CASE Refuse(num, size)
  BY <1>1, FailedStep DEF Refuse
<1>2. ASSUME NEW inc \in BOOLEAN, NEW S \in SUBSET present,
             list \in Paged, Steady' => S = present,
             FetchPage(S, num, size, inc)
      PROVE  IInv'
  BY <1>2, FetchStep
<1>3. ASSUME NEW inc \in BOOLEAN, NEW S, FetchPage(S, num, size, inc),
             list \in {"users", "admins"}, Steady'
      PROVE  inc
  <2>1. CASE Offset(num, size) < 0
    <3>1. req' = [NoRequest EXCEPT !.status = 500] /\ list' = list
      BY <1>3, <2>1 DEF FetchPage, Failed
    <3>2. req'.inc = FALSE
      BY <3>1 DEF NoRequest
    <3> QED
      BY <1>3, <3>1, <3>2 DEF Steady
  <2>2. CASE ~(Offset(num, size) < 0)
    <3>1. req'.inc = inc /\ list' = list
      BY <1>3, <2>2 DEF FetchPage, NoRequest
    <3> QED
      BY <1>3, <3>1 DEF Steady
  <2> QED
    BY <2>1, <2>2
<1>4. CASE \E inc \in BOOLEAN :
             listUsers(num, size, inc) \/ listAdminUsers(num, size, inc)
  <2>1. PICK inc \in BOOLEAN :
          listUsers(num, size, inc) \/ listAdminUsers(num, size, inc)
    BY <1>4
  <2> DEFINE S == {x \in present : inc \/ x \notin gone}
  <2>2. FetchPage(S, num, size, inc) /\ list \in {"users", "admins"}
    BY <2>1 DEF listUsers, listAdminUsers, ListUsers, ListAdminUsers
  <2>3. S \in SUBSET present /\ (inc => S = present)
    OBVIOUS
  <2> HIDE DEF S
  <2>4. Steady' => S = present
    BY <1>3, <2>2, <2>3
  <2> QED
    BY <1>2, <2>2, <2>3, <2>4 DEF Paged
<1>5. CASE listWallets(num, size)
  <2> DEFINE S == {x \in present : x \notin gone}
  <2>1. FetchPage(S, num, size, FALSE) /\ list = "wallets"
    BY <1>5 DEF listWallets, ListWallets
  <2>2. S \in SUBSET present
    OBVIOUS
  <2> HIDE DEF S
  <2>3. list' = list
    BY <2>1 DEF FetchPage, Failed
  <2>4. ~Steady'
    BY <2>1, <2>3 DEF Steady
  <2> QED
    BY <1>2, <2>1, <2>2, <2>4 DEF Paged
<1>6. CASE listWalletEntries(num, size)
  <2>1. FetchPage(present, num, size, FALSE) /\ list = "entries"
    BY <1>6 DEF listWalletEntries, ListWalletEntries
  <2> QED
    BY <1>2, <2>1 DEF Paged
<1>7. CASE listOperationLogs(num, size)
  <2>1. FetchPage(present, num, size, FALSE) /\ list = "logs"
    BY <1>7 DEF listOperationLogs, ListOperationLogs
  <2> QED
    BY <1>2, <2>1 DEF Paged
<1> QED
  BY <1>1, <1>4, <1>5, <1>6, <1>7

(* Every reader's step keeps the invariant. *)
LEMMA ReadStep ==
    ASSUME IInv, Read
    PROVE  IInv'
<1>1. CASE \E num \in PageNums, size \in PageSizes :
             \/ Refuse(num, size)
             \/ \E inc \in BOOLEAN :
                  listUsers(num, size, inc) \/ listAdminUsers(num, size, inc)
             \/ listWallets(num, size) \/ listWalletEntries(num, size)
             \/ listOperationLogs(num, size)
  <2>1. PageNums \subseteq Int /\ PageSizes \subseteq Int
    BY BoundsAssumption
  <2> QED
    BY <1>1, <2>1, ListStep
<1>2. CASE \E id \in 0..MaxId : getUser(id) \/ getWallet(id)
  <2>1. PICK id \in 0..MaxId : getUser(id) \/ getWallet(id)
    BY <1>2
  <2>2. id \in Int
    BY BoundsAssumption
  <2> QED
    BY <2>1, <2>2, LookupStep
<1>3. CASE \E perms \in SUBSET Stats : dashboardStats(perms)
  BY <1>3, DashboardStart
<1>4. CASE QueryFails
  BY <1>4, FailedStep DEF QueryFails
<1> QED
  BY <1>1, <1>2, <1>3, <1>4, CountStep, RolesStep, RoleListStep,
     StatUsersStep, StatWalletsStep, StatLogsStep DEF Read

(* The invariant is inductive. *)
LEMMA InvStep == IInv /\ [Next]_vars => IInv'
<1> SUFFICES ASSUME IInv, [Next]_vars PROVE IInv'
  OBVIOUS
<1>1. CASE Next
  BY <1>1, ReadStep, WriteStep DEF Next
<1>2. CASE UNCHANGED vars
  <2>1. /\ UNCHANGED <<list, present, used, gone, roles, balance, today>>
        /\ UNCHANGED <<req, walk, seen, stay>>
    BY <1>2 DEF vars, tables, reader
  <2>2. Types
    BY DEF IInv
  <2>3. Types'
    BY <2>1, <2>2 DEF Types, TypeOK, Request
  <2>4. \A x : Before(x, present)' = Before(x, present)
    BY <2>1, SamePlaces
  <2>5. Counts
    BY <2>2, Countable
  <2> QED
    BY <2>1, <2>3, <2>4, <2>5, QuietStep DEF SameRequest, Counts
<1> QED
  BY <1>1, <1>2

(* The invariant holds all the time. *)
LEMMA InvHolds == Spec => []IInv
BY InvInit, InvStep, PTL DEF Spec

-----------------------------------------------------------------------------
(* What follows from it. *)

(* Types, and totals that cover the page they come with: whatever is written
   between the query of the page and the query of the total, the total does
   not fall short of the rows shown. *)
THEOREM Pages == Spec => []PagesInv
<1>1. IInv => PagesInv
  <2> SUFFICES ASSUME IInv PROVE TypeOK /\ TotalCoversPage
    BY DEF PagesInv
  <2>1. TypeOK
    BY DEF IInv, Types
  <2>2. TotalCoversPage
    <3> SUFFICES ASSUME Steady, list # "logs", req.rows # <<>>, req.pc = "idle"
                 PROVE  req.total >= Offset(req.num, req.size) + Len(req.rows)
      BY DEF TotalCoversPage
    <3>1. Offset(req.num, req.size) + Len(req.rows) <= req.total
      BY DEF IInv, Counted
    <3> QED
      BY <3>1
  <2> QED
    BY <2>1, <2>2
<1> QED
  BY <1>1, InvHolds, PTL

(* Whoever reads a listing page by page to its end has seen every row that
   was there all the time, whatever the writers did meanwhile. *)
THEOREM NothingMissed == Spec => []NothingSkipped
<1>1. IInv => NothingSkipped
  <2> SUFFICES ASSUME IInv, Steady, req.pc = "idle", walk > 0, walk = req.num,
                      walk * req.size >= req.total
               PROVE  stay \subseteq seen
    BY DEF NothingSkipped
  <2>1. walk # 0
    BY DEF IInv, Types
  <2>2. SeenAll(seen)
    BY <2>1 DEF IInv, Walked
  <2> QED
    BY <2>2 DEF SeenAll
<1> QED
  BY <1>1, InvHolds, PTL

(* Steps that give none of the answers AnswersRight speaks of. *)
Silent ==
    /\ req.pc = "idle" => req'.pc # "count"
    /\ req.pc = "roles" => req'.status # 200
    /\ req.pc = "sum" => req'.pc # "logs"
    /\ req.pc = "logs" => req'.status # 200

(* The rows of a listing that match the condition. *)
Matching(inc) == {x \in present : inc \/ x \notin gone}

(* An error is none of these answers. *)
LEMMA FailedSilent ==
    ASSUME NEW code \in {400, 500}, Failed(code)
    PROVE  Silent
<1>1. req' = [NoRequest EXCEPT !.status = code]
  BY DEF Failed
<1>2. req'.pc = "idle" /\ req'.status = code
  BY <1>1 DEF NoRequest
<1> QED
  BY <1>2 DEF Silent

(* The first query of a listing asks for the rows that match. *)
LEMMA ListAsks ==
    ASSUME IInv, NEW num \in Int, NEW size \in Int,
           \/ Refuse(num, size)
           \/ \E inc \in BOOLEAN :
                listUsers(num, size, inc) \/ listAdminUsers(num, size, inc)
           \/ listWallets(num, size) \/ listWalletEntries(num, size)
           \/ listOperationLogs(num, size)
    PROVE  \/ Silent
           \/ \E inc \in BOOLEAN : FetchPage(Matching(inc), num, size, inc)
<1>1. CASE Refuse(num, size)
  BY <1>1, FailedSilent DEF Refuse
<1>2. CASE \E inc \in BOOLEAN :
             listUsers(num, size, inc) \/ listAdminUsers(num, size, inc)
  <2>1. \E inc \in BOOLEAN : FetchPage(Matching(inc), num, size, inc)
    BY <1>2
       DEF listUsers, listAdminUsers, ListUsers, ListAdminUsers, Matching
  <2> QED
    BY <2>1
<1>3. CASE \/ listWallets(num, size) \/ listWalletEntries(num, size)
           \/ listOperationLogs(num, size)
  <2>1. list \in {"entries", "logs"} => gone = {}
    BY DEF IInv, Types
  <2>2. Matching(FALSE) = {x \in present : x \notin gone}
    BY DEF Matching
  <2>3. list \in {"entries", "logs"} => Matching(FALSE) = present
    BY <2>1, <2>2
  <2>4. FetchPage(Matching(FALSE), num, size, FALSE)
    BY <1>3, <2>2, <2>3
       DEF listWallets, listWalletEntries, listOperationLogs,
           ListWallets, ListWalletEntries, ListOperationLogs
  <2> QED
    BY <2>4
<1> QED
  BY <1>1, <1>2, <1>3

(* The steps that give answers. *)
LEMMA AnswerSteps ==
    ASSUME IInv, [Next]_vars
    PROVE  \/ Silent \/ FetchRoles \/ StatWallets \/ StatLogs
           \/ \E num, size \in Int, inc \in BOOLEAN :
                 FetchPage(Matching(inc), num, size, inc)
<1>1. CASE \E num \in PageNums, size \in PageSizes :
             \/ Refuse(num, size)
             \/ \E inc \in BOOLEAN :
                  listUsers(num, size, inc) \/ listAdminUsers(num, size, inc)
             \/ listWallets(num, size) \/ listWalletEntries(num, size)
             \/ listOperationLogs(num, size)
  <2>1. PageNums \subseteq Int /\ PageSizes \subseteq Int
    BY BoundsAssumption
  <2>2. PICK num \in Int, size \in Int :
             \/ Refuse(num, size)
             \/ \E inc \in BOOLEAN :
                  listUsers(num, size, inc) \/ listAdminUsers(num, size, inc)
             \/ listWallets(num, size) \/ listWalletEntries(num, size)
             \/ listOperationLogs(num, size)
    BY <1>1, <2>1
  <2>3. \/ Silent
        \/ \E inc \in BOOLEAN : FetchPage(Matching(inc), num, size, inc)
    BY <2>2, ListAsks
  <2> QED
    BY <2>3
<1>2. CASE CountRows
  BY <1>2 DEF CountRows, Silent
<1>3. CASE \E id \in 0..MaxId : getUser(id) \/ getWallet(id)
  <2>1. PICK id : getUser(id) \/ getWallet(id)
    BY <1>3
  <2>2. /\ req.pc = "idle" /\ req \in Request({req.roles})
        /\ req' = [req EXCEPT !.id = id, !.status = Found(id, present)]
    BY <2>1 DEF getUser, getWallet, IInv, Types
  <2>3. req'.pc = "idle"
    BY <2>2 DEF Request
  <2> QED
    BY <2>2, <2>3 DEF Silent
<1>4. CASE listRoles
  <2> DEFINE G == Grouped(ListRoles, ListRolePermissions)
  <2>1. req.pc = "idle" /\ req' = [NoRequest EXCEPT !.status = 200, !.roles = G]
    BY <1>4 DEF listRoles
  <2> HIDE DEF G
  <2>2. req'.pc = "idle"
    BY <2>1 DEF NoRequest
  <2> QED
    BY <2>1, <2>2 DEF Silent
<1>5. CASE \E perms \in SUBSET Stats : dashboardStats(perms)
  <2>1. req.pc = "idle" /\ req'.pc = "users"
    BY <1>5 DEF dashboardStats, NoRequest
  <2> QED
    BY <2>1 DEF Silent
<1>6. CASE StatUsers
  BY <1>6 DEF StatUsers, Silent
<1>7. CASE QueryFails
  BY <1>7, FailedSilent DEF QueryFails
<1>8. CASE req' = req
  BY <1>8 DEF Silent, IInv, Asked
<1>9. CASE Write
  BY <1>8, <1>9 DEF Write, Midnight, Insert, SoftDelete, Restore, Purge,
                    Adjust, ReplaceRoles, reader
<1>10. CASE UNCHANGED vars
  BY <1>8, <1>10 DEF vars, reader
<1> QED
  BY <1>1, <1>2, <1>3, <1>4, <1>5, <1>6, <1>7, <1>9, <1>10 DEF Next, Read

(* The rows whose rank among S is on the page. *)
OnPage(S, num, size) ==
    {x \in S : Cardinality(Before(x, S)) \in
                  (num - 1) * size .. num * size - 1}

(* What a first query answers is its page. *)
LEMMA PageAnswered ==
    ASSUME IInv, NEW num \in Int, NEW size \in Int, NEW inc \in BOOLEAN,
           FetchPage(Matching(inc), num, size, inc),
           req'.pc = "count", Exact(req')
    PROVE  Range(req'.rows) = OnPage(Matching(req'.inc), req'.num, req'.size)
<1> DEFINE off == Offset(num, size)
           S == Matching(inc)
           page == Slice(Sorted(list, S), off, size)
<1>1. ~(off < 0)
  <2> SUFFICES ASSUME off < 0 PROVE FALSE
    OBVIOUS
  <2>1. Failed(500)
    BY DEF FetchPage
  <2>2. req'.pc = "idle"
    BY <2>1 DEF Failed, NoRequest
  <2> QED
    BY <2>2
<1>2. ValidPage(num, size)
  BY DEF FetchPage
<1>3. num \in Nat \ {0} /\ size \in Nat
  BY <1>2, BoundsAssumption DEF ValidPage
<1>4. req'.num = num /\ req'.size = size /\ req'.inc = inc /\ req'.rows = page
  <2>1. req' = [NoRequest EXCEPT !.pc = "count", !.num = num, !.size = size,
                                 !.inc = inc, !.rows = page]
    BY <1>1 DEF FetchPage
  <2> HIDE DEF page
  <2> QED
    BY <2>1 DEF NoRequest
<1>5. S \in SUBSET Int /\ IsFiniteSet(S)
  <2>1. S \in SUBSET present
    BY DEF Matching
  <2> HIDE DEF S
  <2> QED
    BY <2>1, Finite DEF IInv
<1> DEFINE n == (num - 1) * size
<1>6. n \in Nat /\ num * size = n + size
  BY <1>3
<1>7. n < Int32Range
  BY <1>4 DEF Exact
<1>8. off = Int32(n)
  BY DEF Offset
<1> HIDE DEF off, n
<1>9. off = n
  <2>1. /\ Int32(n) \in Int
        /\ n <= MaxInt32 => Int32(n) = n
        /\ n > MaxInt32 /\ n < Int32Range => Int32(n) < 0
    BY <1>6, Overflow
  <2> QED
    BY <1>1, <1>6, <1>7, <1>8, <2>1, BoundsAssumption
<1>10. page = Slice(Sorted(list, S), off, size)
  OBVIOUS
<1> HIDE DEF page, S
<1>11. off \in Nat
  BY <1>6, <1>9
<1>12. IsPage(page, list, S, off, size)
  <2>1. size \in Nat
    BY <1>3
  <2> QED
    BY <1>5, <1>10, <1>11, <2>1, PageRows, Zenon
<1>13. Range(page) = {x \in S : Cardinality(Ahead(list, x, S)) \in
                                   off .. off + size - 1}
  BY <1>12, Zenon DEF IsPage
<1>14. \A x : Ahead(list, x, S) = Before(x, S)
  BY BeforeAhead, Zenon
<1>15. off .. off + size - 1 = (num - 1) * size .. num * size - 1
  <2>1. (num - 1) * size = off /\ num * size - 1 = off + size - 1
    BY <1>3, <1>6, <1>9, <1>11 DEF n
  <2> QED
    BY <2>1
<1>16. Range(page) = OnPage(S, num, size)
  <2> DEFINE I == off .. off + size - 1
  <2>1. Range(page) = {x \in S : Cardinality(Ahead(list, x, S)) \in I}
    BY <1>13
  <2>2. OnPage(S, num, size) = {x \in S : Cardinality(Before(x, S)) \in I}
    BY <1>15 DEF OnPage
  <2> HIDE DEF I
  <2>3. \A x : x \in Range(page) <=> x \in OnPage(S, num, size)
    BY <1>14, <2>1, <2>2
  <2> QED
    BY <2>3
<1> QED
  BY <1>4, <1>16 DEF S

(* The roles put together in memory are those of each row. *)
LEMMA RolesAnswered ==
    ASSUME Types, FetchRoles
    PROVE  req'.roles = [x \in Range(req.rows) |-> roles[x]]
<1> DEFINE G == Grouped(Range(req.rows), ListAdminUserRoles)
           K == Range(req.rows)
<1>1. K \subseteq Ids /\ roles \in [Ids -> SUBSET Roles]
  BY DEF Types, TypeOK
<1>2. req'.roles = G
  <2>1. req \in Request({req.roles})
    BY DEF Types
  <2>2. req' = [[req EXCEPT !.roles = G] EXCEPT !.pc = "idle", !.status = 200]
    BY DEF FetchRoles, Deliver
  <2> HIDE DEF G
  <2> QED
    BY <2>1, <2>2 DEF Request
<1>3. G = [k \in K |-> {p[2] : p \in {q \in ListAdminUserRoles : q[1] = k}}]
  BY DEF Grouped
<1> HIDE DEF K
<1>4. ASSUME NEW k \in K
      PROVE  {p[2] : p \in {q \in ListAdminUserRoles : q[1] = k}} = roles[k]
  <2> DEFINE R == {p[2] : p \in {q \in ListAdminUserRoles : q[1] = k}}
  <2>1. \A q \in ListAdminUserRoles : q[1] = k => q[2] \in roles[k]
    BY DEF ListAdminUserRoles
  <2>2. R \subseteq roles[k]
    BY <2>1
  <2>3. ASSUME NEW r \in roles[k] PROVE r \in R
    <3>1. <<k, r>> \in Ids \X Roles
      BY <1>1
    <3>2. <<k, r>> \in ListAdminUserRoles
      BY <3>1 DEF ListAdminUserRoles
    <3> QED
      BY <3>2
  <2> HIDE DEF R
  <2>4. R = roles[k]
    BY <2>2, <2>3
  <2> QED
    BY <2>4 DEF R
<1>5. G = [x \in K |-> roles[x]]
  BY <1>3, <1>4
<1> QED
  BY <1>2, <1>5 DEF K

(* The sum the dashboard shows is the sum of the balances. *)
LEMMA SumAnswered ==
    ASSUME IInv, StatWallets, req'.pc = "logs", "wallet:read" \in req.perms
    PROVE  req'.stats[Len(req'.stats)] =
             FoldSet(LAMBDA x, s : s + balance[x], 0, present \ gone)
<1>1. ~(SumWalletBalances > MaxInt64)
  <2> SUFFICES ASSUME SumWalletBalances > MaxInt64 PROVE FALSE
    OBVIOUS
  <2>1. Failed(500)
    BY DEF StatWallets
  <2>2. req'.pc = "idle"
    BY <2>1 DEF Failed, NoRequest
  <2> QED
    BY <2>2
<1>2. Appended("wallet:read", SumWalletBalances, "logs", 0)
  BY <1>1, WalletStat
<1> DEFINE V == SumWalletBalances
<1>3. /\ req'.stats = Append(req.stats, V)
      /\ req.stats \in Seq(Int) /\ V \in Int
  BY <1>2, SumType DEF Appended, IInv, Types, Request
<1> HIDE DEF V
<1>4. req'.stats[Len(req'.stats)] = V
  BY <1>3
<1>5. /\ IsFiniteSet(present \ gone) /\ present \subseteq Ids
      /\ balance \in [Ids -> Nat]
  BY Finite DEF IInv, Types, TypeOK
<1>6. Weights(balance, present \ gone)
  BY <1>5 DEF Weights
<1>7. Fold(balance, present \ gone) = Sum(balance, present \ gone)
  BY <1>5, <1>6, Sums
<1>8. V = Fold(balance, present \ gone)
  BY <1>7 DEF V, Sum, SumWalletBalances
<1> QED
  BY <1>4, <1>8 DEF Fold

(* The three parts of AnswersRight as steps. *)
PageStepRight ==
    req.pc = "idle" /\ req'.pc = "count" /\ Exact(req') =>
      Range(req'.rows) =
         LET S == {x \in present : req'.inc \/ x \notin gone}
         IN {x \in S : Cardinality(Before(x, S)) \in
                 (req'.num - 1) * req'.size .. req'.num * req'.size - 1}

RolesStepRight ==
    req.pc = "roles" /\ req'.status = 200 =>
      req'.roles = [x \in Range(req.rows) |-> roles[x]]

DashboardStepRight ==
    list = "dashboard" =>
      /\ req.pc = "sum" /\ req'.pc = "logs" /\ "wallet:read" \in req.perms
           => req'.stats[Len(req'.stats)] =
                FoldSet(LAMBDA x, s : s + balance[x], 0, present \ gone)
      /\ req.pc = "logs" /\ req'.status = 200
           => Len(req'.stats) = Cardinality(req.perms)

(* Every step answers rightly, if it answers. *)
LEMMA StepsRight ==
    ASSUME IInv, [Next]_vars
    PROVE  PageStepRight /\ RolesStepRight /\ DashboardStepRight
<1>1. CASE Silent
  BY <1>1 DEF Silent, PageStepRight, RolesStepRight, DashboardStepRight
<1>2. CASE FetchRoles
  <2>1. req.pc = "roles" /\ Types
    BY <1>2 DEF FetchRoles, IInv
  <2>2. req'.roles = [x \in Range(req.rows) |-> roles[x]]
    BY <1>2, <2>1, RolesAnswered
  <2>3. RolesStepRight
    BY <2>2 DEF RolesStepRight
  <2>4. PageStepRight /\ DashboardStepRight
    BY <2>1 DEF PageStepRight, DashboardStepRight
  <2> QED
    BY <2>3, <2>4
<1>3. CASE StatWallets
  <2>1. req.pc = "sum"
    BY <1>3 DEF StatWallets
  <2>2. req'.pc = "logs" /\ "wallet:read" \in req.perms =>
          req'.stats[Len(req'.stats)] =
            FoldSet(LAMBDA x, s : s + balance[x], 0, present \ gone)
    BY <1>3, SumAnswered, Zenon
  <2>3. DashboardStepRight
    BY <2>1, <2>2, Zenon DEF DashboardStepRight
  <2>4. PageStepRight /\ RolesStepRight
    BY <2>1 DEF PageStepRight, RolesStepRight
  <2> QED
    BY <2>3, <2>4
<1>4. CASE StatLogs
  <2>1. req.pc = "logs"
    BY <1>4 DEF StatLogs
  <2>2. Len(req'.stats) = Cardinality(req.perms)
    BY <1>4, LastStat
  <2>3. PageStepRight /\ RolesStepRight /\ DashboardStepRight
    BY <2>1, <2>2 DEF PageStepRight, RolesStepRight, DashboardStepRight
  <2> QED
    BY <2>3
<1>5. ASSUME NEW num \in Int, NEW size \in Int, NEW inc \in BOOLEAN,
             FetchPage(Matching(inc), num, size, inc)
      PROVE  PageStepRight /\ RolesStepRight /\ DashboardStepRight
  <2>1. req.pc = "idle"
    BY <1>5 DEF FetchPage
  <2>2. req'.pc = "count" /\ Exact(req') =>
          Range(req'.rows) = OnPage(Matching(req'.inc), req'.num, req'.size)
    BY <1>5, PageAnswered, Zenon
  <2>3. PageStepRight
    BY <2>2, Zenon DEF PageStepRight, OnPage, Matching
  <2>4. RolesStepRight /\ DashboardStepRight
    BY <2>1 DEF RolesStepRight, DashboardStepRight
  <2> QED
    BY <2>3, <2>4
<1> QED
  BY <1>1, <1>2, <1>3, <1>4, <1>5, AnswerSteps

(* Pages hold the rows of their rank, admin users come with their roles, and
   the dashboard answers each permission with its number, whatever happens
   between the queries of a request. *)
THEOREM Answers == Spec => AnswersRight
<1>1. /\ Spec => [][PageStepRight]_vars
      /\ Spec => [][RolesStepRight]_vars
      /\ Spec => [][DashboardStepRight]_vars
  BY StepsRight, InvHolds, PTL DEF Spec
<1>2. PageRight <=> [][PageStepRight]_vars
  BY DEF PageRight, PageStepRight
<1>3. RolesShownRight <=> [][RolesStepRight]_vars
  BY DEF RolesShownRight, RolesStepRight
<1>4. DashboardRight <=> [][DashboardStepRight]_vars
  BY DEF DashboardRight, DashboardStepRight
<1> QED
  BY <1>1, <1>2, <1>3, <1>4, PTL DEF AnswersRight

=============================================================================
