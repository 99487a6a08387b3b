---------------------------- MODULE UsbHost_proofs ----------------------------
(***************************************************************************)
(* Theorems about UsbHost and Hid, for every value of their constants, and *)
(* about Relay, which models one of the tasks that serve_device starts.    *)
(*                                                                         *)
(* What the recursive functions of Hid compute is proved by looking for    *)
(* the least place at which they would compute something else (Least).     *)
(***************************************************************************)
EXTENDS UsbHost, Relay, SequenceTheorems, FiniteSetTheorems, WellFoundedInduction, TLAPS

-----------------------------------------------------------------------------
(* Recursive functions over the naturals *)

\* Every set of naturals that is not empty has a least member,
LEMMA Least ==
  ASSUME NEW T \in SUBSET Nat, T # {}
  PROVE  \E m \in T : \A k \in T : m <= k
  <1> DEFINE R == OpToRel(<, Nat)
  <1>1. IsWellFoundedOn(R, Nat)
    BY NatLessThanWellFounded, Zenon
  <1>2. \A x, y \in Nat : x < y => <<x, y>> \in R
    BY DEF OpToRel
  <1> HIDE DEF R
  <1>3. PICK m \in T : \A k \in T : ~(<<k, m>> \in R)
    BY <1>1, WFMin, Zenon
  <1>4. ASSUME NEW k \in T PROVE m <= k
    <2>1. k \in Nat /\ m \in Nat /\ ~(k < m)
      BY <1>2, <1>3
    <2> QED BY <2>1
  <1> QED BY <1>4

\* and what holds at 0 and at the next of every place it holds at holds up to n.
LEMMA UpTo ==
  ASSUME NEW n \in Nat, NEW T, 0 \in T, \A k \in 0..(n - 1) : k \in T => k + 1 \in T
  PROVE  \A k \in 0..n : k \in T
  <1> DEFINE missing == {k \in 0..n : k \notin T}
  <1> SUFFICES ASSUME missing # {} PROVE FALSE
    BY Zenon
  <1>1. missing \in SUBSET Nat
    OBVIOUS
  <1>2. PICK m \in missing : \A k \in missing : m <= k
    <2> HIDE DEF missing
    <2> QED BY <1>1, Least, Zenon
  <1>3. m \in 1..n /\ m - 1 \in 0..(n - 1)
    OBVIOUS
  <1>4. m - 1 \in T
    BY <1>2, <1>3
  <1> QED BY <1>3, <1>4

\* What Finder is: its recursive function exists, and obeys its equation.
LEMMA FinderDef ==
  ASSUME NEW conf, NEW N \in Nat, Len(conf) = N
  PROVE  /\ Finder(conf)[0] = [ifaces |-> <<>>, current |-> 0]
         /\ \A n \in 0..(N - 1) :
              Finder(conf)[n + 1] = Visit(Finder(conf)[n], conf[n + 1])
  <1> DEFINE start == [ifaces |-> <<>>, current |-> 0]
             After(f, n) == IF n = 0 THEN start ELSE Visit(f[n - 1], conf[n])
             T == {n \in 0..N : \E f : f = [k \in 0..n |-> After(f, k)]}
  <1>1. 0 \in T
    <2> DEFINE f == [k \in 0..0 |-> start]
    <2>1. f = [k \in 0..0 |-> After(f, k)] /\ 0 \in 0..N
      OBVIOUS
    <2> HIDE DEF f, After
    <2> QED BY <2>1
  <1>2. ASSUME NEW n \in 0..(N - 1), n \in T PROVE n + 1 \in T
    <2>1. PICK f : f = [k \in 0..n |-> After(f, k)]
      BY <1>2
    <2> DEFINE g == [k \in 0..(n + 1) |-> IF k = n + 1 THEN Visit(f[n], conf[n + 1]) ELSE f[k]]
    <2>2. ASSUME NEW k \in 0..(n + 1) PROVE g[k] = After(g, k)
      <3>1. CASE k = n + 1
        BY <3>1
      <3>2. CASE k \in 0..n
        <4>1. f[k] = After(f, k)
          BY <2>1, <3>2
        <4>2. g[k] = f[k] /\ (k # 0 => g[k - 1] = f[k - 1])
          BY <3>2
        <4> QED BY <4>1, <4>2
      <3> QED BY <3>1, <3>2
    <2>3. g = [k \in 0..(n + 1) |-> g[k]]
      OBVIOUS
    <2>4. g = [k \in 0..(n + 1) |-> After(g, k)]
      BY <2>2, <2>3
    <2>5. n + 1 \in 0..N
      OBVIOUS
    <2> HIDE DEF g, After
    <2> QED BY <2>4, <2>5
  <1>3. N \in T
    <2> HIDE DEF T
    <2>1. \A k \in 0..N : k \in T
      BY <1>1, <1>2, UpTo
    <2> QED BY <2>1
  <1>4. Finder(conf) = CHOOSE f : f = [n \in 0..N |-> After(f, n)]
    BY Zenon DEF Finder
  <1>5. Finder(conf) = [n \in 0..N |-> After(Finder(conf), n)]
    BY <1>3, <1>4
  <1> HIDE DEF After
  <1>6. \A n \in 0..N : Finder(conf)[n] = After(Finder(conf), n)
    BY <1>5
  <1> QED BY <1>6 DEF After

-----------------------------------------------------------------------------
(* find_interfaces: the places of the interfaces *)

\* The HID interfaces among the first n descriptors, and how many they are.
HidUpTo(conf, n) == {j \in HidAt(conf) : j <= n}
Rank(conf, n) == Cardinality(HidUpTo(conf, n))

\* What comes next belongs to the interface at i still.
Within(conf, i, n) ==
  i \in HidAt(conf) /\ i <= n /\ \A k \in (i + 1)..n : conf[k].kind # "interface"

\* The endpoints of a direction that belong to it, among the first n descriptors,
\* and the first of them.
Ends(conf, i, dir, n) ==
  {j \in Of(conf, i) : /\ j <= n /\ conf[j].kind = "endpoint"
                         /\ conf[j].type = "interrupt" /\ conf[j].dir = dir}
FirstOf(conf, i, dir, n) ==
  IF Ends(conf, i, dir, n) = {} THEN NoEndpoint
  ELSE conf[Min(Ends(conf, i, dir, n))].addr

\* What Min and Max choose.
LEMMA MinLeast ==
  ASSUME NEW T \in SUBSET Nat, T # {}
  PROVE  Min(T) \in T /\ \A k \in T : Min(T) <= k
  <1>1. \E m \in T : \A k \in T : m <= k
    BY Least
  <1> QED BY <1>1, Zenon DEF Min

\* The fields of a descriptor.
LEMMA DescriptorType ==
  ASSUME NEW x \in Descriptor
  PROVE  /\ x.kind \in {"interface", "endpoint", "hid"}
         /\ x.kind = "interface" => x.number \in Nat
         /\ x.kind = "endpoint" => x.dir \in {"in", "out"} /\ x.addr \in Nat \ {NoEndpoint}
         /\ x.kind = "hid" => x.lens \in Seq(Nat)
  BY DEF Descriptor

\* The places of HID interfaces.
LEMMA HidAtPlaces ==
  ASSUME NEW conf \in Seq(Descriptor), NEW N \in Nat, N = Len(conf)
  PROVE  /\ HidAt(conf) \subseteq 1..N /\ DOMAIN conf = 1..N
         /\ \A n \in 0..N : IsFiniteSet(HidUpTo(conf, n)) /\ HidUpTo(conf, n) \subseteq 1..n
  <1>1. DOMAIN conf = 1..N
    BY LenProperties
  <1>2. HidAt(conf) \subseteq 1..N
    BY <1>1 DEF HidAt
  <1>3. ASSUME NEW n \in 0..N
        PROVE  IsFiniteSet(HidUpTo(conf, n)) /\ HidUpTo(conf, n) \subseteq 1..n
    <2>1. HidUpTo(conf, n) \subseteq 1..n
      BY <1>2 DEF HidUpTo
    <2>2. IsFiniteSet(1..n)
      BY FS_Interval
    <2> QED BY <2>1, <2>2, FS_Subset
  <1> QED BY <1>1, <1>2, <1>3

\* How many interfaces there are after one more descriptor.
LEMMA RankStep ==
  ASSUME NEW conf \in Seq(Descriptor), NEW N \in Nat, N = Len(conf)
  PROVE  /\ Rank(conf, 0) = 0
         /\ \A n \in 0..N : Rank(conf, n) \in Nat
         /\ \A n \in 0..(N - 1) :
              Rank(conf, n + 1) =
                IF n + 1 \in HidAt(conf) THEN Rank(conf, n) + 1 ELSE Rank(conf, n)
  <1>1. HidUpTo(conf, 0) = {}
    BY HidAtPlaces
  <1>2. \A n \in 0..N : Rank(conf, n) \in Nat
    BY HidAtPlaces, FS_CardinalityType DEF Rank
  <1>3. ASSUME NEW n \in 0..(N - 1)
        PROVE  Rank(conf, n + 1) =
                 IF n + 1 \in HidAt(conf) THEN Rank(conf, n) + 1 ELSE Rank(conf, n)
    <2>1. IsFiniteSet(HidUpTo(conf, n)) /\ n + 1 \notin HidUpTo(conf, n)
      BY HidAtPlaces DEF HidUpTo
    <2>2. CASE n + 1 \in HidAt(conf)
      <3>1. HidUpTo(conf, n + 1) = HidUpTo(conf, n) \cup {n + 1}
        BY <2>2, HidAtPlaces DEF HidUpTo
      <3> QED BY <2>1, <2>2, <3>1, FS_AddElement, Zenon DEF Rank
    <2>3. CASE n + 1 \notin HidAt(conf)
      <3>1. HidUpTo(conf, n + 1) = HidUpTo(conf, n)
        BY <2>3, HidAtPlaces DEF HidUpTo
      <3> QED BY <2>3, <3>1, Zenon DEF Rank
    <2> QED BY <2>2, <2>3, Zenon
  <1>4. Rank(conf, 0) = 0
    BY <1>1, FS_EmptySet DEF Rank
  <1> QED BY <1>2, <1>3, <1>4, Zenon

\* They grow, at the interfaces.
LEMMA RankGrows ==
  ASSUME NEW conf \in Seq(Descriptor), NEW N \in Nat, N = Len(conf),
         NEW j \in 0..N, NEW i \in 0..j
  PROVE  /\ Rank(conf, i) <= Rank(conf, j)
         /\ i < j /\ j \in HidAt(conf) => Rank(conf, i) < Rank(conf, j)
  <1>1. /\ IsFiniteSet(HidUpTo(conf, i)) /\ IsFiniteSet(HidUpTo(conf, j))
        /\ HidUpTo(conf, i) \in SUBSET HidUpTo(conf, j)
    BY HidAtPlaces DEF HidUpTo
  <1>2. Rank(conf, i) <= Rank(conf, j)
    BY <1>1, FS_Subset DEF Rank
  <1>3. ASSUME i < j, j \in HidAt(conf) PROVE Rank(conf, i) # Rank(conf, j)
    <2>1. j \in HidUpTo(conf, j) /\ j \notin HidUpTo(conf, i)
      BY <1>3 DEF HidUpTo
    <2> QED BY <1>1, <2>1, FS_Subset, Zenon DEF Rank
  <1>4. Rank(conf, i) \in Nat /\ Rank(conf, j) \in Nat
    BY RankStep
  <1> QED BY <1>2, <1>3, <1>4

\* No two interfaces have the same place.
LEMMA RankTells ==
  ASSUME NEW conf \in Seq(Descriptor), NEW i \in HidAt(conf), NEW j \in HidAt(conf),
         Rank(conf, i) = Rank(conf, j)
  PROVE  i = j
  <1> DEFINE N == Len(conf)
  <1>1. N \in Nat
    BY LenProperties
  <1> HIDE DEF N
  <1>2. i \in 1..N /\ j \in 1..N
    BY <1>1, HidAtPlaces DEF N
  <1>3. Rank(conf, i) \in Nat /\ Rank(conf, j) \in Nat
    BY <1>1, <1>2, RankStep DEF N
  <1>4. i < j => Rank(conf, i) < Rank(conf, j)
    BY <1>1, <1>2, RankGrows DEF N
  <1>5. j < i => Rank(conf, j) < Rank(conf, i)
    BY <1>1, <1>2, RankGrows DEF N
  <1> QED BY <1>2, <1>3, <1>4, <1>5

\* Whose descriptors come next, after one more of them.
LEMMA WithinStep ==
  ASSUME NEW conf \in Seq(Descriptor), NEW N \in Nat, N = Len(conf), NEW n \in 0..(N - 1),
         NEW i
  PROVE  /\ conf[n + 1].kind = "interface" =>
              (Within(conf, i, n + 1) <=> i = n + 1 /\ i \in HidAt(conf))
         /\ conf[n + 1].kind # "interface" =>
              (Within(conf, i, n + 1) <=> Within(conf, i, n)) /\ n + 1 \notin HidAt(conf)
  <1>1. HidAt(conf) \subseteq 1..N
    BY HidAtPlaces
  <1>2. n + 1 \in HidAt(conf) => conf[n + 1].kind = "interface"
    BY DEF HidAt
  <1>3. CASE i \in HidAt(conf) /\ i <= n
    <2>1. i \in 1..n
      BY <1>1, <1>3
    <2>2. (i + 1)..(n + 1) = ((i + 1)..n) \cup {n + 1}
      BY <2>1
    <2> QED BY <1>2, <1>3, <2>1, <2>2 DEF Within
  <1>4. CASE i = n + 1
    BY <1>2, <1>4 DEF Within
  <1>5. CASE i \in HidAt(conf) /\ i \notin 1..(n + 1)
    BY <1>1, <1>2, <1>5 DEF Within
  <1>6. CASE i \notin HidAt(conf)
    BY <1>2, <1>6 DEF Within
  <1> QED BY <1>1, <1>3, <1>4, <1>5, <1>6

\* Endpoints come after their interface, and their addresses are not NoEndpoint.
LEMMA EndsPlaces ==
  ASSUME NEW conf \in Seq(Descriptor), NEW N \in Nat, N = Len(conf), NEW n \in 0..N,
         NEW i \in HidAt(conf), NEW dir
  PROVE  /\ Ends(conf, i, dir, n) \in SUBSET Nat /\ Ends(conf, i, dir, n) \subseteq 1..n
         /\ FirstOf(conf, i, dir, n) = NoEndpoint <=> Ends(conf, i, dir, n) = {}
         /\ FirstOf(conf, i, dir, n) \in Nat
  <1>1. DOMAIN conf = 1..N
    BY HidAtPlaces
  <1>2. Ends(conf, i, dir, n) \in SUBSET Nat /\ Ends(conf, i, dir, n) \subseteq 1..n
    BY <1>1 DEF Ends, Of
  <1>3. CASE Ends(conf, i, dir, n) = {}
    BY <1>2, <1>3 DEF FirstOf, NoEndpoint
  <1>4. CASE Ends(conf, i, dir, n) # {}
    <2> DEFINE j == Min(Ends(conf, i, dir, n))
    <2>1. j \in Ends(conf, i, dir, n)
      BY <1>2, <1>4, MinLeast, Zenon
    <2>2. j \in 1..N /\ conf[j].kind = "endpoint"
      BY <1>1, <2>1 DEF Ends, Of
    <2>3. conf[j].addr \in Nat \ {NoEndpoint}
      <3>1. conf[j] \in Descriptor
        BY <2>2, ElementOfSeq
      <3> QED BY <2>2, <3>1, DescriptorType
    <2> QED BY <1>2, <1>4, <2>3 DEF FirstOf
  <1> QED BY <1>2, <1>3, <1>4, Zenon

\* What the next descriptor makes of the first endpoint.
LEMMA FirstStep ==
  ASSUME NEW conf \in Seq(Descriptor), NEW N \in Nat, N = Len(conf), NEW n \in 0..(N - 1),
         NEW i \in HidAt(conf), NEW dir
  PROVE  FirstOf(conf, i, dir, n + 1) =
           IF /\ Within(conf, i, n) /\ conf[n + 1].kind = "endpoint"
              /\ conf[n + 1].type = "interrupt" /\ conf[n + 1].dir = dir
              /\ FirstOf(conf, i, dir, n) = NoEndpoint
           THEN conf[n + 1].addr ELSE FirstOf(conf, i, dir, n)
  <1> DEFINE before == Ends(conf, i, dir, n)
             after == Ends(conf, i, dir, n + 1)
             new == /\ Within(conf, i, n) /\ conf[n + 1].kind = "endpoint"
                    /\ conf[n + 1].type = "interrupt" /\ conf[n + 1].dir = dir
  <1>0. DOMAIN conf = 1..N /\ i \in 1..N
    BY HidAtPlaces
  <1>1. n + 1 \in after <=> new
    <2>1. conf[n + 1].kind # "interface" =>
            (n + 1 \in Of(conf, i) <=> Within(conf, i, n))
      <3>1. n + 1 \in Of(conf, i) <=> n + 1 > i /\ \A k \in (i + 1)..(n + 1) : conf[k].kind # "interface"
        BY <1>0 DEF Of
      <3>2. i <= n => (i + 1)..(n + 1) = ((i + 1)..n) \cup {n + 1}
        BY <1>0
      <3> QED BY <1>0, <3>1, <3>2 DEF Within
    <2> QED BY <2>1 DEF Ends
  <1>2. before = {j \in after : j # n + 1} /\ before \in SUBSET Nat /\ before \subseteq 1..n
        /\ after \in SUBSET Nat /\ after \subseteq 1..(n + 1)
    <2>1. /\ before \in SUBSET Nat /\ before \subseteq 1..n
          /\ after \in SUBSET Nat /\ after \subseteq 1..(n + 1)
      BY EndsPlaces
    <2> QED BY <1>0, <2>1 DEF Ends
  <1>3. FirstOf(conf, i, dir, n) = NoEndpoint <=> before = {}
    BY EndsPlaces
  <1> HIDE DEF before, after, new
  <1>4. CASE ~new
    <2>1. after = before
      BY <1>1, <1>2, <1>4
    <2> QED BY <1>4, <2>1 DEF FirstOf, before, after, new
  <1>5. CASE new /\ before = {}
    <2>1. after = {n + 1}
      BY <1>1, <1>2, <1>5
    <2>2. Min(after) = n + 1
      BY <2>1, <1>2, MinLeast
    <2> QED BY <1>3, <1>5, <2>1, <2>2, Zenon DEF FirstOf, after, new
  <1>6. CASE new /\ before # {}
    <2>1. after # {} /\ Min(after) = Min(before)
      <3>1. Min(before) \in before /\ \A k \in before : Min(before) <= k
        BY <1>2, <1>6, MinLeast
      <3>2. after # {} /\ Min(before) \in after
        BY <1>2, <3>1
      <3>3. Min(after) \in after /\ \A k \in after : Min(after) <= k
        BY <1>2, <3>2, MinLeast
      <3>4. Min(after) \in before
        BY <1>2, <3>1, <3>2, <3>3
      <3> QED BY <1>2, <3>1, <3>2, <3>3, <3>4
    <2> QED BY <1>3, <1>6, <2>1, Zenon DEF FirstOf, before, after, new
  <1> QED BY <1>4, <1>5, <1>6, Zenon

-----------------------------------------------------------------------------
(* find_interfaces: a descriptor *)

\* What find_interfaces keeps of an interface, and what it goes through the descriptors with.
Slot == [number : Nat, report_desc_len : Nat, in : Nat, out : Nat]
FinderOK(f) ==
  /\ f \in [ifaces : Seq(Slot), current : Nat]
  /\ Len(f.ifaces) <= MAX_HID_INTERFACES /\ f.current <= Len(f.ifaces)

\* What each kind of descriptor makes of the finder.
LEMMA VisitInterface ==
  ASSUME HidAssumption, NEW f, FinderOK(f), NEW x \in Descriptor, x.kind = "interface"
  PROVE  /\ FinderOK(Visit(f, x))
         /\ IF x.class = "hid" /\ x.alt = 0 /\ Len(f.ifaces) < MAX_HID_INTERFACES
            THEN /\ Len(Visit(f, x).ifaces) = Len(f.ifaces) + 1
                 /\ Visit(f, x).current = Len(f.ifaces) + 1
                 /\ \A k \in 1..Len(f.ifaces) : Visit(f, x).ifaces[k] = f.ifaces[k]
                 /\ Visit(f, x).ifaces[Len(f.ifaces) + 1] =
                      [number |-> x.number, report_desc_len |-> 0, in |-> NoEndpoint,
                       out |-> NoEndpoint]
            ELSE Visit(f, x).ifaces = f.ifaces /\ Visit(f, x).current = 0
  <1> DEFINE n == Len(f.ifaces)
             slot == [number |-> x.number, report_desc_len |-> 0, in |-> NoEndpoint,
                      out |-> NoEndpoint]
  <1>1. Visit(f, x) = on_interface(f, x)
    BY DEF Visit
  <1>2. f.ifaces \in Seq(Slot) /\ n \in Nat /\ n <= MAX_HID_INTERFACES
    BY LenProperties DEF FinderOK
  <1>3. slot \in Slot
    BY DescriptorType DEF Slot, NoEndpoint
  <1>4. /\ Append(f.ifaces, slot) \in Seq(Slot) /\ Len(Append(f.ifaces, slot)) = n + 1
        /\ \A k \in 1..n : Append(f.ifaces, slot)[k] = f.ifaces[k]
        /\ Append(f.ifaces, slot)[n + 1] = slot
    BY <1>2, <1>3, AppendProperties
  <1>5. CASE x.class = "hid" /\ x.alt = 0 /\ n < MAX_HID_INTERFACES
    <2>1. Visit(f, x) = [ifaces |-> Append(f.ifaces, slot), current |-> n + 1]
      BY <1>1, <1>2, <1>5 DEF on_interface
    <2> HIDE DEF n, slot
    <2>2. n + 1 <= MAX_HID_INTERFACES
      BY <1>2, <1>5 DEF HidAssumption
    <2>3. /\ Visit(f, x).ifaces = Append(f.ifaces, slot) /\ Visit(f, x).current = n + 1
          /\ Visit(f, x) \in [ifaces : Seq(Slot), current : Nat]
      BY <1>2, <1>4, <2>1
    <2>4. FinderOK(Visit(f, x))
      BY <1>2, <1>4, <2>2, <2>3 DEF FinderOK
    <2> QED BY <1>4, <1>5, <2>3, <2>4, Zenon DEF n, slot
  <1>6. CASE ~(x.class = "hid" /\ x.alt = 0 /\ n < MAX_HID_INTERFACES)
    <2>1. Visit(f, x) = [f EXCEPT !.current = 0]
      BY <1>1, <1>2, <1>6 DEF on_interface, HidAssumption
    <2> QED BY <1>2, <1>6, <2>1 DEF FinderOK
  <1> QED BY <1>5, <1>6, Zenon

LEMMA VisitEndpoint ==
  ASSUME HidAssumption, NEW f, FinderOK(f), NEW x \in Descriptor, x.kind = "endpoint"
  PROVE  /\ FinderOK(Visit(f, x))
         /\ Visit(f, x).current = f.current /\ Len(Visit(f, x).ifaces) = Len(f.ifaces)
         /\ \A k \in 1..Len(f.ifaces) :
              /\ Visit(f, x).ifaces[k].number = f.ifaces[k].number
              /\ \A dir \in {"in", "out"} :
                   Visit(f, x).ifaces[k][dir] =
                     IF /\ k = f.current /\ x.type = "interrupt" /\ x.dir = dir
                        /\ f.ifaces[k][dir] = NoEndpoint
                     THEN x.addr ELSE f.ifaces[k][dir]
  <1> DEFINE n == Len(f.ifaces)
             i == f.current
  <1>1. Visit(f, x) = on_endpoint(f, x)
    BY DEF Visit
  <1>2. /\ f \in [ifaces : Seq(Slot), current : Nat] /\ f.ifaces \in Seq(Slot)
        /\ n \in Nat /\ n <= MAX_HID_INTERFACES /\ i \in 0..n
    BY LenProperties DEF FinderOK
  <1>3. x.dir \in {"in", "out"} /\ x.addr \in Nat
    BY DescriptorType
  <1>4. CASE i = 0 \/ x.type # "interrupt" \/ f.ifaces[i][x.dir] # NoEndpoint
    <2>1. Visit(f, x) = f
      BY <1>1, <1>4 DEF on_endpoint
    <2> QED BY <1>2, <1>4, <2>1
  <1>5. CASE ~(i = 0 \/ x.type # "interrupt" \/ f.ifaces[i][x.dir] # NoEndpoint)
    <2> DEFINE slot == [f.ifaces[i] EXCEPT ![x.dir] = x.addr]
               v == [f.ifaces EXCEPT ![i] = slot]
    <2>0. i \in 1..n /\ f.ifaces[i] \in Slot
      BY <1>2, <1>5, ElementOfSeq
    <2>1. Visit(f, x) = [f EXCEPT !.ifaces = v]
      BY <1>1, <1>5 DEF on_endpoint
    <2>2. /\ slot \in Slot /\ slot.number = f.ifaces[i].number
          /\ \A dir \in {"in", "out"} :
               slot[dir] = IF x.dir = dir THEN x.addr ELSE f.ifaces[i][dir]
      <3>1. CASE x.dir = "in"
        BY <1>3, <2>0, <3>1 DEF Slot
      <3>2. CASE x.dir = "out"
        BY <1>3, <2>0, <3>2 DEF Slot
      <3> QED BY <1>3, <3>1, <3>2
    <2>3. /\ v \in Seq(Slot) /\ Len(v) = n
          /\ \A k \in 1..n : v[k] = IF k = i THEN slot ELSE f.ifaces[k]
      <3> HIDE DEF slot
      <3> QED BY <1>2, <2>0, <2>2, ExceptSeq
    <2> HIDE DEF slot, v, n
    <2>4. /\ Visit(f, x).ifaces = v /\ Visit(f, x).current = i
          /\ Visit(f, x) \in [ifaces : Seq(Slot), current : Nat]
      BY <1>2, <2>1, <2>3
    <2>5. FinderOK(Visit(f, x))
      BY <1>2, <2>3, <2>4 DEF FinderOK
    <2>6. ASSUME NEW k \in 1..n
          PROVE  /\ v[k].number = f.ifaces[k].number
                 /\ \A dir \in {"in", "out"} :
                      v[k][dir] = IF /\ k = i /\ x.type = "interrupt" /\ x.dir = dir
                                     /\ f.ifaces[k][dir] = NoEndpoint
                                  THEN x.addr ELSE f.ifaces[k][dir]
      <3>1. CASE k = i
        BY <1>5, <2>2, <2>3, <3>1
      <3>2. CASE k # i
        BY <2>3, <3>2
      <3> QED BY <3>1, <3>2
    <2> QED BY <2>3, <2>4, <2>5, <2>6, Zenon DEF n
  <1> QED BY <1>4, <1>5, Zenon

LEMMA VisitHid ==
  ASSUME HidAssumption, NEW f, FinderOK(f), NEW x \in Descriptor, x.kind = "hid"
  PROVE  /\ FinderOK(Visit(f, x))
         /\ Visit(f, x).current = f.current /\ Len(Visit(f, x).ifaces) = Len(f.ifaces)
         /\ \A k \in 1..Len(f.ifaces) :
              /\ Visit(f, x).ifaces[k].number = f.ifaces[k].number
              /\ \A dir \in {"in", "out"} : Visit(f, x).ifaces[k][dir] = f.ifaces[k][dir]
  <1> DEFINE n == Len(f.ifaces)
             i == f.current
  <1>1. Visit(f, x) = on_other(f, x)
    BY DEF Visit
  <1>2. /\ f \in [ifaces : Seq(Slot), current : Nat] /\ f.ifaces \in Seq(Slot)
        /\ n \in Nat /\ n <= MAX_HID_INTERFACES /\ i \in 0..n
    BY LenProperties DEF FinderOK
  <1>3. x.lens # <<>> => Head(x.lens) \in Nat
    <2>1. x.lens \in Seq(Nat)
      BY DescriptorType
    <2> QED BY <2>1, HeadTailProperties
  <1>4. CASE i = 0 \/ x.lens = <<>>
    <2>1. Visit(f, x) = f
      BY <1>1, <1>4 DEF on_other
    <2> QED BY <1>2, <1>4, <2>1
  <1>5. CASE ~(i = 0 \/ x.lens = <<>>)
    <2> DEFINE slot == [f.ifaces[i] EXCEPT !.report_desc_len = Head(x.lens)]
               v == [f.ifaces EXCEPT ![i] = slot]
    <2>0. i \in 1..n /\ f.ifaces[i] \in Slot
      BY <1>2, <1>5, ElementOfSeq
    <2>1. Visit(f, x) = [f EXCEPT !.ifaces = v]
      BY <1>1, <1>5 DEF on_other
    <2>2. /\ slot \in Slot /\ slot.number = f.ifaces[i].number
          /\ \A dir \in {"in", "out"} : slot[dir] = f.ifaces[i][dir]
      <3> DEFINE len == Head(x.lens)
      <3>1. len \in Nat
        BY <1>3, <1>5
      <3> HIDE DEF len
      <3> QED BY <2>0, <3>1 DEF Slot, len
    <2>3. /\ v \in Seq(Slot) /\ Len(v) = n
          /\ \A k \in 1..n : v[k] = IF k = i THEN slot ELSE f.ifaces[k]
      <3> HIDE DEF slot
      <3> QED BY <1>2, <2>0, <2>2, ExceptSeq
    <2> HIDE DEF slot, v, n
    <2>4. /\ Visit(f, x).ifaces = v /\ Visit(f, x).current = i
          /\ Visit(f, x) \in [ifaces : Seq(Slot), current : Nat]
      BY <1>2, <2>1, <2>3
    <2>5. FinderOK(Visit(f, x))
      BY <1>2, <2>3, <2>4 DEF FinderOK
    <2>6. ASSUME NEW k \in 1..n
          PROVE  /\ v[k].number = f.ifaces[k].number
                 /\ \A dir \in {"in", "out"} : v[k][dir] = f.ifaces[k][dir]
      BY <2>2, <2>3
    <2> QED BY <2>3, <2>4, <2>5, <2>6, Zenon DEF n
  <1> QED BY <1>4, <1>5, Zenon

-----------------------------------------------------------------------------
(* find_interfaces: all of them *)

\* What the finder holds after the first n descriptors.
Found(conf, n, f) ==
  /\ FinderOK(f)
  /\ Len(f.ifaces) = IF Rank(conf, n) < MAX_HID_INTERFACES THEN Rank(conf, n)
                     ELSE MAX_HID_INTERFACES
  /\ \A i \in HidUpTo(conf, n) : Rank(conf, i) <= MAX_HID_INTERFACES =>
       /\ f.ifaces[Rank(conf, i)].number = conf[i].number
       /\ \A dir \in {"in", "out"} :
            f.ifaces[Rank(conf, i)][dir] = FirstOf(conf, i, dir, n)
  /\ \A i : Within(conf, i, n) /\ Rank(conf, i) <= MAX_HID_INTERFACES =>
       f.current = Rank(conf, i)
  /\ f.current # 0 => \E i : Within(conf, i, n) /\ Rank(conf, i) = f.current

\* It holds nothing to begin with.
LEMMA FoundInit ==
  ASSUME HidAssumption, NEW conf \in Seq(Descriptor)
  PROVE  Found(conf, 0, [ifaces |-> <<>>, current |-> 0])
  <1> DEFINE start == [ifaces |-> <<>>, current |-> 0]
  <1>1. start \in [ifaces : Seq(Slot), current : Nat] /\ Len(start.ifaces) = 0
    BY EmptySeq
  <1>2. start.current = 0 /\ FinderOK(start)
    BY <1>1 DEF FinderOK, HidAssumption
  <1>3. Len(conf) \in Nat
    BY LenProperties
  <1>4. Rank(conf, 0) = 0 /\ HidUpTo(conf, 0) = {}
    BY <1>3, RankStep, HidAtPlaces
  <1>5. \A i : ~Within(conf, i, 0)
    BY <1>4 DEF Within, HidUpTo
  <1> HIDE DEF start
  <1> QED BY <1>1, <1>2, <1>4, <1>5 DEF Found, HidAssumption

\* An interface that has a place has one of those filled.
LEMMA FoundPlaces ==
  ASSUME HidAssumption, NEW conf \in Seq(Descriptor), NEW N \in Nat, N = Len(conf),
         NEW n \in 0..N, NEW f, Found(conf, n, f), NEW i \in HidUpTo(conf, n),
         Rank(conf, i) <= MAX_HID_INTERFACES
  PROVE  i \in HidAt(conf) /\ i \in 1..n /\ Rank(conf, i) \in 1..Len(f.ifaces)
  <1>1. i \in HidAt(conf) /\ i \in 1..n
    BY HidAtPlaces DEF HidUpTo
  <1>2. /\ Rank(conf, 0) = 0 /\ Rank(conf, i) \in Nat /\ Rank(conf, n) \in Nat
        /\ Rank(conf, 0) < Rank(conf, i) /\ Rank(conf, i) <= Rank(conf, n)
    BY <1>1, RankStep, RankGrows
  <1> QED BY <1>1, <1>2 DEF Found, HidAssumption

\* The next descriptor makes of it what it should.
LEMMA FoundStep ==
  ASSUME HidAssumption, NEW conf \in Seq(Descriptor), NEW N \in Nat, N = Len(conf),
         NEW n \in 0..(N - 1), NEW f, Found(conf, n, f)
  PROVE  Found(conf, n + 1, Visit(f, conf[n + 1]))
  <1> DEFINE x == conf[n + 1]
             g == Visit(f, x)
             L == Len(f.ifaces)
  <1>1. x \in Descriptor /\ DOMAIN conf = 1..N /\ n \in 0..N /\ n + 1 \in 0..N
    BY ElementOfSeq, LenProperties
  <1>2. x.kind \in {"interface", "endpoint", "hid"}
    BY <1>1, DescriptorType
  <1>3. FinderOK(f)
    BY DEF Found
  <1>3a. L \in Nat /\ f.current \in Nat
    BY <1>3, LenProperties DEF FinderOK
  <1>4. n + 1 \in HidAt(conf) <=> x.kind = "interface" /\ x.class = "hid" /\ x.alt = 0
    BY <1>1 DEF HidAt
  <1>5. /\ Rank(conf, n) \in Nat /\ Rank(conf, n + 1) \in Nat
        /\ Rank(conf, n + 1) =
             IF n + 1 \in HidAt(conf) THEN Rank(conf, n) + 1 ELSE Rank(conf, n)
    BY <1>1, RankStep
  <1>6. \A i \in HidUpTo(conf, n + 1) : i \in HidUpTo(conf, n) \/ i = n + 1
    BY HidAtPlaces DEF HidUpTo
  <1>7. \A i \in HidUpTo(conf, n) : Rank(conf, i) <= MAX_HID_INTERFACES =>
          i \in HidAt(conf) /\ i \in 1..n /\ Rank(conf, i) \in 1..L
    BY <1>1, FoundPlaces
  <1>8. \A i \in HidAt(conf) : \A dir :
          FirstOf(conf, i, dir, n + 1) =
           IF /\ Within(conf, i, n) /\ x.kind = "endpoint"
              /\ x.type = "interrupt" /\ x.dir = dir
              /\ FirstOf(conf, i, dir, n) = NoEndpoint
           THEN x.addr ELSE FirstOf(conf, i, dir, n)
    BY FirstStep
  <1>9. \A i : /\ x.kind = "interface" =>
                    (Within(conf, i, n + 1) <=> i = n + 1 /\ i \in HidAt(conf))
               /\ x.kind # "interface" =>
                    (Within(conf, i, n + 1) <=> Within(conf, i, n)) /\ n + 1 \notin HidAt(conf)
    BY WithinStep
  <1> HIDE DEF x
  <1>10. CASE n + 1 \in HidAt(conf) /\ L < MAX_HID_INTERFACES
    <2>1. /\ FinderOK(g) /\ Len(g.ifaces) = L + 1 /\ g.current = L + 1
          /\ \A k \in 1..L : g.ifaces[k] = f.ifaces[k]
          /\ g.ifaces[L + 1] = [number |-> x.number, report_desc_len |-> 0,
                                in |-> NoEndpoint, out |-> NoEndpoint]
      BY <1>1, <1>3, <1>4, <1>10, VisitInterface
    <2>2. Rank(conf, n) = L /\ Rank(conf, n + 1) = L + 1
      BY <1>3a, <1>5, <1>10 DEF Found, HidAssumption
    <2>3. ASSUME NEW i \in HidUpTo(conf, n + 1), Rank(conf, i) <= MAX_HID_INTERFACES
          PROVE  /\ g.ifaces[Rank(conf, i)].number = conf[i].number
                 /\ \A dir \in {"in", "out"} :
                      g.ifaces[Rank(conf, i)][dir] = FirstOf(conf, i, dir, n + 1)
      <3>1. CASE i \in HidUpTo(conf, n)
        BY <1>4, <1>7, <1>8, <1>10, <2>1, <2>3, <3>1 DEF Found
      <3>2. CASE i = n + 1
        <4>1. ASSUME NEW dir PROVE FirstOf(conf, i, dir, n + 1) = NoEndpoint
          BY <1>1, <3>2 DEF FirstOf, Ends, Of
        <4> QED BY <2>1, <2>2, <3>2, <4>1 DEF x
      <3> QED BY <1>6, <3>1, <3>2
    <2>4. \A i : Within(conf, i, n + 1) <=> i = n + 1
      BY <1>4, <1>9, <1>10
    <2>5. Len(g.ifaces) = IF Rank(conf, n + 1) < MAX_HID_INTERFACES THEN Rank(conf, n + 1)
                     ELSE MAX_HID_INTERFACES
      BY <1>3a, <2>1, <2>2, <1>10 DEF HidAssumption
    <2> HIDE DEF g, L
    <2>6. /\ \A i : Within(conf, i, n + 1) /\ Rank(conf, i) <= MAX_HID_INTERFACES =>
               g.current = Rank(conf, i)
          /\ g.current # 0 => \E i : Within(conf, i, n + 1) /\ Rank(conf, i) = g.current
      BY <2>1, <2>2, <2>4
    <2>7. Found(conf, n + 1, g)
      BY <2>1, <2>3, <2>5, <2>6, Zenon DEF Found
    <2> QED BY <2>7 DEF g, x
  <1>11. CASE x.kind = "interface" /\ ~(n + 1 \in HidAt(conf) /\ L < MAX_HID_INTERFACES)
    <2>1. FinderOK(g) /\ g.ifaces = f.ifaces /\ g.current = 0
      BY <1>1, <1>3, <1>4, <1>11, VisitInterface
    <2>2. n + 1 \in HidAt(conf) => Rank(conf, n + 1) > MAX_HID_INTERFACES /\ L = MAX_HID_INTERFACES
      BY <1>3a, <1>5, <1>11 DEF Found, HidAssumption
    <2>3. Len(g.ifaces) = IF Rank(conf, n + 1) < MAX_HID_INTERFACES THEN Rank(conf, n + 1)
                     ELSE MAX_HID_INTERFACES
      BY <1>3a, <1>5, <2>1, <2>2 DEF Found, HidAssumption
    <2>4. ASSUME NEW i \in HidUpTo(conf, n + 1), Rank(conf, i) <= MAX_HID_INTERFACES
          PROVE  /\ g.ifaces[Rank(conf, i)].number = conf[i].number
                 /\ \A dir \in {"in", "out"} :
                      g.ifaces[Rank(conf, i)][dir] = FirstOf(conf, i, dir, n + 1)
      <3>1. i \in HidUpTo(conf, n)
        <4>1. CASE i = n + 1
          <5>1. n + 1 \in HidAt(conf)
            BY <4>1 DEF HidUpTo
          <5> QED BY <1>5, <2>2, <2>4, <4>1, <5>1 DEF HidAssumption
        <4> QED BY <1>6, <4>1
      <3> QED BY <1>7, <1>8, <1>11, <2>1, <2>4, <3>1 DEF Found
    <2>5. \A i : Within(conf, i, n + 1) => Rank(conf, i) > MAX_HID_INTERFACES
      BY <1>9, <1>11, <2>2
    <2>6. \A i : Within(conf, i, n + 1) => Rank(conf, i) \in Nat
      BY <1>5, <1>9, <1>11
    <2>7. ASSUME NEW i, Within(conf, i, n + 1), Rank(conf, i) <= MAX_HID_INTERFACES PROVE FALSE
      <3>1. Rank(conf, i) \in Nat /\ Rank(conf, i) > MAX_HID_INTERFACES
        BY <2>5, <2>6, <2>7
      <3> QED BY <2>7, <3>1 DEF HidAssumption
    <2> HIDE DEF g, L
    <2>8. Found(conf, n + 1, g)
      BY <2>1, <2>3, <2>4, <2>7, Zenon DEF Found
    <2> QED BY <2>8 DEF g, x
  <1>12. CASE x.kind # "interface"
    <2>0. /\ n + 1 \notin HidAt(conf) /\ Rank(conf, n + 1) = Rank(conf, n)
          /\ \A i : Within(conf, i, n + 1) <=> Within(conf, i, n)
      BY <1>5, <1>9, <1>12
    <2>1. HidUpTo(conf, n + 1) = HidUpTo(conf, n)
      BY <1>1, <1>6, <2>0, HidAtPlaces DEF HidUpTo
    <2>2. /\ FinderOK(g) /\ g.current = f.current /\ Len(g.ifaces) = L
          /\ \A k \in 1..L :
              /\ g.ifaces[k].number = f.ifaces[k].number
              /\ \A dir \in {"in", "out"} :
                   g.ifaces[k][dir] =
                     IF /\ x.kind = "endpoint" /\ k = f.current /\ x.type = "interrupt"
                        /\ x.dir = dir /\ f.ifaces[k][dir] = NoEndpoint
                     THEN x.addr ELSE f.ifaces[k][dir]
      <3>1. CASE x.kind = "endpoint"
        BY <1>1, <1>3, <3>1, VisitEndpoint
      <3>2. CASE x.kind = "hid"
        BY <1>1, <1>3, <3>2, VisitHid
      <3> QED BY <1>2, <1>12, <3>1, <3>2
    <2>3. ASSUME NEW i \in HidUpTo(conf, n + 1), Rank(conf, i) <= MAX_HID_INTERFACES
          PROVE  /\ g.ifaces[Rank(conf, i)].number = conf[i].number
                 /\ \A dir \in {"in", "out"} :
                      g.ifaces[Rank(conf, i)][dir] = FirstOf(conf, i, dir, n + 1)
      <3>1. i \in HidUpTo(conf, n) /\ i \in HidAt(conf) /\ Rank(conf, i) \in 1..L
        BY <1>7, <2>1, <2>3
      <3>2. Rank(conf, i) = f.current <=> Within(conf, i, n)
        <4>1. Within(conf, i, n) => f.current = Rank(conf, i)
          BY <2>3 DEF Found
        <4>2. ASSUME Rank(conf, i) = f.current PROVE Within(conf, i, n)
          <5>1. f.current # 0
            BY <3>1, <4>2
          <5>2. PICK j : Within(conf, j, n) /\ Rank(conf, j) = f.current
            BY <5>1 DEF Found
          <5>3. j \in HidAt(conf)
            BY <5>2 DEF Within
          <5>4. j = i
            BY <3>1, <4>2, <5>2, <5>3, RankTells, Zenon
          <5> QED BY <5>2, <5>4
        <4> QED BY <4>1, <4>2
      <3>3. /\ f.ifaces[Rank(conf, i)].number = conf[i].number
            /\ \A dir \in {"in", "out"} :
                 f.ifaces[Rank(conf, i)][dir] = FirstOf(conf, i, dir, n)
        BY <2>3, <3>1 DEF Found
      <3>4. ASSUME NEW dir \in {"in", "out"}
            PROVE  g.ifaces[Rank(conf, i)][dir] = FirstOf(conf, i, dir, n + 1)
        <4> DEFINE r == Rank(conf, i)
        <4>1. g.ifaces[r][dir] =
                     IF /\ x.kind = "endpoint" /\ r = f.current /\ x.type = "interrupt"
                        /\ x.dir = dir /\ f.ifaces[r][dir] = NoEndpoint
                     THEN x.addr ELSE f.ifaces[r][dir]
          BY <2>2, <3>1
        <4>2. FirstOf(conf, i, dir, n + 1) =
           IF /\ Within(conf, i, n) /\ x.kind = "endpoint"
              /\ x.type = "interrupt" /\ x.dir = dir
              /\ FirstOf(conf, i, dir, n) = NoEndpoint
           THEN x.addr ELSE FirstOf(conf, i, dir, n)
          BY <1>8, <3>1
        <4>3. f.ifaces[r][dir] = FirstOf(conf, i, dir, n)
          BY <3>3
        <4> HIDE DEF g, r
        <4> QED BY <3>2, <4>1, <4>2, <4>3 DEF r
      <3>5. g.ifaces[Rank(conf, i)].number = conf[i].number
        BY <2>2, <3>1, <3>3
      <3> QED BY <3>4, <3>5
    <2>4. Len(g.ifaces) = IF Rank(conf, n + 1) < MAX_HID_INTERFACES THEN Rank(conf, n + 1)
                     ELSE MAX_HID_INTERFACES
      BY <2>0, <2>2 DEF Found
    <2> HIDE DEF g, L
    <2>5. /\ \A i : Within(conf, i, n + 1) /\ Rank(conf, i) <= MAX_HID_INTERFACES =>
               g.current = Rank(conf, i)
          /\ g.current # 0 => \E i : Within(conf, i, n + 1) /\ Rank(conf, i) = g.current
      BY <2>0, <2>2 DEF Found
    <2>6. Found(conf, n + 1, g)
      BY <2>2, <2>3, <2>4, <2>5, Zenon DEF Found
    <2> QED BY <2>6 DEF g, x
  <1> QED BY <1>4, <1>10, <1>11, <1>12, Zenon

(***************************************************************************)
(* find_interfaces finds the HID interfaces of every configuration: the    *)
(* finder that goes through the descriptors once agrees with the reference.*)
(***************************************************************************)
THEOREM FindsInterfaces ==
  ASSUME HidAssumption, NEW conf \in Seq(Descriptor)
  PROVE  /\ Finds(find_interfaces(conf), conf)
         /\ find_interfaces(conf) \in Seq(Slot)
         /\ Len(find_interfaces(conf)) <= MAX_HID_INTERFACES
  <1> DEFINE N == Len(conf)
             T == {n \in 0..N : Found(conf, n, Finder(conf)[n])}
  <1>1. N \in Nat
    BY LenProperties
  <1>2. 0 \in T
    <2>1. Found(conf, 0, Finder(conf)[0])
      BY <1>1, FoundInit, FinderDef
    <2> QED BY <1>1, <2>1
  <1>3. ASSUME NEW n \in 0..(N - 1), n \in T PROVE n + 1 \in T
    <2>1. Finder(conf)[n + 1] = Visit(Finder(conf)[n], conf[n + 1])
      BY <1>1, FinderDef
    <2>2. Found(conf, n + 1, Visit(Finder(conf)[n], conf[n + 1]))
      BY <1>1, <1>3, FoundStep
    <2> QED BY <1>1, <2>1, <2>2
  <1>4. N \in T
    <2> HIDE DEF T
    <2>1. \A k \in 0..N : k \in T
      BY <1>1, <1>2, <1>3, UpTo
    <2> QED BY <1>1, <2>1
  <1> DEFINE found == find_interfaces(conf)
  <1>5. found = Finder(conf)[N].ifaces
    BY DEF find_interfaces
  <1>6. Found(conf, N, Finder(conf)[N])
    BY <1>4
  <1>7. found \in Seq(Slot) /\ Len(found) <= MAX_HID_INTERFACES
    BY <1>5, <1>6 DEF Found, FinderOK
  <1>8. HidUpTo(conf, N) = HidAt(conf) /\ DOMAIN conf = 1..N
    BY <1>1, HidAtPlaces DEF HidUpTo
  <1>9. Rank(conf, N) = Cardinality(HidAt(conf)) /\ Rank(conf, N) \in Nat
    BY <1>1, <1>8, RankStep DEF Rank
  <1>10. Len(found) = Min({MAX_HID_INTERFACES, Cardinality(HidAt(conf))})
    <2> DEFINE c == Cardinality(HidAt(conf))
    <2>1. {MAX_HID_INTERFACES, c} \in SUBSET Nat /\ {MAX_HID_INTERFACES, c} # {}
      BY <1>9 DEF HidAssumption
    <2>2. Min({MAX_HID_INTERFACES, c}) = IF c < MAX_HID_INTERFACES THEN c ELSE MAX_HID_INTERFACES
      <3>1. /\ Min({MAX_HID_INTERFACES, c}) \in {MAX_HID_INTERFACES, c}
            /\ \A k \in {MAX_HID_INTERFACES, c} : Min({MAX_HID_INTERFACES, c}) <= k
        BY <2>1, MinLeast, Zenon
      <3>2. c \in Nat /\ MAX_HID_INTERFACES \in Nat
        BY <1>9 DEF HidAssumption
      <3> HIDE DEF c
      <3> QED BY <3>1, <3>2
    <2> QED BY <1>5, <1>6, <1>9, <2>2 DEF Found
  <1>11. ASSUME NEW i \in HidAt(conf), Cardinality({j \in HidAt(conf) : j <= i}) <= Len(found)
         PROVE  /\ found[Cardinality({j \in HidAt(conf) : j <= i})].number = conf[i].number
                /\ \A dir \in {"in", "out"} :
                     found[Cardinality({j \in HidAt(conf) : j <= i})][dir] = FirstEndpoint(conf, i, dir)
    <2> DEFINE r == Rank(conf, i)
    <2>1. r = Cardinality({j \in HidAt(conf) : j <= i})
      BY DEF Rank, HidUpTo
    <2>2. i \in 1..N /\ r \in Nat
      <3>1. i \in 1..N
        BY <1>1, HidAtPlaces
      <3> QED BY <1>1, <3>1, RankStep
    <2>3. r <= Len(found)
      BY <1>11, <2>1
    <2>4. r <= MAX_HID_INTERFACES
      BY <1>7, <2>2, <2>3, LenProperties DEF HidAssumption
    <2>5. /\ found[r].number = conf[i].number
          /\ \A dir \in {"in", "out"} : found[r][dir] = FirstOf(conf, i, dir, N)
      BY <1>5, <1>6, <1>8, <2>4 DEF Found
    <2>6. ASSUME NEW dir PROVE FirstOf(conf, i, dir, N) = FirstEndpoint(conf, i, dir)
      <3> DEFINE some == {j \in Of(conf, i) : /\ conf[j].kind = "endpoint"
                                     /\ conf[j].type = "interrupt"
                                     /\ conf[j].dir = dir}
      <3>1. some = Ends(conf, i, dir, N)
        BY <1>1, <1>8 DEF Ends, Of
      <3> QED BY <3>1, Zenon DEF FirstOf, FirstEndpoint
    <2> QED BY <2>1, <2>5, <2>6
  <1>12. Finds(found, conf)
    BY <1>10, <1>11, Zenon DEF Finds
  <1> QED BY <1>7, <1>12

-----------------------------------------------------------------------------
(* log_report_summary: the recursive functions *)

\* What Max chooses.
LEMMA MaxGreatest ==
  ASSUME NEW n \in Nat, NEW T \in SUBSET (1..n), T # {}
  PROVE  Max(T) \in T /\ \A k \in T : k <= Max(T)
  <1> DEFINE M == {n - k : k \in T}
  <1>1. M \in SUBSET Nat /\ M # {}
    <2>1. \A k \in T : n - k \in Nat
      OBVIOUS
    <2> QED BY <2>1
  <1>2. PICK m \in M : \A k \in M : m <= k
    <2> HIDE DEF M
    <2> QED BY <1>1, Least
  <1>3. PICK t \in T : m = n - t
    BY <1>2
  <1>4. \A k \in T : k <= t
    <2> SUFFICES ASSUME NEW k \in T PROVE k <= t
      OBVIOUS
    <2>1. m <= n - k
      BY <1>2
    <2> QED BY <1>3, <2>1
  <1>5. \E t_1 \in T : \A k \in T : t_1 >= k
    BY <1>4
  <1>6. Max(T) \in T /\ \A k \in T : Max(T) >= k
    BY <1>5, Zenon DEF Max
  <1> QED BY <1>6

\* The locals of log_report_summary before the first item.
NoSummary == [g |-> DefaultGlobals, stack |-> <<>>, reports |-> <<>>]

\* What Summary and InEffect are.
LEMMA SummaryDef ==
  ASSUME NEW items, NEW N \in Nat, Len(items) = N
  PROVE  /\ Summary(items)[0] = NoSummary
         /\ \A n \in 0..(N - 1) :
              Summary(items)[n + 1] = Summarise(Summary(items)[n], items[n + 1])
  <1> DEFINE After(f, n) == IF n = 0 THEN NoSummary ELSE Summarise(f[n - 1], items[n])
             T == {n \in 0..N : \E f : f = [k \in 0..n |-> After(f, k)]}
  <1>1. 0 \in T
    <2> DEFINE f == [k \in 0..0 |-> NoSummary]
    <2>1. f = [k \in 0..0 |-> After(f, k)] /\ 0 \in 0..N
      OBVIOUS
    <2> HIDE DEF f, After
    <2> QED BY <2>1
  <1>2. ASSUME NEW n \in 0..(N - 1), n \in T PROVE n + 1 \in T
    <2>1. PICK f : f = [k \in 0..n |-> After(f, k)]
      BY <1>2
    <2> DEFINE g == [k \in 0..(n + 1) |-> IF k = n + 1 THEN Summarise(f[n], items[n + 1]) ELSE f[k]]
    <2>2. ASSUME NEW k \in 0..(n + 1) PROVE g[k] = After(g, k)
      <3>1. CASE k = n + 1
        BY <3>1
      <3>2. CASE k \in 0..n
        <4>1. f[k] = After(f, k)
          BY <2>1, <3>2
        <4>2. g[k] = f[k] /\ (k # 0 => g[k - 1] = f[k - 1])
          BY <3>2
        <4> QED BY <4>1, <4>2
      <3> QED BY <3>1, <3>2
    <2>3. g = [k \in 0..(n + 1) |-> g[k]]
      OBVIOUS
    <2>4. g = [k \in 0..(n + 1) |-> After(g, k)]
      BY <2>2, <2>3
    <2>5. n + 1 \in 0..N
      OBVIOUS
    <2> HIDE DEF g, After
    <2> QED BY <2>4, <2>5
  <1>3. N \in T
    <2> HIDE DEF T
    <2>1. \A k \in 0..N : k \in T
      BY <1>1, <1>2, UpTo
    <2> QED BY <2>1
  <1>4. Summary(items) = CHOOSE f : f = [n \in 0..N |-> After(f, n)]
    BY Zenon DEF Summary, NoSummary
  <1>5. Summary(items) = [n \in 0..N |-> After(Summary(items), n)]
    BY <1>3, <1>4
  <1> HIDE DEF After
  <1>6. \A n \in 0..N : Summary(items)[n] = After(Summary(items), n)
    BY <1>5
  <1> QED BY <1>6 DEF After

\* The Push of a Pop comes before it.
LEMMA PushBefore ==
  ASSUME NEW items, NEW p \in Nat \ {0}
  PROVE  /\ PushOf(items, p) \in 0..(p - 1)
         /\ PushOf(items, p) # 0 =>
              /\ items[PushOf(items, p)].item = "push"
              /\ Nested(items, PushOf(items, p), p - 1) = 1
              /\ \A q \in 1..(p - 1) : items[q].item = "push" /\ Nested(items, q, p - 1) = 1 =>
                   q <= PushOf(items, p)
         /\ PushOf(items, p) = 0 =>
              \A q \in 1..(p - 1) : ~(items[q].item = "push" /\ Nested(items, q, p - 1) = 1)
  <1> DEFINE open == {q \in 1..(p - 1) : items[q].item = "push" /\ Nested(items, q, p - 1) = 1}
  <1>1. PushOf(items, p) = IF open = {} THEN 0 ELSE Max(open)
    BY Zenon DEF PushOf
  <1>2. CASE open = {}
    BY <1>1, <1>2
  <1>3. CASE open # {}
    <2>1. p - 1 \in Nat /\ open \in SUBSET (1..(p - 1))
      OBVIOUS
    <2>2. Max(open) \in open /\ \A k \in open : k <= Max(open)
      <3> HIDE DEF open
      <3> QED BY <1>3, <2>1, MaxGreatest
    <2> QED BY <1>1, <1>3, <2>2
  <1> QED BY <1>2, <1>3

LEMMA InEffectDef ==
  ASSUME NEW items, NEW N \in Nat, Len(items) = N
  PROVE  /\ InEffect(items)[1] = DefaultGlobals
         /\ \A k \in 1..N :
              InEffect(items)[k + 1] =
                CASE items[k].item = "global" ->
                       [InEffect(items)[k] EXCEPT ![items[k].field] = items[k].value]
                  [] items[k].item = "pop" /\ PushOf(items, k) # 0 ->
                       InEffect(items)[PushOf(items, k)]
                  [] OTHER -> InEffect(items)[k]
  <1> DEFINE Then(f, k) ==
               LET x == items[k] IN
               CASE x.item = "global" -> [f[k] EXCEPT ![x.field] = x.value]
                 [] x.item = "pop" /\ PushOf(items, k) # 0 -> f[PushOf(items, k)]
                 [] OTHER -> f[k]
             At(f, k) == IF k = 1 THEN DefaultGlobals ELSE Then(f, k - 1)
             T == {n \in 0..N : \E f : f = [k \in 1..(n + 1) |-> At(f, k)]}
  <1>1. 0 \in T
    <2> DEFINE f == [k \in 1..1 |-> DefaultGlobals]
    <2>1. f = [k \in 1..1 |-> At(f, k)] /\ 0 \in 0..N /\ 0 + 1 = 1
      BY DEF f
    <2> HIDE DEF f, At
    <2> QED BY <2>1
  <1>2. ASSUME NEW f, NEW g, NEW k \in Nat \ {0}, \A j \in 1..k : f[j] = g[j]
        PROVE  Then(f, k) = Then(g, k)
    <2>1. PushOf(items, k) # 0 => PushOf(items, k) \in 1..k
      BY PushBefore
    <2>2. f[k] = g[k] /\ (PushOf(items, k) # 0 => f[PushOf(items, k)] = g[PushOf(items, k)])
      BY <1>2, <2>1
    <2> QED BY <2>2
  <1> HIDE DEF Then
  <1>3. ASSUME NEW n \in 0..(N - 1), n \in T PROVE n + 1 \in T
    <2>1. PICK f : f = [k \in 1..(n + 1) |-> At(f, k)]
      BY <1>3
    <2> DEFINE g == [k \in 1..(n + 2) |-> IF k = n + 2 THEN Then(f, n + 1) ELSE f[k]]
    <2>2. \A k \in 1..(n + 1) : g[k] = f[k]
      OBVIOUS
    <2>3. ASSUME NEW k \in 1..(n + 2) PROVE g[k] = At(g, k)
      <3>1. CASE k = n + 2
        <4>1. Then(f, n + 1) = Then(g, n + 1)
          <5> HIDE DEF g
          <5> QED BY <1>2, <2>2
        <4>2. g[k] = Then(f, n + 1) /\ k # 1 /\ k - 1 = n + 1
          BY <3>1
        <4> HIDE DEF g
        <4> QED BY <4>1, <4>2
      <3>2. CASE k \in 1..(n + 1)
        <4>1. f[k] = At(f, k) /\ g[k] = f[k]
          BY <2>1, <2>2, <3>2
        <4>2. k # 1 => Then(f, k - 1) = Then(g, k - 1)
          <5> HIDE DEF g
          <5> QED BY <1>2, <2>2, <3>2
        <4> HIDE DEF g
        <4> QED BY <4>1, <4>2
      <3> QED BY <3>1, <3>2
    <2>4. g = [k \in 1..(n + 2) |-> g[k]]
      OBVIOUS
    <2>5. g = [k \in 1..((n + 1) + 1) |-> At(g, k)]
      <3>1. (n + 1) + 1 = n + 2
        OBVIOUS
      <3> HIDE DEF g, At
      <3> QED BY <2>3, <2>4, <3>1
    <2>6. n + 1 \in 0..N
      OBVIOUS
    <2> HIDE DEF g, At
    <2> QED BY <2>5, <2>6
  <1>4. N \in T
    <2> HIDE DEF T
    <2>1. \A k \in 0..N : k \in T
      BY <1>1, <1>3, UpTo
    <2> QED BY <2>1
  <1>5. InEffect(items) = CHOOSE f : f = [k \in 1..(N + 1) |-> At(f, k)]
    BY Zenon DEF InEffect, Then
  <1>6. InEffect(items) = [k \in 1..(N + 1) |-> At(InEffect(items), k)]
    <2> HIDE DEF At
    <2> QED BY <1>4, <1>5
  <1>7. \A k \in 1..(N + 1) : InEffect(items)[k] = At(InEffect(items), k)
    <2> HIDE DEF At
    <2> QED BY <1>6
  <1>8. ASSUME NEW k \in 1..N PROVE InEffect(items)[k + 1] = Then(InEffect(items), k)
    <2>1. InEffect(items)[k + 1] = At(InEffect(items), k + 1)
      BY <1>7
    <2>2. k + 1 # 1 /\ (k + 1) - 1 = k
      OBVIOUS
    <2> QED BY <2>1, <2>2
  <1>9. InEffect(items)[1] = DefaultGlobals
    <2>1. InEffect(items)[1] = At(InEffect(items), 1)
      BY <1>7
    <2> QED BY <2>1
  <1> QED BY <1>8, <1>9 DEF Then

-----------------------------------------------------------------------------
(* log_report_summary: Push and Pop *)

\* The items of a sort from the i-th to the j-th, and how many they are.
OfSort(items, i, j, sort) == {k \in i..j : items[k].item = sort}
HowMany(items, i, j, sort) == Cardinality(OfSort(items, i, j, sort))

\* How many there are with one item more,
LEMMA CountStep ==
  ASSUME NEW items, NEW n \in Nat, NEW q \in 1..(n + 1), NEW sort
  PROVE  /\ HowMany(items, q, n, sort) \in Nat
         /\ HowMany(items, q, n + 1, sort) =
              IF items[n + 1].item = sort THEN HowMany(items, q, n, sort) + 1
              ELSE HowMany(items, q, n, sort)
         /\ q = n + 1 => HowMany(items, q, n, sort) = 0
  <1> DEFINE before == OfSort(items, q, n, sort)
             after == OfSort(items, q, n + 1, sort)
  <1>1. IsFiniteSet(before) /\ n + 1 \notin before
    <2>1. IsFiniteSet(q..n) /\ before \subseteq q..n
      BY FS_Interval DEF OfSort
    <2> QED BY <2>1, FS_Subset DEF OfSort
  <1>2. q..(n + 1) = (q..n) \cup {n + 1}
    OBVIOUS
  <1>3. after = IF items[n + 1].item = sort THEN before \cup {n + 1} ELSE before
    BY <1>2 DEF OfSort
  <1>4. q = n + 1 => before = {}
    BY DEF OfSort
  <1>5. Cardinality(before) \in Nat
    BY <1>1, FS_CardinalityType
  <1>6. Cardinality(before \cup {n + 1}) = Cardinality(before) + 1
    BY <1>1, FS_AddElement
  <1>7. q = n + 1 => Cardinality(before) = 0
    BY <1>4, FS_EmptySet
  <1> HIDE DEF before, after
  <1> QED BY <1>3, <1>5, <1>6, <1>7 DEF HowMany, before, after

\* and how many more Pushes than Pops.
LEMMA NestedStep ==
  ASSUME NEW items, NEW n \in Nat, NEW q \in 1..(n + 1)
  PROVE  /\ Nested(items, q, n) \in Int /\ (q = n + 1 => Nested(items, q, n) = 0)
         /\ items[n + 1].item = "push" => Nested(items, q, n + 1) = Nested(items, q, n) + 1
         /\ items[n + 1].item = "pop" => Nested(items, q, n + 1) = Nested(items, q, n) - 1
         /\ items[n + 1].item \notin {"push", "pop"} => Nested(items, q, n + 1) = Nested(items, q, n)
  <1>1. \A j : Nested(items, q, j) = HowMany(items, q, j, "push") - HowMany(items, q, j, "pop")
    BY DEF Nested, HowMany, OfSort
  <1>2. /\ HowMany(items, q, n, "push") \in Nat /\ HowMany(items, q, n, "pop") \in Nat
        /\ HowMany(items, q, n + 1, "push") =
              IF items[n + 1].item = "push" THEN HowMany(items, q, n, "push") + 1
              ELSE HowMany(items, q, n, "push")
        /\ HowMany(items, q, n + 1, "pop") =
              IF items[n + 1].item = "pop" THEN HowMany(items, q, n, "pop") + 1
              ELSE HowMany(items, q, n, "pop")
        /\ q = n + 1 => HowMany(items, q, n, "push") = 0 /\ HowMany(items, q, n, "pop") = 0
    BY CountStep
  <1> QED BY <1>1, <1>2

\* The Pushes that are open after n items, the last one first: s[1..d].  Of a
\* place after the j-th of them, no more than j Pushes are open.
Stacked(items, n, d, s) ==
  /\ d \in Nat /\ s \in [1..d -> 1..n]
  /\ \A i, j \in 1..d : i < j => s[i] > s[j]
  /\ Open(items, n + 1) = {s[j] : j \in 1..d}
  /\ IsFiniteSet(Open(items, n + 1)) /\ Cardinality(Open(items, n + 1)) = d
  /\ \A j \in 1..d : items[s[j]].item = "push" /\ Nested(items, s[j], n) = j
  /\ \A q \in 1..n : \A j \in 0..d : (j # d => s[j + 1] < q) => Nested(items, q, n) <= j

\* What the next item makes of them.
Restacked(items, n, d, s) ==
  CASE items[n + 1].item = "push" -> [j \in 1..(d + 1) |-> IF j = 1 THEN n + 1 ELSE s[j - 1]]
    [] items[n + 1].item = "pop" /\ d # 0 -> [j \in 1..(d - 1) |-> s[j + 1]]
    [] OTHER -> s
Depth(items, n, d) ==
  CASE items[n + 1].item = "push" -> d + 1
    [] items[n + 1].item = "pop" /\ d # 0 -> d - 1
    [] OTHER -> d

LEMMA OpenStep ==
  ASSUME NEW items, NEW n \in Nat
  PROVE  Open(items, n + 2) =
           CASE items[n + 1].item = "push" -> Open(items, n + 1) \cup {n + 1}
             [] items[n + 1].item = "pop" -> Open(items, n + 1) \ {PushOf(items, n + 1)}
             [] OTHER -> Open(items, n + 1)
  <1>1. Open(items, n + 2) = {q \in 1..(n + 1) : items[q].item = "push" /\
                               \A p \in q..(n + 1) : items[p].item = "pop" => PushOf(items, p) # q}
    <2>1. (n + 2) - 1 = n + 1
      OBVIOUS
    <2> QED BY <2>1, Zenon DEF Open
  <1>2. Open(items, n + 1) = {q \in 1..n : items[q].item = "push" /\
                               \A p \in q..n : items[p].item = "pop" => PushOf(items, p) # q}
    <2>1. (n + 1) - 1 = n
      OBVIOUS
    <2> QED BY <2>1, Zenon DEF Open
  <1>3. \A q \in 1..n : q..(n + 1) = (q..n) \cup {n + 1}
    OBVIOUS
  <1>4. 1..(n + 1) = (1..n) \cup {n + 1} /\ n + 1 \notin 1..n /\ (n + 1)..(n + 1) = {n + 1}
    OBVIOUS
  <1>5. ASSUME NEW q \in 1..n
        PROVE q \in Open(items, n + 2) <=>
                q \in Open(items, n + 1) /\ (items[n + 1].item = "pop" => PushOf(items, n + 1) # q)
    BY <1>1, <1>2, <1>3, <1>4, <1>5
  <1>6. n + 1 \in Open(items, n + 2) <=> items[n + 1].item = "push"
    BY <1>1, <1>4
  <1>7. \A q \in Open(items, n + 2) : q \in 1..n \/ q = n + 1
    BY <1>1, <1>4
  <1>8. \A q \in Open(items, n + 1) : q \in 1..n
    BY <1>2
  <1>9. CASE items[n + 1].item = "push"
    BY <1>5, <1>6, <1>7, <1>8, <1>9
  <1>10. CASE items[n + 1].item = "pop"
    BY <1>5, <1>6, <1>7, <1>8, <1>10
  <1>11. CASE items[n + 1].item \notin {"push", "pop"}
    <2>1. Open(items, n + 2) = Open(items, n + 1)
      BY <1>5, <1>6, <1>7, <1>8, <1>11
    <2> QED BY <1>11, <2>1
  <1> QED BY <1>9, <1>10, <1>11

\* A Pop belongs to the last of the open Pushes.
LEMMA PushOfLast ==
  ASSUME NEW items, NEW n \in Nat, NEW d, NEW s, Stacked(items, n, d, s)
  PROVE  PushOf(items, n + 1) = IF d = 0 THEN 0 ELSE s[1]
  <1> DEFINE p == PushOf(items, n + 1)
  <1>1. /\ p \in 0..n
        /\ p # 0 => /\ items[p].item = "push" /\ Nested(items, p, n) = 1
                    /\ \A q \in 1..n : items[q].item = "push" /\ Nested(items, q, n) = 1 => q <= p
        /\ p = 0 => \A q \in 1..n : ~(items[q].item = "push" /\ Nested(items, q, n) = 1)
    <2>1. n + 1 \in Nat \ {0} /\ (n + 1) - 1 = n
      OBVIOUS
    <2> QED BY <2>1, PushBefore
  <1> HIDE DEF p
  <1>2. CASE d = 0
    <2>1. \A q \in 1..n : Nested(items, q, n) <= 0
      BY <1>2 DEF Stacked
    <2> QED BY <1>1, <1>2, <2>1 DEF p
  <1>3. CASE d # 0
    <2>1. 1 \in 1..d /\ s[1] \in 1..n /\ items[s[1]].item = "push" /\ Nested(items, s[1], n) = 1
      BY <1>3 DEF Stacked
    <2>2. p # 0 /\ s[1] <= p
      BY <1>1, <2>1
    <2>3. ASSUME s[1] < p PROVE FALSE
      <3>1. 0 \in 0..d /\ s[0 + 1] < p
        <4>1. 0 + 1 = 1 /\ d \in Nat
          BY DEF Stacked
        <4> QED BY <2>3, <4>1
      <3>2. Nested(items, p, n) <= 0
        <4>1. \A q \in 1..n : \A j \in 0..d : (j # d => s[j + 1] < q) => Nested(items, q, n) <= j
          BY DEF Stacked
        <4>2. p \in 1..n
          BY <1>1, <2>2
        <4> QED BY <3>1, <4>1, <4>2
      <3> QED BY <1>1, <2>2, <3>2
    <2> QED BY <1>1, <1>3, <2>1, <2>2, <2>3 DEF p
  <1> QED BY <1>2, <1>3

LEMMA StackedStep ==
  ASSUME NEW items, NEW n \in Nat, NEW d, NEW s, Stacked(items, n, d, s)
  PROVE  Stacked(items, n + 1, Depth(items, n, d), Restacked(items, n, d, s))
  <1> DEFINE e == Depth(items, n, d)
             t == Restacked(items, n, d, s)
  <1>0. /\ d \in Nat /\ s \in [1..d -> 1..n]
        /\ \A i, j \in 1..d : i < j => s[i] > s[j]
        /\ Open(items, n + 1) = {s[j] : j \in 1..d}
        /\ IsFiniteSet(Open(items, n + 1)) /\ Cardinality(Open(items, n + 1)) = d
        /\ \A j \in 1..d : items[s[j]].item = "push" /\ Nested(items, s[j], n) = j
        /\ \A q \in 1..n : \A j \in 0..d : (j # d => s[j + 1] < q) => Nested(items, q, n) <= j
    BY DEF Stacked
  <1>0a. \A j \in 1..d : s[j] \in 1..n
    BY <1>0
  <1>1. \A q \in 1..(n + 1) :
          /\ Nested(items, q, n) \in Int /\ (q = n + 1 => Nested(items, q, n) = 0)
          /\ items[n + 1].item = "push" => Nested(items, q, n + 1) = Nested(items, q, n) + 1
          /\ items[n + 1].item = "pop" => Nested(items, q, n + 1) = Nested(items, q, n) - 1
          /\ items[n + 1].item \notin {"push", "pop"} => Nested(items, q, n + 1) = Nested(items, q, n)
    BY NestedStep
  <1>2. PushOf(items, n + 1) = IF d = 0 THEN 0 ELSE s[1]
    BY PushOfLast
  <1>3. Open(items, (n + 1) + 1) =
           CASE items[n + 1].item = "push" -> Open(items, n + 1) \cup {n + 1}
             [] items[n + 1].item = "pop" -> Open(items, n + 1) \ {PushOf(items, n + 1)}
             [] OTHER -> Open(items, n + 1)
    <2>1. (n + 1) + 1 = n + 2
      OBVIOUS
    <2> QED BY <2>1, OpenStep
  <1>4. n + 1 \notin Open(items, n + 1) /\ 0 \notin Open(items, n + 1)
    BY <1>0, <1>0a
  <1>5. CASE items[n + 1].item = "push"
    <2>1. e = d + 1 /\ t = [j \in 1..(d + 1) |-> IF j = 1 THEN n + 1 ELSE s[j - 1]]
      BY <1>5 DEF Depth, Restacked
    <2> HIDE DEF e, t
    <2>2. /\ t[1] = n + 1 /\ \A j \in 2..(d + 1) : j - 1 \in 1..d /\ t[j] = s[j - 1]
          /\ \A j \in 1..d : j + 1 \in 2..(d + 1) /\ t[j + 1] = s[j]
          /\ \A j \in 1..(d + 1) : j = 1 \/ j \in 2..(d + 1)
      BY <1>0, <2>1
    <2>3. t \in [1..e -> 1..(n + 1)] /\ e \in Nat
      BY <1>0, <1>0a, <2>1
    <2>4. ASSUME NEW i \in 1..e, NEW j \in 1..e, i < j PROVE t[i] > t[j]
      <3>1. j \in 2..(d + 1) /\ t[j] = s[j - 1] /\ s[j - 1] \in 1..n
        BY <1>0, <1>0a, <2>1, <2>2, <2>4
      <3>2. CASE i = 1
        BY <2>2, <3>1, <3>2
      <3>3. CASE i # 1
        <4>1. i - 1 \in 1..d /\ j - 1 \in 1..d /\ i - 1 < j - 1
          BY <1>0, <2>1, <2>4, <3>3
        <4> QED BY <1>0, <2>1, <2>2, <3>1, <3>3, <4>1
      <3> QED BY <3>2, <3>3
    <2>5. Open(items, (n + 1) + 1) = {t[j] : j \in 1..e}
      <3>1. Open(items, (n + 1) + 1) = Open(items, n + 1) \cup {n + 1}
        BY <1>3, <1>5
      <3>2. 1 \in 1..e /\ \A j \in 1..d : j + 1 \in 1..e
        BY <1>0, <2>1
      <3>3. ASSUME NEW q \in Open(items, n + 1) \cup {n + 1} PROVE \E j \in 1..e : q = t[j]
        <4>1. CASE q = n + 1
          BY <2>2, <3>2, <4>1
        <4>2. CASE q \in Open(items, n + 1)
          <5>1. PICK j \in 1..d : q = s[j]
            BY <1>0, <4>2
          <5> QED BY <2>2, <3>2, <5>1
        <4> QED BY <4>1, <4>2
      <3>4. ASSUME NEW j \in 1..e PROVE t[j] \in Open(items, n + 1) \cup {n + 1}
        <4>1. CASE j = 1
          BY <2>2, <4>1
        <4>2. CASE j \in 2..(d + 1)
          BY <1>0, <2>2, <4>2
        <4> QED BY <2>1, <2>2, <4>1, <4>2
      <3> QED BY <3>1, <3>3, <3>4, Zenon
    <2>6. IsFiniteSet(Open(items, (n + 1) + 1)) /\ Cardinality(Open(items, (n + 1) + 1)) = e
      BY <1>0, <1>3, <1>4, <1>5, <2>1, FS_AddElement
    <2>7. ASSUME NEW j \in 1..e PROVE items[t[j]].item = "push" /\ Nested(items, t[j], n + 1) = j
      <3>1. CASE j = 1
        BY <1>1, <1>5, <2>2, <3>1
      <3>2. CASE j \in 2..(d + 1)
        <4>1. t[j] = s[j - 1] /\ j - 1 \in 1..d /\ s[j - 1] \in 1..(n + 1)
          BY <1>0a, <2>2, <3>2
        <4>2. items[s[j - 1]].item = "push" /\ Nested(items, s[j - 1], n) = j - 1
          BY <1>0, <4>1
        <4> QED BY <1>1, <1>5, <3>2, <4>1, <4>2
      <3> QED BY <2>1, <2>2, <3>1, <3>2
    <2>8. ASSUME NEW q \in 1..(n + 1), NEW j \in 0..e, j # e => t[j + 1] < q
          PROVE  Nested(items, q, n + 1) <= j
      <3>1. j # 0
        BY <1>0, <2>1, <2>2, <2>8
      <3>2. CASE q = n + 1
        BY <1>0, <1>1, <1>5, <2>1, <3>1, <3>2
      <3>3. CASE q \in 1..n
        <4>1. j - 1 \in 0..d /\ (j - 1 # d => s[j] < q)
          <5>1. j # e => j + 1 \in 2..(d + 1) /\ t[j + 1] = s[j]
            BY <1>0, <2>1, <2>2, <3>1
          <5> QED BY <1>0, <2>1, <2>8, <3>1, <5>1
        <4>2. (j - 1) + 1 = j
          OBVIOUS
        <4>3. Nested(items, q, n) <= j - 1
          BY <1>0, <3>3, <4>1, <4>2
        <4> QED BY <1>1, <1>5, <4>3
      <3> QED BY <3>2, <3>3
    <2>9. Stacked(items, n + 1, e, t)
      BY <2>3, <2>4, <2>5, <2>6, <2>7, <2>8 DEF Stacked
    <2> QED BY <2>9 DEF e, t
  <1>6. CASE items[n + 1].item = "pop" /\ d # 0
    <2>1. e = d - 1 /\ t = [j \in 1..(d - 1) |-> s[j + 1]]
      BY <1>6 DEF Depth, Restacked
    <2> HIDE DEF e, t
    <2>2. \A j \in 1..e : j + 1 \in 1..d /\ j + 1 # 1 /\ t[j] = s[j + 1]
      BY <1>0, <1>6, <2>1
    <2>3. t \in [1..e -> 1..(n + 1)] /\ e \in Nat
      BY <1>0, <1>0a, <1>6, <2>1
    <2>4. ASSUME NEW i \in 1..e, NEW j \in 1..e, i < j PROVE t[i] > t[j]
      <3>1. i + 1 \in 1..d /\ j + 1 \in 1..d /\ i + 1 < j + 1 /\ t[i] = s[i + 1] /\ t[j] = s[j + 1]
        BY <2>2, <2>3, <2>4
      <3> QED BY <1>0, <3>1
    <2>5. Open(items, (n + 1) + 1) = Open(items, n + 1) \ {s[1]}
      BY <1>2, <1>3, <1>6
    <2>6. Open(items, (n + 1) + 1) = {t[j] : j \in 1..e}
      <3>1. ASSUME NEW j \in 1..d, j # 1 PROVE j - 1 \in 1..e /\ t[j - 1] = s[j] /\ s[j] # s[1]
        <4>1. j - 1 \in 1..e /\ 1 \in 1..d /\ 1 < j /\ (j - 1) + 1 = j
          BY <1>0, <1>6, <2>1, <3>1
        <4>2. s[1] > s[j] /\ s[1] \in 1..n /\ s[j] \in 1..n
          BY <1>0, <1>0a, <4>1
        <4> QED BY <2>2, <4>1, <4>2
      <3>2. ASSUME NEW j \in 1..e PROVE j + 1 \in 1..d /\ t[j] = s[j + 1] /\ s[j + 1] # s[1]
        <4>1. j + 1 \in 1..d /\ t[j] = s[j + 1] /\ 1 \in 1..d /\ 1 < j + 1
          BY <1>0, <1>6, <2>1, <2>2
        <4>2. s[1] > s[j + 1] /\ s[1] \in 1..n /\ s[j + 1] \in 1..n
          BY <1>0, <1>0a, <4>1
        <4> QED BY <4>1, <4>2
      <3>3. ASSUME NEW q \in Open(items, n + 1) \ {s[1]} PROVE \E j \in 1..e : q = t[j]
        <4>1. PICK j \in 1..d : q = s[j]
          BY <1>0
        <4> QED BY <3>1, <4>1
      <3>4. ASSUME NEW j \in 1..e PROVE t[j] \in Open(items, n + 1) \ {s[1]}
        BY <1>0, <3>2
      <3>5. Open(items, n + 1) \ {s[1]} = {t[j] : j \in 1..e}
        BY <3>3, <3>4
      <3> QED BY <2>5, <3>5
    <2>7. IsFiniteSet(Open(items, (n + 1) + 1)) /\ Cardinality(Open(items, (n + 1) + 1)) = e
      <3>1. s[1] \in Open(items, n + 1)
        BY <1>0, <1>6
      <3>2. /\ IsFiniteSet(Open(items, n + 1) \ {s[1]})
            /\ Cardinality(Open(items, n + 1) \ {s[1]}) = d - 1
        BY <1>0, <3>1, FS_RemoveElement
      <3> QED BY <2>1, <2>5, <3>2
    <2>8. ASSUME NEW j \in 1..e PROVE items[t[j]].item = "push" /\ Nested(items, t[j], n + 1) = j
      <3>1. t[j] = s[j + 1] /\ j + 1 \in 1..d /\ s[j + 1] \in 1..(n + 1)
        BY <1>0a, <2>2
      <3>2. items[s[j + 1]].item = "push" /\ Nested(items, s[j + 1], n) = j + 1
        BY <1>0, <3>1
      <3>3. Nested(items, s[j + 1], n + 1) = Nested(items, s[j + 1], n) - 1
        BY <1>1, <1>6, <3>1
      <3>4. (j + 1) - 1 = j
        BY <2>3
      <3>5. Nested(items, s[j + 1], n + 1) = j
        BY <3>2, <3>3, <3>4
      <3> QED BY <3>1, <3>2, <3>5
    <2>9. ASSUME NEW q \in 1..(n + 1), NEW j \in 0..e, j # e => t[j + 1] < q
          PROVE  Nested(items, q, n + 1) <= j
      <3>1. CASE q = n + 1
        BY <1>0, <1>1, <1>6, <2>3, <3>1
      <3>2. CASE q \in 1..n
        <4>1. j + 1 \in 0..d /\ (j + 1 # d => s[(j + 1) + 1] < q)
          <5>1. j # e => j + 1 \in 1..e
            BY <2>3
          <5> QED BY <1>0, <1>6, <2>1, <2>2, <2>3, <2>9, <5>1
        <4>2. Nested(items, q, n) <= j + 1
          BY <1>0, <3>2, <4>1
        <4> QED BY <1>1, <1>6, <2>3, <4>2
      <3> QED BY <3>1, <3>2
    <2>10. Stacked(items, n + 1, e, t)
      BY <2>3, <2>4, <2>6, <2>7, <2>8, <2>9 DEF Stacked
    <2> QED BY <2>10 DEF e, t
  <1>7. CASE items[n + 1].item # "push" /\ (items[n + 1].item = "pop" => d = 0)
    <2>1. e = d /\ t = s
      BY <1>7 DEF Depth, Restacked
    <2>2. Open(items, (n + 1) + 1) = Open(items, n + 1)
      BY <1>2, <1>3, <1>4, <1>7
    <2>3. s \in [1..d -> 1..(n + 1)]
      BY <1>0, <1>0a
    <2>4. ASSUME NEW j \in 1..d PROVE Nested(items, s[j], n + 1) = j
      <3>1. s[j] \in 1..(n + 1) /\ Nested(items, s[j], n) = j /\ items[n + 1].item # "pop"
        BY <1>0, <1>0a, <1>7
      <3> QED BY <1>1, <1>7, <3>1
    <2>5. ASSUME NEW q \in 1..(n + 1), NEW j \in 0..d, j # d => s[j + 1] < q
          PROVE  Nested(items, q, n + 1) <= j
      <3>1. Nested(items, q, n) <= j
        BY <1>0, <1>1, <2>5
      <3>2. Nested(items, q, n) \in Int /\ Nested(items, q, n + 1) \in {Nested(items, q, n), Nested(items, q, n) - 1}
        BY <1>1, <1>7
      <3> QED BY <1>0, <3>1, <3>2
    <2>6. Stacked(items, n + 1, d, s)
      BY <1>0, <2>2, <2>3, <2>4, <2>5 DEF Stacked
    <2> QED BY <2>1, <2>6
  <1> QED BY <1>5, <1>6, <1>7

-----------------------------------------------------------------------------
(* log_report_summary: the locals *)

\* What log_report_summary goes through the items with: a page is a string, or none.
Pages == STRING \cup {"none"}
Globals == [page : Pages, size : Nat, count : Nat, id : Nat]
Entry == [id : Nat, kind : ReportKinds, bits : Nat, page : Pages]

\* The places of a report among the reports kept.
Kept(s, sort) ==
  {n \in DOMAIN s.reports : s.reports[n].id = s.g.id /\ s.reports[n].kind = sort}

SummaryOK(s) ==
  /\ s \in [g : Globals, stack : Seq(Globals), reports : Seq(Entry)]
  /\ Len(s.reports) <= MAX_REPORTS

\* The fields of an item.
LEMMA ItemType ==
  ASSUME NEW x \in Item
  PROVE  /\ x.item \in {"main", "global", "push", "pop", "other"}
         /\ x.item = "main" => x.kind \in ReportKinds
         /\ x.item = "global" =>
              \/ x.field = "page" /\ x.value \in STRING
              \/ x.field \in {"size", "count", "id"} /\ x.value \in Nat
  BY DEF Item

\* Setting a global.
LEMMA SetGlobal ==
  ASSUME NEW g \in Globals, NEW x \in Item, x.item = "global"
  PROVE  [g EXCEPT ![x.field] = x.value] \in Globals
  <1>1. CASE x.field = "page" /\ x.value \in STRING
    BY <1>1 DEF Globals, Pages
  <1>2. CASE x.field = "size" /\ x.value \in Nat
    BY <1>2 DEF Globals
  <1>3. CASE x.field = "count" /\ x.value \in Nat
    BY <1>3 DEF Globals
  <1>4. CASE x.field = "id" /\ x.value \in Nat
    BY <1>4 DEF Globals
  <1> QED BY <1>1, <1>2, <1>3, <1>4, ItemType

\* Saving the globals.
LEMMA PushStep ==
  ASSUME NEW s, SummaryOK(s), NEW x \in Item, x.item = "push", NEW L, L = Len(s.stack),
         L # STACK_LEN
  PROVE  /\ SummaryOK(Summarise(s, x)) /\ Summarise(s, x).reports = s.reports
         /\ Summarise(s, x).g = s.g
         /\ Len(Summarise(s, x).stack) = L + 1
         /\ Summarise(s, x).stack[1] = s.g
         /\ \A j \in 1..L : Summarise(s, x).stack[j + 1] = s.stack[j]
  <1> DEFINE t == Summarise(s, x)
             q == <<s.g>> \o s.stack
  <1>1. /\ s \in [g : Globals, stack : Seq(Globals), reports : Seq(Entry)]
        /\ s.g \in Globals /\ s.stack \in Seq(Globals) /\ L \in Nat
        /\ Len(s.reports) <= MAX_REPORTS
    BY LenProperties DEF SummaryOK
  <1>2. t = [s EXCEPT !.stack = q]
    BY DEF Summarise, SaveGlobals
  <1>3. <<s.g>> \in Seq(Globals) /\ Len(<<s.g>>) = 1 /\ <<s.g>>[1] = s.g
    BY <1>1
  <1>4. /\ q \in Seq(Globals) /\ Len(q) = 1 + L
        /\ \A i \in 1..(1 + L) : q[i] = IF i <= 1 THEN <<s.g>>[i] ELSE s.stack[i - 1]
    BY <1>1, <1>3, ConcatProperties
  <1> HIDE DEF q
  <1>5. q[1] = s.g /\ \A j \in 1..L : q[j + 1] = s.stack[j]
    <2>1. q[1] = s.g
      <3>1. 1 \in 1..(1 + L) /\ 1 <= 1
        BY <1>1
      <3>2. q[1] = <<s.g>>[1]
        BY <1>4, <3>1
      <3> QED BY <1>3, <3>2
    <2>2. ASSUME NEW j \in 1..L PROVE q[j + 1] = s.stack[j]
      <3>1. j + 1 \in 1..(1 + L) /\ ~(j + 1 <= 1) /\ (j + 1) - 1 = j
        BY <1>1
      <3> QED BY <1>4, <3>1
    <2> QED BY <2>1, <2>2
  <1> HIDE DEF t
  <1>6. t.g = s.g /\ t.stack = q /\ t.reports = s.reports /\ SummaryOK(t)
    BY <1>1, <1>2, <1>4 DEF SummaryOK
  <1>7. Len(q) = L + 1
    BY <1>1, <1>4
  <1> QED BY <1>5, <1>6, <1>7 DEF t

\* What the items that are not main items do, with the reports left alone.
LEMMA GlobalStep ==
  ASSUME NEW s, SummaryOK(s), NEW x \in Item, x.item # "main"
  PROVE  /\ SummaryOK(Summarise(s, x)) /\ Summarise(s, x).reports = s.reports
         /\ x.item = "global" =>
              /\ Summarise(s, x).g = [s.g EXCEPT ![x.field] = x.value]
              /\ Summarise(s, x).stack = s.stack
         /\ x.item = "push" =>
              /\ Summarise(s, x).g = s.g
              /\ Len(s.stack) # STACK_LEN =>
                   /\ Len(Summarise(s, x).stack) = Len(s.stack) + 1
                   /\ Summarise(s, x).stack[1] = s.g
                   /\ \A j \in 1..Len(s.stack) : Summarise(s, x).stack[j + 1] = s.stack[j]
         /\ x.item = "pop" /\ Len(s.stack) # 0 =>
              /\ Summarise(s, x).g = s.stack[1]
              /\ Len(Summarise(s, x).stack) = Len(s.stack) - 1
              /\ \A j \in 1..(Len(s.stack) - 1) : Summarise(s, x).stack[j] = s.stack[j + 1]
         /\ x.item = "other" \/ (x.item = "pop" /\ Len(s.stack) = 0) =>
              Summarise(s, x).g = s.g /\ Summarise(s, x).stack = s.stack
  <1> DEFINE t == Summarise(s, x)
             L == Len(s.stack)
  <1>1. /\ s \in [g : Globals, stack : Seq(Globals), reports : Seq(Entry)]
        /\ s.g \in Globals /\ s.stack \in Seq(Globals) /\ L \in Nat
        /\ Len(s.reports) <= MAX_REPORTS
    BY LenProperties DEF SummaryOK
  <1>2. x.item \in {"global", "push", "pop", "other"}
    BY ItemType
  <1>3. CASE x.item = "global"
    <2> DEFINE h == [s.g EXCEPT ![x.field] = x.value]
    <2>1. h \in Globals
      BY <1>1, <1>3, SetGlobal
    <2>2. t = [s EXCEPT !.g = h]
      BY <1>3 DEF Summarise
    <2> HIDE DEF h, t
    <2>3. t.g = h /\ t.stack = s.stack /\ t.reports = s.reports /\ SummaryOK(t)
      BY <1>1, <2>1, <2>2 DEF SummaryOK
    <2> QED BY <1>3, <2>3 DEF h, t
  <1>4. CASE x.item = "push" /\ L = STACK_LEN
    <2>1. t = s
      BY <1>4 DEF Summarise, SaveGlobals
    <2> QED BY <1>4, <2>1
  <1>5. CASE x.item = "push" /\ L # STACK_LEN
    BY <1>5, PushStep
  <1>6. CASE x.item = "pop" /\ L = 0
    <2>1. s.stack = <<>>
      BY <1>1, <1>6, EmptySeq
    <2>2. t = s
      BY <1>6, <2>1 DEF Summarise, RestoreGlobals
    <2> QED BY <1>6, <2>2
  <1>7. CASE x.item = "pop" /\ L # 0
    <2>1. s.stack # <<>>
      BY <1>7
    <2>2. t = [s EXCEPT !.g = Head(s.stack), !.stack = Tail(s.stack)]
      BY <1>7, <2>1 DEF Summarise, RestoreGlobals
    <2>3. /\ Head(s.stack) = s.stack[1] /\ Head(s.stack) \in Globals
          /\ Tail(s.stack) \in Seq(Globals) /\ Len(Tail(s.stack)) = L - 1
          /\ \A i \in 1..Len(Tail(s.stack)) : Tail(s.stack)[i] = s.stack[i + 1]
      BY <1>1, <2>1, HeadTailProperties
    <2> HIDE DEF t, L
    <2>4. t.g = Head(s.stack) /\ t.stack = Tail(s.stack) /\ t.reports = s.reports /\ SummaryOK(t)
      BY <1>1, <2>2, <2>3 DEF SummaryOK
    <2> QED BY <1>7, <2>3, <2>4 DEF t, L
  <1>8. CASE x.item = "other"
    <2>1. t = s
      BY <1>8 DEF Summarise
    <2> QED BY <1>8, <2>1
  <1> QED BY <1>2, <1>3, <1>4, <1>5, <1>6, <1>7, <1>8, Zenon

\* A count of bits is a number, and the number counted if it fits.
LEMMA WrapType ==
  ASSUME HidAssumption, NEW bits \in Nat
  PROVE  Wrap(bits) \in Nat /\ (bits < U32 => Wrap(bits) = bits)
  <1>1. U32 \in Nat \ {0}
    BY DEF HidAssumption
  <1> QED BY <1>1, SMT DEF Wrap

\* What a main item does.
LEMMA MainStep ==
  ASSUME HidAssumption, NEW s, SummaryOK(s), NEW x \in Item, x.item = "main"
  PROVE  /\ SummaryOK(Summarise(s, x))
         /\ Summarise(s, x).g = s.g /\ Summarise(s, x).stack = s.stack
         /\ Kept(s, x.kind) # {} =>
              \E m \in Kept(s, x.kind) :
                /\ Len(Summarise(s, x).reports) = Len(s.reports)
                /\ \A n \in 1..Len(s.reports) :
                     Summarise(s, x).reports[n] =
                       IF n = m THEN [s.reports[n] EXCEPT !.bits = Wrap(@ + s.g.size * s.g.count)]
                       ELSE s.reports[n]
         /\ Kept(s, x.kind) = {} /\ Len(s.reports) = MAX_REPORTS =>
              Summarise(s, x).reports = s.reports
         /\ Kept(s, x.kind) = {} /\ Len(s.reports) # MAX_REPORTS =>
              /\ Len(Summarise(s, x).reports) = Len(s.reports) + 1
              /\ \A n \in 1..Len(s.reports) : Summarise(s, x).reports[n] = s.reports[n]
              /\ Summarise(s, x).reports[Len(s.reports) + 1] =
                   [id |-> s.g.id, kind |-> x.kind, bits |-> Wrap(s.g.size * s.g.count),
                    page |-> s.g.page]
  <1> DEFINE t == Summarise(s, x)
             L == Len(s.reports)
             r == s.reports
             b == s.g.size * s.g.count
             same == Kept(s, x.kind)
             new == [id |-> s.g.id, kind |-> x.kind, bits |-> Wrap(b), page |-> s.g.page]
  <1>1. /\ s \in [g : Globals, stack : Seq(Globals), reports : Seq(Entry)]
        /\ s.g \in Globals /\ r \in Seq(Entry) /\ L \in Nat /\ DOMAIN r = 1..L
        /\ L <= MAX_REPORTS
    BY LenProperties DEF SummaryOK
  <1>2. b \in Nat /\ s.g.id \in Nat /\ s.g.page \in Pages /\ x.kind \in ReportKinds
    <2>1. s.g.size \in Nat /\ s.g.count \in Nat /\ s.g.id \in Nat /\ s.g.page \in Pages
      BY <1>1 DEF Globals
    <2>2. \A i, j \in Nat : i * j \in Nat
      OBVIOUS
    <2> QED BY <2>1, <2>2, ItemType, Zenon
  <1>3. t = IF same # {} THEN [s EXCEPT !.reports[Min(same)].bits = Wrap(@ + b)]
            ELSE IF L = MAX_REPORTS THEN s
            ELSE [s EXCEPT !.reports = Append(r, new)]
    BY Zenon DEF Summarise, Main, Kept
  <1> HIDE DEF b, t
  <1>4. CASE same # {}
    <2> DEFINE m == Min(same)
               v == [r[m] EXCEPT !.bits = Wrap(@ + b)]
               q == [r EXCEPT ![m] = v]
    <2>1. m \in same /\ m \in 1..L
      <3>1. same \in SUBSET Nat /\ same \subseteq 1..L
        BY <1>1 DEF Kept
      <3> QED BY <1>4, <3>1, MinLeast
    <2>2. t = [s EXCEPT !.reports = q]
      BY <1>3, <1>4
    <2>3. v \in Entry
      <3>1. r[m] \in Entry
        BY <1>1, <2>1, ElementOfSeq
      <3> HIDE DEF m
      <3>2. Wrap(r[m].bits + b) \in Nat
        <4>1. r[m].bits + b \in Nat
          BY <1>2, <3>1 DEF Entry
        <4> QED BY <4>1, WrapType
      <3> QED BY <3>1, <3>2 DEF Entry
    <2>4. /\ q \in Seq(Entry) /\ Len(q) = L
          /\ \A n \in 1..L : q[n] = IF n = m THEN v ELSE r[n]
      <3> HIDE DEF v, m
      <3> QED BY <1>1, <2>1, <2>3, ExceptSeq
    <2> HIDE DEF q, L
    <2>5. t.g = s.g /\ t.stack = s.stack /\ t.reports = q /\ SummaryOK(t)
      BY <1>1, <2>2, <2>4 DEF SummaryOK
    <2>6. \A n \in 1..L : q[n] = IF n = m THEN [r[n] EXCEPT !.bits = Wrap(@ + b)] ELSE r[n]
      <3> HIDE DEF m
      <3> QED BY <2>4 DEF v
    <2> HIDE DEF m
    <2> QED BY <1>4, <2>1, <2>4, <2>5, <2>6, Zenon DEF t, L, b
  <1>5. CASE same = {} /\ L = MAX_REPORTS
    <2>1. t = s
      BY <1>3, <1>5
    <2> QED BY <1>5, <2>1 DEF t
  <1>6. CASE same = {} /\ L # MAX_REPORTS
    <2>1. new \in Entry
      BY <1>2, WrapType DEF Entry
    <2>2. t = [s EXCEPT !.reports = Append(r, new)]
      BY <1>3, <1>6
    <2> HIDE DEF new
    <2>3. /\ Append(r, new) \in Seq(Entry) /\ Len(Append(r, new)) = L + 1
          /\ \A n \in 1..L : Append(r, new)[n] = r[n]
          /\ Append(r, new)[L + 1] = new
      BY <1>1, <2>1, AppendProperties
    <2> DEFINE q == Append(r, new)
    <2> HIDE DEF q, L
    <2>4. L + 1 <= MAX_REPORTS
      BY <1>1, <1>6 DEF HidAssumption
    <2>5. t.g = s.g /\ t.stack = s.stack /\ t.reports = q /\ SummaryOK(t)
      BY <1>1, <2>2, <2>3, <2>4 DEF SummaryOK, q
    <2> QED BY <1>6, <2>3, <2>5, Zenon DEF t, L, q, new, b
  <1> QED BY <1>4, <1>5, <1>6, Zenon DEF t

-----------------------------------------------------------------------------
(* log_report_summary: the globals in effect *)

\* No Push is open to begin with.
LEMMA StackedInit ==
  ASSUME NEW items, NEW s PROVE Stacked(items, 0, 0, <<>>)
  <1>1. Open(items, 0 + 1) = {}
    BY DEF Open
  <1>2. <<>> \in [1..0 -> 1..0] /\ {<<>>[j] : j \in 1..0} = {}
    OBVIOUS
  <1>3. IsFiniteSet({}) /\ Cardinality({}) = 0
    BY FS_EmptySet
  <1> QED BY <1>1, <1>2, <1>3 DEF Stacked

\* After each item the summary has its type.
LEMMA SummaryTyped ==
  ASSUME HidAssumption, NEW items \in Seq(Item), NEW N \in Nat, N = Len(items)
  PROVE  \A n \in 0..N : SummaryOK(Summary(items)[n])
  <1> DEFINE T == {n \in 0..N : SummaryOK(Summary(items)[n])}
  <1>1. 0 \in T
    <2>1. NoSummary \in [g : Globals, stack : Seq(Globals), reports : Seq(Entry)]
      <3>1. DefaultGlobals \in Globals
        BY DEF DefaultGlobals, Globals, Pages
      <3>2. <<>> \in Seq(Globals) /\ <<>> \in Seq(Entry)
        BY EmptySeq, Zenon
      <3> QED BY <3>1, <3>2 DEF NoSummary
    <2>2. Len(NoSummary.reports) = 0
      BY DEF NoSummary
    <2>3. SummaryOK(NoSummary)
      BY <2>1, <2>2 DEF SummaryOK, HidAssumption
    <2> QED BY <2>3, SummaryDef
  <1>2. ASSUME NEW n \in 0..(N - 1), n \in T PROVE n + 1 \in T
    <2>1. items[n + 1] \in Item
      BY ElementOfSeq
    <2>2. SummaryOK(Summarise(Summary(items)[n], items[n + 1]))
      BY <1>2, <2>1, GlobalStep, MainStep, Zenon
    <2>3. Summary(items)[n + 1] = Summarise(Summary(items)[n], items[n + 1])
      BY SummaryDef
    <2> QED BY <2>2, <2>3
  <1>3. \A k \in 0..N : k \in T
    <2> HIDE DEF T
    <2> QED BY <1>1, <1>2, UpTo
  <1> QED BY <1>3

\* The stack holds the globals in effect at the Pushes that are open.
Saves(items, n, stack) ==
  \E d, s :
    /\ Stacked(items, n, d, s) /\ Len(stack) = d
    /\ \A j \in 1..d : stack[j] = InEffect(items)[s[j]]

\* What has to be shown for it.
LEMMA SavesIntro ==
  ASSUME NEW items, NEW n, NEW stack, NEW d, NEW s, Stacked(items, n, d, s), Len(stack) = d,
         \A j \in 1..d : stack[j] = InEffect(items)[s[j]]
  PROVE  Saves(items, n, stack)
  BY Zenon DEF Saves

\* The next item leaves it so.
LEMMA SavesStep ==
  ASSUME HidAssumption, NEW items \in Seq(Item), StackSuffices(items), NEW N \in Nat, N = Len(items),
         NEW n \in 0..(N - 1), NEW t, SummaryOK(t), t.g = InEffect(items)[n + 1],
         Saves(items, n, t.stack)
  PROVE  /\ Summarise(t, items[n + 1]).g = InEffect(items)[n + 2]
         /\ Saves(items, n + 1, Summarise(t, items[n + 1]).stack)
  <1> DEFINE x == items[n + 1]
             u == Summarise(t, x)
             at == InEffect(items)
  <1>0. x \in Item /\ DOMAIN items = 1..N
    BY ElementOfSeq, LenProperties
  <1>1. PICK d, s : /\ Stacked(items, n, d, s) /\ Len(t.stack) = d
                    /\ \A j \in 1..d : t.stack[j] = at[s[j]]
    BY DEF Saves
  <1>2. d \in Nat /\ s \in [1..d -> 1..n] /\ \A j \in 1..d : s[j] \in 1..n
    BY <1>1 DEF Stacked
  <1>2a. n \in Nat /\ Stacked(items, n, d, s)
    BY <1>1
  <1>3. Stacked(items, n + 1, Depth(items, n, d), Restacked(items, n, d, s))
    BY <1>1, StackedStep
  <1>4. at[n + 2] =
          CASE x.item = "global" -> [at[n + 1] EXCEPT ![x.field] = x.value]
            [] x.item = "pop" /\ PushOf(items, n + 1) # 0 -> at[PushOf(items, n + 1)]
            [] OTHER -> at[n + 1]
    <2>1. n + 1 \in 1..N /\ (n + 1) + 1 = n + 2
      OBVIOUS
    <2>2. at[(n + 1) + 1] =
          CASE x.item = "global" -> [at[n + 1] EXCEPT ![x.field] = x.value]
            [] x.item = "pop" /\ PushOf(items, n + 1) # 0 -> at[PushOf(items, n + 1)]
            [] OTHER -> at[n + 1]
      <3> HIDE DEF at
      <3> QED BY <2>1, InEffectDef DEF at
    <2> QED BY <2>1, <2>2
  <1>5. PushOf(items, n + 1) = IF d = 0 THEN 0 ELSE s[1]
    BY <1>2a, PushOfLast, Zenon
  <1>6. x.item \in {"main", "global", "push", "pop", "other"}
    BY <1>0, ItemType
  <1> HIDE DEF at
  <1>7. ASSUME NEW v, NEW e, NEW f, e = Depth(items, n, d), f = Restacked(items, n, d, s),
               v = u, v.g = at[n + 2], Len(v.stack) = e,
               \A j \in 1..e : v.stack[j] = at[f[j]]
        PROVE  u.g = at[n + 2] /\ Saves(items, n + 1, u.stack)
    <2>1. Stacked(items, n + 1, e, f)
      BY <1>3, <1>7, Zenon
    <2>2. Saves(items, n + 1, v.stack)
      BY <1>7, <2>1, SavesIntro DEF at
    <2> HIDE DEF u
    <2> QED BY <1>7, <2>2
  <1>7a. ASSUME /\ u.g = at[n + 2] /\ Len(u.stack) = Depth(items, n, d)
                /\ \A j \in 1..Depth(items, n, d) : u.stack[j] = at[Restacked(items, n, d, s)[j]]
         PROVE  u.g = at[n + 2] /\ Saves(items, n + 1, u.stack)
    <2> DEFINE v == u
               e == Depth(items, n, d)
               f == Restacked(items, n, d, s)
    <2>1. /\ e = Depth(items, n, d) /\ f = Restacked(items, n, d, s) /\ v = u /\ v.g = at[n + 2]
          /\ Len(v.stack) = e /\ \A j \in 1..e : v.stack[j] = at[f[j]]
      BY <1>7a
    <2> HIDE DEF v, e, f
    <2> QED BY <1>7, <2>1
  <1> SUFFICES /\ u.g = at[n + 2] /\ Len(u.stack) = Depth(items, n, d)
               /\ \A j \in 1..Depth(items, n, d) : u.stack[j] = at[Restacked(items, n, d, s)[j]]
    BY <1>7a DEF at
  <1>8. CASE x.item \in {"main", "global", "other"} \/ (x.item = "pop" /\ d = 0)
    <2>1. Depth(items, n, d) = d /\ Restacked(items, n, d, s) = s
      BY <1>8 DEF Depth, Restacked
    <2>2. u.stack = t.stack
      BY <1>0, <1>1, <1>8, GlobalStep, MainStep
    <2>3. u.g = at[n + 2]
      <3>1. CASE x.item = "global"
        <4>1. u.g = [t.g EXCEPT ![x.field] = x.value]
          BY <1>0, <3>1, GlobalStep
        <4>2. at[n + 2] = [at[n + 1] EXCEPT ![x.field] = x.value]
          BY <1>4, <3>1
        <4>3. t.g = at[n + 1]
          BY DEF at
        <4> HIDE DEF u, x
        <4> QED BY <4>1, <4>2, <4>3
      <3>2. CASE x.item # "global"
        <4>1. u.g = t.g
          BY <1>0, <1>1, <1>8, <3>2, GlobalStep, MainStep
        <4>2. at[n + 2] = at[n + 1]
          BY <1>4, <1>5, <1>8, <3>2
        <4> QED BY <4>1, <4>2 DEF at
      <3> QED BY <3>1, <3>2
    <2> HIDE DEF u
    <2> QED BY <1>1, <2>1, <2>2, <2>3
  <1>9. CASE x.item = "push"
    <2>1. /\ Depth(items, n, d) = d + 1
          /\ Restacked(items, n, d, s) = [j \in 1..(d + 1) |-> IF j = 1 THEN n + 1 ELSE s[j - 1]]
      BY <1>9 DEF Depth, Restacked
    <2>2. d # STACK_LEN
      <3>1. Cardinality(Open(items, (n + 1) + 1)) = d + 1
        BY <1>3, <2>1 DEF Stacked
      <3>2. Cardinality(Open(items, (n + 1) + 1)) <= STACK_LEN
        BY <1>0 DEF StackSuffices
      <3> QED BY <1>2, <3>1, <3>2 DEF HidAssumption
    <2>3. /\ u.g = t.g /\ Len(u.stack) = d + 1 /\ u.stack[1] = t.g
          /\ \A j \in 1..d : u.stack[j + 1] = t.stack[j]
      <3>1. Len(t.stack) # STACK_LEN
        BY <1>1, <2>2
      <3>2. /\ u.g = t.g /\ Len(u.stack) = Len(t.stack) + 1 /\ u.stack[1] = t.g
            /\ \A j \in 1..Len(t.stack) : u.stack[j + 1] = t.stack[j]
        <4> DEFINE L == Len(t.stack)
        <4>1. L = Len(t.stack) /\ L # STACK_LEN
          BY <3>1
        <4>2. SummaryOK(t) /\ x \in Item /\ x.item = "push"
          BY <1>0, <1>9
        <4> HIDE DEF x, L
        <4>3. /\ Summarise(t, x).g = t.g /\ Len(Summarise(t, x).stack) = L + 1
              /\ Summarise(t, x).stack[1] = t.g
              /\ \A j \in 1..L : Summarise(t, x).stack[j + 1] = t.stack[j]
          BY <4>1, <4>2, PushStep, Zenon
        <4> QED BY <4>1, <4>3, Zenon
      <3> HIDE DEF u
      <3> QED BY <1>1, <3>2
    <2>4. at[n + 2] = at[n + 1] /\ t.g = at[n + 1]
      BY <1>4, <1>9 DEF at
    <2> HIDE DEF u
    <2>5. ASSUME NEW j \in 1..(d + 1) PROVE u.stack[j] = at[Restacked(items, n, d, s)[j]]
      <3>1. CASE j = 1
        BY <1>2, <2>1, <2>3, <2>4, <3>1
      <3>2. CASE j # 1
        <4>1. j - 1 \in 1..d /\ (j - 1) + 1 = j
          BY <1>2, <3>2
        <4>2. u.stack[j] = t.stack[j - 1] /\ t.stack[j - 1] = at[s[j - 1]]
          BY <1>1, <2>3, <4>1
        <4>3. Restacked(items, n, d, s)[j] = s[j - 1]
          BY <2>1, <3>2
        <4> QED BY <4>2, <4>3
      <3> QED BY <3>1, <3>2
    <2> QED BY <2>1, <2>3, <2>4, <2>5
  <1>10. CASE x.item = "pop" /\ d # 0
    <2>1. Depth(items, n, d) = d - 1 /\ Restacked(items, n, d, s) = [j \in 1..(d - 1) |-> s[j + 1]]
      BY <1>10 DEF Depth, Restacked
    <2>2. /\ u.g = t.stack[1] /\ Len(u.stack) = d - 1
          /\ \A j \in 1..(d - 1) : u.stack[j] = t.stack[j + 1]
      <3>1. Len(t.stack) # 0
        BY <1>1, <1>10
      <3>2. /\ u.g = t.stack[1] /\ Len(u.stack) = Len(t.stack) - 1
            /\ \A j \in 1..(Len(t.stack) - 1) : u.stack[j] = t.stack[j + 1]
        <4> HIDE DEF x
        <4>1. x.item # "main"
          BY <1>10
        <4> QED BY <1>0, <1>10, <3>1, <4>1, GlobalStep, Zenon
      <3> HIDE DEF u
      <3> QED BY <1>1, <3>2
    <2>3. at[n + 2] = at[s[1]] /\ t.stack[1] = at[s[1]]
      <3>1. 1 \in 1..d /\ s[1] # 0
        BY <1>2, <1>10
      <3> QED BY <1>1, <1>4, <1>5, <1>10, <3>1
    <2> HIDE DEF u
    <2>4. ASSUME NEW j \in 1..(d - 1) PROVE u.stack[j] = at[Restacked(items, n, d, s)[j]]
      <3>1. j + 1 \in 1..d
        BY <1>2
      <3> QED BY <1>1, <2>1, <2>2, <3>1
    <2> QED BY <2>1, <2>2, <2>3, <2>4
  <1> QED BY <1>6, <1>8, <1>9, <1>10

\* What the summary's globals are.
LEMMA GlobalsInEffect ==
  ASSUME HidAssumption, NEW items \in Seq(Item), StackSuffices(items), NEW N \in Nat, N = Len(items)
  PROVE  \A n \in 0..N : Summary(items)[n].g = InEffect(items)[n + 1]
  <1> DEFINE t(n) == Summary(items)[n]
             T == {n \in 0..N : t(n).g = InEffect(items)[n + 1] /\ Saves(items, n, t(n).stack)}
  <1>1. 0 \in T
    <2>1. t(0) = NoSummary /\ InEffect(items)[0 + 1] = DefaultGlobals
      BY SummaryDef, InEffectDef
    <2>2. t(0).g = InEffect(items)[0 + 1]
      BY <2>1 DEF NoSummary
    <2>3. Saves(items, 0, t(0).stack)
      <3>1. t(0).stack = <<>> /\ Len(<<>>) = 0
        BY <2>1 DEF NoSummary
      <3>2. \A j \in 1..0 : <<>>[j] = InEffect(items)[<<>>[j]]
        OBVIOUS
      <3>3. Stacked(items, 0, 0, <<>>)
        BY StackedInit
      <3>4. Saves(items, 0, <<>>)
        <4> DEFINE s == <<>>
        <4>1. Stacked(items, 0, 0, s) /\ Len(s) = 0 /\ \A j \in 1..0 : s[j] = InEffect(items)[s[j]]
          BY <3>1, <3>2, <3>3
        <4> HIDE DEF s
        <4>2. Saves(items, 0, s)
          BY <4>1 DEF Saves
        <4> QED BY <4>2 DEF s
      <3> HIDE DEF t
      <3> QED BY <3>1, <3>4
    <2> QED BY <2>2, <2>3
  <1>2. ASSUME NEW n \in 0..(N - 1), n \in T PROVE n + 1 \in T
    <2>1. SummaryOK(t(n))
      BY SummaryTyped
    <2>2. t(n + 1) = Summarise(t(n), items[n + 1])
      BY SummaryDef
    <2>3. t(n).g = InEffect(items)[n + 1] /\ Saves(items, n, t(n).stack)
      BY <1>2
    <2> HIDE DEF t
    <2>4. /\ Summarise(t(n), items[n + 1]).g = InEffect(items)[n + 2]
          /\ Saves(items, n + 1, Summarise(t(n), items[n + 1]).stack)
      BY <2>1, <2>3, SavesStep
    <2>5. n + 1 \in 0..N /\ (n + 1) + 1 = n + 2
      OBVIOUS
    <2> QED BY <2>2, <2>4, <2>5
  <1>3. \A k \in 0..N : k \in T
    <2> HIDE DEF T
    <2> QED BY <1>1, <1>2, UpTo
  <1> QED BY <1>3

-----------------------------------------------------------------------------
(* Sums over a set of places *)

\* The sum of f over the members of S up to n.
PartialSum(f, S, N) ==
  LET sum[n \in 0..N] == IF n = 0 THEN 0 ELSE sum[n - 1] + (IF n \in S THEN f[n] ELSE 0)
  IN sum

\* The recursive function it is.
LEMMA PartialSumDef ==
  ASSUME NEW f, NEW S, NEW N \in Nat
  PROVE  /\ PartialSum(f, S, N)[0] = 0
         /\ \A n \in 0..(N - 1) :
              PartialSum(f, S, N)[n + 1] =
                PartialSum(f, S, N)[n] + (IF n + 1 \in S THEN f[n + 1] ELSE 0)
  <1> DEFINE v(n) == IF n \in S THEN f[n] ELSE 0
             After(p, n) == IF n = 0 THEN 0 ELSE p[n - 1] + v(n)
             T == {n \in 0..N : \E p : p = [k \in 0..n |-> After(p, k)]}
  <1> HIDE DEF v
  <1>1. 0 \in T
    <2> DEFINE p == [k \in 0..0 |-> 0]
    <2>1. p = [k \in 0..0 |-> After(p, k)] /\ 0 \in 0..N
      OBVIOUS
    <2> HIDE DEF p, After
    <2> QED BY <2>1
  <1>2. ASSUME NEW n \in 0..(N - 1), n \in T PROVE n + 1 \in T
    <2>1. PICK p : p = [k \in 0..n |-> After(p, k)]
      BY <1>2
    <2> DEFINE g == [k \in 0..(n + 1) |-> IF k = n + 1 THEN p[n] + v(n + 1) ELSE p[k]]
    <2>2. ASSUME NEW k \in 0..(n + 1) PROVE g[k] = After(g, k)
      <3>1. CASE k = n + 1
        BY <3>1
      <3>2. CASE k \in 0..n
        <4>1. p[k] = After(p, k)
          BY <2>1, <3>2
        <4>2. g[k] = p[k] /\ (k # 0 => g[k - 1] = p[k - 1])
          BY <3>2
        <4> QED BY <4>1, <4>2
      <3> QED BY <3>1, <3>2
    <2>3. g = [k \in 0..(n + 1) |-> g[k]]
      OBVIOUS
    <2>4. g = [k \in 0..(n + 1) |-> After(g, k)]
      BY <2>2, <2>3
    <2>5. n + 1 \in 0..N
      OBVIOUS
    <2> HIDE DEF g, After
    <2> QED BY <2>4, <2>5
  <1>3. N \in T
    <2> HIDE DEF T
    <2>1. \A k \in 0..N : k \in T
      BY <1>1, <1>2, UpTo
    <2> QED BY <2>1
  <1>4. PartialSum(f, S, N) = CHOOSE p : p = [n \in 0..N |-> After(p, n)]
    BY Zenon DEF PartialSum, v
  <1>5. PartialSum(f, S, N) = [n \in 0..N |-> After(PartialSum(f, S, N), n)]
    BY <1>3, <1>4
  <1> HIDE DEF After
  <1>6. \A n \in 0..N : PartialSum(f, S, N)[n] = After(PartialSum(f, S, N), n)
    BY <1>5
  <1> QED BY <1>6 DEF After, v

\* It is a number,
LEMMA PartialSumType ==
  ASSUME NEW N \in Nat, NEW f, \A n \in 1..N : f[n] \in Nat, NEW S
  PROVE  \A n \in 0..N : PartialSum(f, S, N)[n] \in Nat
  <1> DEFINE p(n) == PartialSum(f, S, N)[n]
             T == {n \in 0..N : p(n) \in Nat}
  <1>1. p(0) = 0 /\ \A n \in 0..(N - 1) : p(n + 1) = p(n) + (IF n + 1 \in S THEN f[n + 1] ELSE 0)
    BY PartialSumDef
  <1> HIDE DEF p
  <1>2. 0 \in T
    BY <1>1
  <1>3. ASSUME NEW n \in 0..(N - 1), n \in T PROVE n + 1 \in T
    <2>1. f[n + 1] \in Nat /\ n + 1 \in 0..N /\ p(n) \in Nat
      BY <1>3
    <2> QED BY <1>1, <2>1
  <1>4. \A k \in 0..N : k \in T
    <2> HIDE DEF T
    <2> QED BY <1>2, <1>3, UpTo
  <1> QED BY <1>4 DEF p

\* and 0 as long as none of the members has come.
LEMMA PartialSumNone ==
  ASSUME NEW N \in Nat, NEW f, NEW S, NEW m \in 0..N, \A n \in 1..m : n \notin S
  PROVE  PartialSum(f, S, N)[m] = 0
  <1> DEFINE p(n) == PartialSum(f, S, N)[n]
             T == {n \in 0..m : p(n) = 0}
  <1>1. p(0) = 0 /\ \A n \in 0..(N - 1) : p(n + 1) = p(n) + (IF n + 1 \in S THEN f[n + 1] ELSE 0)
    BY PartialSumDef
  <1> HIDE DEF p
  <1>2. 0 \in T
    BY <1>1
  <1>3. ASSUME NEW n \in 0..(m - 1), n \in T PROVE n + 1 \in T
    <2>1. n \in 0..(N - 1) /\ n + 1 \in 0..m /\ n + 1 \in 1..m
      OBVIOUS
    <2> QED BY <1>1, <1>3, <2>1
  <1>4. \A k \in 0..m : k \in T
    <2> HIDE DEF T
    <2> QED BY <1>2, <1>3, UpTo
  <1> QED BY <1>4 DEF p

\* It only grows.
LEMMA PartialSumGrows ==
  ASSUME NEW N \in Nat, NEW f, \A n \in 1..N : f[n] \in Nat, NEW S, NEW m \in 0..N
  PROVE  PartialSum(f, S, N)[m] <= PartialSum(f, S, N)[N]
  <1> DEFINE p(n) == PartialSum(f, S, N)[n]
             T == {n \in 0..N : \A k \in 0..n : p(k) <= p(n)}
  <1>1. \A n \in 0..(N - 1) : p(n + 1) = p(n) + (IF n + 1 \in S THEN f[n + 1] ELSE 0)
    BY PartialSumDef
  <1>2. \A n \in 0..N : p(n) \in Nat
    BY PartialSumType
  <1> HIDE DEF p
  <1>3. 0 \in T
    BY <1>2
  <1>4. ASSUME NEW n \in 0..(N - 1), n \in T PROVE n + 1 \in T
    <2>1. f[n + 1] \in Nat /\ n + 1 \in 0..N /\ p(n) \in Nat /\ p(n) <= p(n + 1)
      BY <1>1, <1>2
    <2>2. ASSUME NEW k \in 0..(n + 1) PROVE p(k) <= p(n + 1)
      <3>1. CASE k = n + 1
        BY <1>2, <2>1, <3>1
      <3>2. CASE k \in 0..n
        <4>1. p(k) <= p(n) /\ p(k) \in Nat
          BY <1>2, <1>4, <3>2
        <4> QED BY <1>2, <2>1, <4>1
      <3> QED BY <3>1, <3>2
    <2> QED BY <2>1, <2>2
  <1>5. N \in T
    <2> HIDE DEF T
    <2>1. \A k \in 0..N : k \in T
      BY <1>3, <1>4, UpTo
    <2> QED BY <2>1
  <1> QED BY <1>5 DEF p

\* A member taken out counts no more.
LEMMA PartialSumOut ==
  ASSUME NEW N \in Nat, NEW f, \A n \in 1..N : f[n] \in Nat, NEW S, NEW x \in S, x \in 1..N
  PROVE  PartialSum(f, S, N)[N] = f[x] + PartialSum(f, S \ {x}, N)[N]
  <1> DEFINE p(n) == PartialSum(f, S, N)[n]
             q(n) == PartialSum(f, S \ {x}, N)[n]
             T == {n \in 0..N : p(n) = q(n) + (IF x <= n THEN f[x] ELSE 0)}
  <1>1. p(0) = 0 /\ \A n \in 0..(N - 1) : p(n + 1) = p(n) + (IF n + 1 \in S THEN f[n + 1] ELSE 0)
    BY PartialSumDef
  <1>2. q(0) = 0 /\ \A n \in 0..(N - 1) : q(n + 1) = q(n) + (IF n + 1 \in S \ {x} THEN f[n + 1] ELSE 0)
    BY PartialSumDef
  <1>3. \A n \in 0..N : p(n) \in Nat /\ q(n) \in Nat
    BY PartialSumType
  <1> HIDE DEF p, q
  <1>4. 0 \in T
    BY <1>1, <1>2
  <1>5. ASSUME NEW n \in 0..(N - 1), n \in T PROVE n + 1 \in T
    <2>1. n + 1 \in 0..N /\ n + 1 \in 1..N /\ n \in 0..N /\ f[n + 1] \in Nat /\ f[x] \in Nat
      OBVIOUS
    <2>2. p(n) = q(n) + (IF x <= n THEN f[x] ELSE 0)
      BY <1>5
    <2>3. CASE x = n + 1
      BY <1>1, <1>2, <1>3, <2>1, <2>2, <2>3
    <2>4. CASE x # n + 1
      <3>1. n + 1 \in S <=> n + 1 \in S \ {x}
        BY <2>4
      <3>2. x <= n <=> x <= n + 1
        BY <2>4
      <3> DEFINE a == IF n + 1 \in S THEN f[n + 1] ELSE 0
                 b == IF x <= n THEN f[x] ELSE 0
      <3>3. a \in Nat /\ b \in Nat
        BY <2>1
      <3>4. p(n + 1) = p(n) + a /\ q(n + 1) = q(n) + a
        BY <1>1, <1>2, <3>1
      <3>5. p(n) = q(n) + b
        BY <2>2
      <3>6. b = IF x <= n + 1 THEN f[x] ELSE 0
        BY <3>2
      <3> HIDE DEF a, b
      <3>7. p(n + 1) = q(n + 1) + b
        BY <1>3, <2>1, <3>3, <3>4, <3>5
      <3> QED BY <2>1, <3>6, <3>7
    <2> QED BY <2>3, <2>4
  <1>6. \A k \in 0..N : k \in T
    <2> HIDE DEF T
    <2> QED BY <1>4, <1>5, UpTo
  <1>7. p(N) = q(N) + f[x] /\ f[x] \in Nat /\ q(N) \in Nat
    BY <1>3, <1>6
  <1> QED BY <1>7 DEF p, q

\* What the sum over a set takes out of it next.
Chosen(s) == CHOOSE x \in s : TRUE

\* The sum over a set of places, whatever order it is taken in.
LEMMA SumIsPartialSum ==
  ASSUME NEW N \in Nat, NEW f, \A n \in 1..N : f[n] \in Nat, NEW S \in SUBSET (1..N)
  PROVE  SumFunctionOnSet(f, S) = PartialSum(f, S, N)[N]
  <1> DEFINE p(s) == PartialSum(f, s, N)[N]
             Step(g, s) == IF s = {} THEN 0 ELSE f[Chosen(s)] + g[s \ {Chosen(s)}]
             sum == CHOOSE g : g = [s \in SUBSET S |-> Step(g, s)]
  <1>1. SumFunctionOnSet(f, S) = sum[S]
    BY Zenon DEF SumFunctionOnSet, FoldFunctionOnSet, MapThenFoldSet, Chosen
  <1>2. \A s \in SUBSET S : s # {} => Chosen(s) \in s
    BY DEF Chosen
  <1>3. ASSUME NEW s \in SUBSET S, s # {}
        PROVE  /\ p(s) = f[Chosen(s)] + p(s \ {Chosen(s)}) /\ f[Chosen(s)] \in Nat /\ p(s \ {Chosen(s)}) \in Nat
               /\ s \ {Chosen(s)} \in SUBSET S
    <2>1. Chosen(s) \in s /\ Chosen(s) \in 1..N
      BY <1>2, <1>3
    <2>2. p(s) = f[Chosen(s)] + p(s \ {Chosen(s)})
      BY <2>1, PartialSumOut
    <2>3. p(s \ {Chosen(s)}) \in Nat
      BY PartialSumType
    <2> QED BY <2>1, <2>2, <2>3
  <1>4. p({}) = 0
    BY PartialSumNone
  <1> HIDE DEF p
  <1>5. sum = [s \in SUBSET S |-> Step(sum, s)]
    <2> DEFINE g == [s \in SUBSET S |-> p(s)]
    <2>1. ASSUME NEW s \in SUBSET S PROVE p(s) = Step(g, s)
      <3>1. CASE s = {}
        BY <1>4, <3>1
      <3>2. CASE s # {}
        <4>1. g[s \ {Chosen(s)}] = p(s \ {Chosen(s)})
          BY <1>3, <3>2
        <4> HIDE DEF g
        <4> QED BY <1>3, <3>2, <4>1
      <3> QED BY <3>1, <3>2
    <2>2. g = [s \in SUBSET S |-> Step(g, s)]
      <3> HIDE DEF Step
      <3> QED BY <2>1
    <2> HIDE DEF g, Step
    <2> QED BY <2>2
  <1>6. \A s \in SUBSET S : sum[s] = Step(sum, s)
    <2> HIDE DEF sum, Step
    <2> QED BY <1>5
  <1> HIDE DEF sum
  <1>7. IsFiniteSet(S)
    <2>1. IsFiniteSet(1..N)
      BY FS_Interval
    <2> QED BY <2>1, FS_Subset
  <1> DEFINE T == {n \in 0..Cardinality(S) :
                     \A s \in SUBSET S : Cardinality(s) = n => sum[s] = p(s)}
  <1>8. \A s \in SUBSET S : IsFiniteSet(s)
    BY <1>7, FS_Subset
  <1>9. 0 \in T
    <2>1. Cardinality(S) \in Nat
      BY <1>7, FS_CardinalityType
    <2>2. ASSUME NEW s \in SUBSET S, Cardinality(s) = 0 PROVE sum[s] = p(s)
      <3>1. s = {}
        BY <1>8, <2>2, FS_EmptySet
      <3> QED BY <1>4, <1>6, <3>1
    <2> QED BY <2>1, <2>2
  <1>10. ASSUME NEW n \in 0..(Cardinality(S) - 1), n \in T PROVE n + 1 \in T
    <2>1. ASSUME NEW s \in SUBSET S, Cardinality(s) = n + 1 PROVE sum[s] = p(s)
      <3>1. s # {}
        <4>1. n + 1 # 0 /\ Cardinality({}) = 0
          BY FS_EmptySet
        <4> QED BY <2>1, <4>1
      <3>2. Chosen(s) \in s
        BY <1>2, <3>1
      <3>3. Cardinality(s \ {Chosen(s)}) = n
        <4>1. Cardinality(s \ {Chosen(s)}) = Cardinality(s) - 1
          BY <1>8, <3>2, FS_RemoveElement
        <4> QED BY <2>1, <4>1
      <3>4. sum[s \ {Chosen(s)}] = p(s \ {Chosen(s)})
        BY <1>3, <1>10, <3>1, <3>3
      <3>5. sum[s] = f[Chosen(s)] + sum[s \ {Chosen(s)}]
        BY <1>6, <3>1
      <3> QED BY <1>3, <3>1, <3>4, <3>5
    <2>2. n + 1 \in 0..Cardinality(S)
      <3>1. Cardinality(S) \in Nat
        BY <1>7, FS_CardinalityType
      <3> QED BY <3>1
    <2> QED BY <2>1, <2>2
  <1>11. Cardinality(S) \in T
    <2> DEFINE c == Cardinality(S)
    <2>1. c \in Nat
      BY <1>7, FS_CardinalityType
    <2>2. 0 \in T /\ \A k \in 0..(c - 1) : k \in T => k + 1 \in T
      BY <1>9, <1>10
    <2>3. \A k \in 0..c : k \in T
      <3> HIDE DEF T, c
      <3> QED BY <2>1, <2>2, UpTo
    <2> HIDE DEF T, c
    <2>4. c \in T
      BY <2>1, <2>3
    <2> QED BY <2>4 DEF c
  <1>12. sum[S] = p(S)
    BY <1>11
  <1> QED BY <1>1, <1>12 DEF p

-----------------------------------------------------------------------------
(* log_report_summary: the reports *)

\* What the reports kept after n items are: one for each of the reports among
\* them, unless there is no room, with the sum of its main items.
Summed(items, n, r) ==
  /\ \A i \in 1..Len(r) :
       /\ \E k \in 1..n : k \in MainItems(items, r[i].id, r[i].kind)
       /\ r[i].bits = PartialSum(Sizes(items), MainItems(items, r[i].id, r[i].kind), Len(items))[n]
       /\ r[i].page = InEffect(items)[Min(MainItems(items, r[i].id, r[i].kind))].page
  /\ \A i, j \in 1..Len(r) : r[i].id = r[j].id /\ r[i].kind = r[j].kind => i = j
  /\ Len(r) # MAX_REPORTS =>
       \A k \in 1..n : items[k].item = "main" =>
         \E i \in 1..Len(r) : r[i].id = InEffect(items)[k].id /\ r[i].kind = items[k].kind

\* A size is a number.
LEMMA SizesType ==
  ASSUME HidAssumption, NEW items \in Seq(Item), StackSuffices(items), NEW N \in Nat, N = Len(items)
  PROVE  /\ \A k \in 1..(N + 1) : InEffect(items)[k] \in Globals
         /\ \A k \in 1..N : /\ Sizes(items)[k] = InEffect(items)[k].size * InEffect(items)[k].count
                            /\ Sizes(items)[k] \in Nat
  <1>1. ASSUME NEW k \in 1..(N + 1) PROVE InEffect(items)[k] \in Globals
    <2>1. k - 1 \in 0..N /\ (k - 1) + 1 = k
      OBVIOUS
    <2>2. Summary(items)[k - 1].g = InEffect(items)[k] /\ SummaryOK(Summary(items)[k - 1])
      BY <2>1, GlobalsInEffect, SummaryTyped
    <2> QED BY <2>2 DEF SummaryOK
  <1>2. ASSUME NEW k \in 1..N
        PROVE  /\ Sizes(items)[k] = InEffect(items)[k].size * InEffect(items)[k].count
               /\ Sizes(items)[k] \in Nat
    <2>1. DOMAIN items = 1..N
      BY LenProperties
    <2>2. Sizes(items)[k] = InEffect(items)[k].size * InEffect(items)[k].count
      BY <2>1 DEF Sizes
    <2>3. InEffect(items)[k].size \in Nat /\ InEffect(items)[k].count \in Nat
      BY <1>1 DEF Globals
    <2>4. \A i, j \in Nat : i * j \in Nat
      OBVIOUS
    <2> QED BY <2>2, <2>3, <2>4, Zenon
  <1> QED BY <1>1, <1>2

\* Whether an item is one of a report's, and what that makes of the sum.
LEMMA ItemAdds ==
  ASSUME HidAssumption, NEW items \in Seq(Item), StackSuffices(items), NEW N \in Nat, N = Len(items),
         NEW n \in 0..(N - 1), NEW id, NEW sort
  PROVE  /\ n + 1 \in MainItems(items, id, sort) <=>
              /\ items[n + 1].item = "main" /\ items[n + 1].kind = sort
              /\ InEffect(items)[n + 1].id = id
         /\ PartialSum(Sizes(items), MainItems(items, id, sort), N)[n] \in Nat
         /\ Sizes(items)[n + 1] \in Nat
         /\ PartialSum(Sizes(items), MainItems(items, id, sort), N)[n + 1] =
              IF n + 1 \in MainItems(items, id, sort)
              THEN PartialSum(Sizes(items), MainItems(items, id, sort), N)[n] + Sizes(items)[n + 1]
              ELSE PartialSum(Sizes(items), MainItems(items, id, sort), N)[n]
  <1> DEFINE f == Sizes(items)
             S == MainItems(items, id, sort)
             p(k) == PartialSum(f, S, N)[k]
  <1>1. n + 1 \in S <=> /\ items[n + 1].item = "main" /\ items[n + 1].kind = sort
                        /\ InEffect(items)[n + 1].id = id
    <2>1. DOMAIN items = 1..N /\ n + 1 \in 1..N
      BY LenProperties
    <2> QED BY <2>1 DEF MainItems
  <1>2. \A k \in 1..N : f[k] \in Nat
    BY SizesType
  <1> HIDE DEF f, S
  <1>3. p(n) \in Nat /\ f[n + 1] \in Nat
    BY <1>2, PartialSumType
  <1>4. p(n + 1) = p(n) + (IF n + 1 \in S THEN f[n + 1] ELSE 0)
    BY PartialSumDef
  <1> HIDE DEF p
  <1>5. p(n + 1) = IF n + 1 \in S THEN p(n) + f[n + 1] ELSE p(n)
    BY <1>3, <1>4
  <1> QED BY <1>1, <1>3, <1>5 DEF p, f, S

\* The bits of a report are the sum over its main items,
LEMMA BitsSummed ==
  ASSUME HidAssumption, NEW items \in Seq(Item), StackSuffices(items), NEW N \in Nat, N = Len(items),
         NEW id, NEW sort
  PROVE  BitsOf(items, id, sort) = PartialSum(Sizes(items), MainItems(items, id, sort), N)[N]
  <1> DEFINE f == Sizes(items)
             M == MainItems(items, id, sort)
  <1>1. \A k \in 1..N : f[k] \in Nat
    BY SizesType
  <1>2. M \in SUBSET (1..N)
    BY LenProperties DEF MainItems
  <1>3. BitsOf(items, id, sort) = SumFunctionOnSet(f, M)
    BY DEF BitsOf
  <1> HIDE DEF f, M
  <1> QED BY <1>1, <1>2, <1>3, SumIsPartialSum DEF f, M

\* and a report has main items.
LEMMA ReportHasItems ==
  ASSUME NEW items, NEW id, NEW sort
  PROVE  <<id, sort>> \in Reports(items) <=> MainItems(items, id, sort) # {}
  <1> DEFINE at == InEffect(items)
  <1>1. ASSUME MainItems(items, id, sort) # {} PROVE <<id, sort>> \in Reports(items)
    <2>1. PICK k \in MainItems(items, id, sort) : TRUE
      BY <1>1
    <2>2. /\ k \in {i \in DOMAIN items : items[i].item = "main"}
          /\ <<at[k].id, items[k].kind>> = <<id, sort>>
      BY <2>1 DEF MainItems
    <2> QED BY <2>2 DEF Reports
  <1>2. ASSUME <<id, sort>> \in Reports(items) PROVE MainItems(items, id, sort) # {}
    <2>1. PICK k \in {i \in DOMAIN items : items[i].item = "main"} :
                 <<id, sort>> = <<at[k].id, items[k].kind>>
      BY <1>2 DEF Reports
    <2>2. id = at[k].id /\ items[k].kind = sort
      BY <2>1
    <2> QED BY <2>1, <2>2 DEF MainItems
  <1> QED BY <1>1, <1>2

\* When the bits of every report fit, so do they on the way.
LEMMA SumsFit ==
  ASSUME HidAssumption, NEW items \in Seq(Item), StackSuffices(items), BitsFit(items),
         NEW N \in Nat, N = Len(items), NEW id, NEW sort, NEW m \in 0..N
  PROVE  PartialSum(Sizes(items), MainItems(items, id, sort), N)[m] < U32
  <1> DEFINE p(k) == PartialSum(Sizes(items), MainItems(items, id, sort), N)[k]
  <1>1. \A k \in 1..N : Sizes(items)[k] \in Nat
    BY SizesType
  <1>2. p(m) \in Nat /\ p(N) \in Nat /\ p(m) <= p(N)
    <2>1. p(m) <= p(N)
      BY <1>1, PartialSumGrows
    <2>2. \A k \in 0..N : p(k) \in Nat
      BY <1>1, PartialSumType
    <2> QED BY <2>1, <2>2
  <1>3. U32 \in Nat \ {0}
    BY DEF HidAssumption
  <1>4. CASE MainItems(items, id, sort) = {}
    <2>1. p(m) = 0
      BY <1>4, PartialSumNone
    <2> QED BY <1>3, <2>1
  <1>5. CASE MainItems(items, id, sort) # {}
    <2>1. <<id, sort>> \in Reports(items)
      BY <1>5, ReportHasItems
    <2>2. BitsOf(items, id, sort) < U32
      <3> DEFINE r == <<id, sort>>
      <3>1. r[1] = id /\ r[2] = sort /\ r \in Reports(items)
        BY <2>1
      <3> HIDE DEF r
      <3>2. BitsOf(items, r[1], r[2]) < U32
        BY <3>1 DEF BitsFit
      <3> QED BY <3>1, <3>2
    <2>3. p(N) < U32
      BY <2>2, BitsSummed
    <2> HIDE DEF p
    <2>4. p(m) < U32
      BY <1>2, <1>3, <2>3
    <2> QED BY <2>4 DEF p
  <1> QED BY <1>4, <1>5

\* An item that is not a main item leaves the reports summed,
LEMMA SummedOther ==
  ASSUME HidAssumption, NEW items \in Seq(Item), StackSuffices(items), NEW N \in Nat, N = Len(items),
         NEW n \in 0..(N - 1), NEW r, Summed(items, n, r), items[n + 1].item # "main"
  PROVE  Summed(items, n + 1, r)
  <1>1. \A k \in 1..(n + 1) : k = n + 1 \/ k \in 1..n
    OBVIOUS
  <1>2. ASSUME NEW i \in 1..Len(r)
        PROVE  r[i].bits = PartialSum(Sizes(items), MainItems(items, r[i].id, r[i].kind), Len(items))[n + 1]
    <2>1. PartialSum(Sizes(items), MainItems(items, r[i].id, r[i].kind), N)[n + 1] =
             PartialSum(Sizes(items), MainItems(items, r[i].id, r[i].kind), N)[n]
      BY ItemAdds
    <2> QED BY <2>1 DEF Summed
  <1>3. ASSUME NEW i \in 1..Len(r)
        PROVE  \E k \in 1..(n + 1) : k \in MainItems(items, r[i].id, r[i].kind)
    BY DEF Summed
  <1> QED BY <1>1, <1>2, <1>3 DEF Summed

\* and so does a main item.
LEMMA SummedMain ==
  ASSUME HidAssumption, NEW items \in Seq(Item), StackSuffices(items), BitsFit(items),
         NEW N \in Nat, N = Len(items), NEW n \in 0..(N - 1), items[n + 1].item = "main",
         NEW t, SummaryOK(t), t.g = InEffect(items)[n + 1], Summed(items, n, t.reports)
  PROVE  Summed(items, n + 1, Summarise(t, items[n + 1]).reports)
  <1> DEFINE x == items[n + 1]
             r == t.reports
             q == Summarise(t, x).reports
             at == InEffect(items)
             L == Len(r)
             M(i, k) == MainItems(items, i, k)
             p(i, k, m) == PartialSum(Sizes(items), M(i, k), N)[m]
             z == t.g.size * t.g.count
  <1>0. /\ x \in Item /\ DOMAIN items = 1..N /\ n + 1 \in 1..N /\ L \in Nat
        /\ DOMAIN r = 1..L /\ L <= MAX_REPORTS
    BY ElementOfSeq, LenProperties DEF SummaryOK
  <1>1. z \in Nat /\ Sizes(items)[n + 1] = z
    BY <1>0, SizesType
  <1>2. \A i, k : n + 1 \in M(i, k) <=> x.kind = k /\ t.g.id = i
    BY ItemAdds
  <1>3. \A i, k : /\ p(i, k, n) \in Nat
                  /\ p(i, k, n + 1) = IF n + 1 \in M(i, k) THEN p(i, k, n) + z ELSE p(i, k, n)
    BY <1>1, ItemAdds
  <1>3a. ASSUME NEW i, NEW k PROVE p(i, k, n + 1) < U32
    <2>1. n + 1 \in 0..N
      OBVIOUS
    <2> QED BY <2>1, SumsFit
  <1>4. \A i \in 1..L : /\ \E k \in 1..n : k \in M(r[i].id, r[i].kind)
                        /\ r[i].bits = p(r[i].id, r[i].kind, n)
                        /\ r[i].page = at[Min(M(r[i].id, r[i].kind))].page
    BY DEF Summed
  <1>5. \A i, j \in 1..L : r[i].id = r[j].id /\ r[i].kind = r[j].kind => i = j
    BY DEF Summed
  <1>6. L # MAX_REPORTS =>
          \A k \in 1..n : items[k].item = "main" =>
            \E i \in 1..L : r[i].id = at[k].id /\ r[i].kind = items[k].kind
    BY DEF Summed
  <1>7. Kept(t, x.kind) = {i \in 1..L : r[i].id = t.g.id /\ r[i].kind = x.kind}
    BY <1>0 DEF Kept
  <1>8. \A i \in 1..L : i \in Kept(t, x.kind) <=> n + 1 \in M(r[i].id, r[i].kind)
    BY <1>2, <1>7
  <1>9. \A i \in 1..L : /\ r[i].id \in Nat
                        /\ \A b : /\ [r[i] EXCEPT !.bits = b].id = r[i].id
                                  /\ [r[i] EXCEPT !.bits = b].kind = r[i].kind
                                  /\ [r[i] EXCEPT !.bits = b].page = r[i].page
                                  /\ [r[i] EXCEPT !.bits = b].bits = b
    <2>1. \A i \in 1..L : r[i] \in Entry
      BY ElementOfSeq DEF SummaryOK
    <2> QED BY <2>1 DEF Entry
  <1>10. \A k \in 1..(n + 1) : k = n + 1 \/ k \in 1..n
    OBVIOUS
  <1>11. /\ Kept(t, x.kind) # {} =>
              \E m \in Kept(t, x.kind) :
                /\ Len(q) = L
                /\ \A i \in 1..L :
                     q[i] = IF i = m THEN [r[i] EXCEPT !.bits = Wrap(@ + z)] ELSE r[i]
         /\ Kept(t, x.kind) = {} /\ L = MAX_REPORTS => q = r
         /\ Kept(t, x.kind) = {} /\ L # MAX_REPORTS =>
              /\ Len(q) = L + 1
              /\ \A i \in 1..L : q[i] = r[i]
              /\ q[L + 1] = [id |-> t.g.id, kind |-> x.kind, bits |-> Wrap(z), page |-> t.g.page]
    BY <1>0, MainStep
  <1>12. t.g = at[n + 1] /\ L \in Nat
    BY <1>0
  <1> SUFFICES /\ \A i \in 1..Len(q) :
                    /\ \E k \in 1..(n + 1) : k \in M(q[i].id, q[i].kind)
                    /\ q[i].bits = p(q[i].id, q[i].kind, n + 1)
                    /\ q[i].page = at[Min(M(q[i].id, q[i].kind))].page
               /\ \A i, j \in 1..Len(q) : q[i].id = q[j].id /\ q[i].kind = q[j].kind => i = j
               /\ Len(q) # MAX_REPORTS =>
                    \A k \in 1..(n + 1) : items[k].item = "main" =>
                      \E i \in 1..Len(q) : q[i].id = at[k].id /\ q[i].kind = items[k].kind
    BY DEF Summed
  <1> HIDE DEF q, M, p, z, at, r, L
  <1>13. CASE Kept(t, x.kind) # {}
    <2>1. PICK m \in Kept(t, x.kind) :
                /\ Len(q) = L
                /\ \A i \in 1..L :
                     q[i] = IF i = m THEN [r[i] EXCEPT !.bits = Wrap(@ + z)] ELSE r[i]
      BY <1>11, <1>13
    <2>2. m \in 1..L /\ r[m].id = t.g.id /\ r[m].kind = x.kind
      BY <1>7
    <2>2a. Wrap(r[m].bits + z) = r[m].bits + z
      <3>1. n + 1 \in M(r[m].id, r[m].kind) /\ r[m].bits = p(r[m].id, r[m].kind, n)
        BY <1>2, <1>4, <2>2
      <3>2. r[m].bits + z = p(r[m].id, r[m].kind, n + 1) /\ r[m].bits \in Nat
        BY <1>3, <3>1
      <3>3. r[m].bits + z < U32 /\ r[m].bits + z \in Nat
        BY <1>1, <1>3a, <3>2
      <3> QED BY <3>3, WrapType
    <2>3. \A i \in 1..L : /\ q[i].id = r[i].id /\ q[i].kind = r[i].kind /\ q[i].page = r[i].page
                          /\ q[i].bits = IF i = m THEN r[i].bits + z ELSE r[i].bits
      <3> SUFFICES ASSUME NEW i \in 1..L
                   PROVE  /\ q[i].id = r[i].id /\ q[i].kind = r[i].kind /\ q[i].page = r[i].page
                          /\ q[i].bits = IF i = m THEN r[i].bits + z ELSE r[i].bits
        OBVIOUS
      <3>1. CASE i = m
        <4> DEFINE b == r[i].bits + z
        <4>1. q[i] = [r[i] EXCEPT !.bits = b]
          BY <2>1, <2>2a, <3>1
        <4> HIDE DEF b
        <4> QED BY <1>9, <3>1, <4>1 DEF b
      <3>2. CASE i # m
        BY <2>1, <3>2
      <3> QED BY <3>1, <3>2
    <2>4. \A i \in 1..L : n + 1 \in M(r[i].id, r[i].kind) <=> i = m
      BY <1>2, <1>5, <2>2
    <2>5. ASSUME NEW i \in 1..L
          PROVE  /\ \E k \in 1..(n + 1) : k \in M(q[i].id, q[i].kind)
                 /\ q[i].bits = p(q[i].id, q[i].kind, n + 1)
                 /\ q[i].page = at[Min(M(q[i].id, q[i].kind))].page
      <3>1. \E k \in 1..(n + 1) : k \in M(q[i].id, q[i].kind)
        BY <1>4, <2>3
      <3>2. q[i].bits = p(q[i].id, q[i].kind, n + 1)
        BY <1>3, <1>4, <2>3, <2>4
      <3>3. q[i].page = at[Min(M(q[i].id, q[i].kind))].page
        BY <1>4, <2>3
      <3> QED BY <3>1, <3>2, <3>3
    <2>6. \A i, j \in 1..L : q[i].id = q[j].id /\ q[i].kind = q[j].kind => i = j
      BY <1>5, <2>3
    <2>7. ASSUME L # MAX_REPORTS, NEW k \in 1..(n + 1), items[k].item = "main"
          PROVE  \E i \in 1..L : q[i].id = at[k].id /\ q[i].kind = items[k].kind
      <3>1. CASE k = n + 1
        BY <1>12, <2>2, <2>3, <3>1
      <3>2. CASE k \in 1..n
        BY <1>6, <2>3, <2>7, <3>2
      <3> QED BY <1>10, <3>1, <3>2
    <2> QED BY <2>1, <2>5, <2>6, <2>7
  <1>14. CASE Kept(t, x.kind) = {} /\ L = MAX_REPORTS
    <2>1. q = r
      BY <1>11, <1>14
    <2>2. Len(q) = L
      BY <2>1 DEF L
    <2>3. \A i \in 1..L : n + 1 \notin M(r[i].id, r[i].kind)
      BY <1>8, <1>14
    <2>4. ASSUME NEW i \in 1..L
          PROVE  /\ \E k \in 1..(n + 1) : k \in M(r[i].id, r[i].kind)
                 /\ r[i].bits = p(r[i].id, r[i].kind, n + 1)
      BY <1>3, <1>4, <2>3
    <2> QED BY <1>4, <1>5, <1>14, <2>1, <2>2, <2>4
  <1>15. CASE Kept(t, x.kind) = {} /\ L # MAX_REPORTS
    <2>1. /\ Len(q) = L + 1
          /\ \A i \in 1..L : q[i] = r[i]
          /\ q[L + 1] = [id |-> t.g.id, kind |-> x.kind, bits |-> Wrap(z), page |-> t.g.page]
      BY <1>11, <1>15
    <2>2. /\ q[L + 1].id = t.g.id /\ q[L + 1].kind = x.kind /\ q[L + 1].bits = Wrap(z)
          /\ q[L + 1].page = at[n + 1].page
      BY <1>12, <2>1
    <2>3. \A k \in 1..n : k \notin M(t.g.id, x.kind)
      <3>1. SUFFICES ASSUME NEW k \in 1..n, k \in M(t.g.id, x.kind) PROVE FALSE
        OBVIOUS
      <3>2. items[k].item = "main" /\ items[k].kind = x.kind /\ at[k].id = t.g.id
        BY <3>1 DEF M, MainItems, at
      <3>3. PICK i \in 1..L : r[i].id = at[k].id /\ r[i].kind = items[k].kind
        BY <1>6, <1>15, <3>2
      <3> QED BY <1>7, <1>15, <3>2, <3>3
    <2>4. p(t.g.id, x.kind, n) = 0
      BY <2>3, PartialSumNone DEF p
    <2>5. n + 1 \in M(t.g.id, x.kind)
      BY <1>2
    <2>6. Min(M(t.g.id, x.kind)) = n + 1
      <3> DEFINE S == M(t.g.id, x.kind)
      <3>1. S \in SUBSET Nat /\ S \subseteq 1..N
        BY <1>0 DEF M, MainItems
      <3>2. Min(S) \in S /\ \A k \in S : Min(S) <= k
        BY <2>5, <3>1, MinLeast
      <3> HIDE DEF S
      <3>3. n + 1 \in S /\ \A k \in 1..n : k \notin S
        BY <2>3, <2>5 DEF S
      <3>4. Min(S) = n + 1
        <4>1. Min(S) \in 1..N /\ Min(S) <= n + 1 /\ Min(S) \notin 1..n
          BY <3>1, <3>2, <3>3
        <4> QED BY <4>1
      <3> QED BY <3>4 DEF S
    <2>7. ASSUME NEW i \in 1..(L + 1)
          PROVE  /\ \E k \in 1..(n + 1) : k \in M(q[i].id, q[i].kind)
                 /\ q[i].bits = p(q[i].id, q[i].kind, n + 1)
                 /\ q[i].page = at[Min(M(q[i].id, q[i].kind))].page
      <3>1. CASE i = L + 1
        <4>1. q[i].bits = p(q[i].id, q[i].kind, n + 1)
          <5>1. p(t.g.id, x.kind, n + 1) = z
            BY <1>1, <1>3, <2>4, <2>5
          <5>2. Wrap(z) = z
            <6>1. z \in Nat /\ z < U32
              BY <1>1, <1>3a, <5>1
            <6> QED BY <6>1, WrapType
          <5> QED BY <2>2, <3>1, <5>1, <5>2
        <4>2. q[i].page = at[Min(M(q[i].id, q[i].kind))].page
          BY <2>2, <2>6, <3>1
        <4>3. \E k \in 1..(n + 1) : k \in M(q[i].id, q[i].kind)
          BY <2>2, <2>5, <3>1
        <4> QED BY <4>1, <4>2, <4>3
      <3>2. CASE i \in 1..L
        <4>1. n + 1 \notin M(r[i].id, r[i].kind)
          BY <1>8, <1>15, <3>2
        <4> QED BY <1>3, <1>4, <2>1, <3>2, <4>1
      <3> QED BY <1>0, <3>1, <3>2 DEF L
    <2>8. ASSUME NEW i \in 1..(L + 1), NEW j \in 1..(L + 1), q[i].id = q[j].id, q[i].kind = q[j].kind
          PROVE  i = j
      <3>1. \A k \in 1..L : ~(r[k].id = t.g.id /\ r[k].kind = x.kind)
        BY <1>7, <1>15
      <3>2. i \in 1..L \/ i = L + 1
        BY <1>12
      <3>3. j \in 1..L \/ j = L + 1
        BY <1>12
      <3>4. CASE i \in 1..L /\ j \in 1..L
        BY <1>5, <2>1, <2>8, <3>4
      <3>5. CASE i = L + 1 /\ j \in 1..L
        BY <2>1, <2>2, <2>8, <3>1, <3>5
      <3>6. CASE i \in 1..L /\ j = L + 1
        BY <2>1, <2>2, <2>8, <3>1, <3>6
      <3> QED BY <3>2, <3>3, <3>4, <3>5, <3>6
    <2>9. ASSUME NEW k \in 1..(n + 1), items[k].item = "main"
          PROVE  \E i \in 1..(L + 1) : q[i].id = at[k].id /\ q[i].kind = items[k].kind
      <3>1. CASE k = n + 1
        <4>1. L + 1 \in 1..(L + 1)
          BY <1>0 DEF L
        <4> QED BY <1>12, <2>2, <3>1, <4>1
      <3>2. CASE k \in 1..n
        <4>1. PICK i \in 1..L : r[i].id = at[k].id /\ r[i].kind = items[k].kind
          BY <1>6, <1>15, <2>9, <3>2
        <4>2. i \in 1..(L + 1)
          BY <1>12
        <4> QED BY <2>1, <4>1, <4>2
      <3> QED BY <1>10, <3>1, <3>2
    <2> QED BY <2>1, <2>7, <2>8, <2>9
  <1> QED BY <1>13, <1>14, <1>15

-----------------------------------------------------------------------------
(* read_feature_reports: what is asked for *)

\* What is asked for, of reports kept.
Asks(r) ==
  {[id |-> r[n].id, len |-> FeatureLen(r[n].bits)] :
     n \in {m \in DOMAIN r : IsFeature(r[m]) /\ r[m].page # USAGE_PAGE_PS_AUTH}}

\* log_report_summary sums the reports up.
LEMMA ReportsSummed ==
  ASSUME HidAssumption, NEW items \in Seq(Item), StackSuffices(items), BitsFit(items),
         NEW N \in Nat, N = Len(items)
  PROVE  Summed(items, N, log_report_summary(items))
  <1> DEFINE t(n) == Summary(items)[n]
             T == {n \in 0..N : Summed(items, n, t(n).reports)}
  <1>1. 0 \in T
    <2>1. t(0).reports = <<>>
      BY SummaryDef DEF NoSummary
    <2>2. Len(<<>>) = 0 /\ 1..0 = {}
      OBVIOUS
    <2>3. Summed(items, 0, <<>>)
      BY <2>2 DEF Summed
    <2> HIDE DEF t
    <2> QED BY <2>1, <2>3
  <1>2. ASSUME NEW n \in 0..(N - 1), n \in T PROVE n + 1 \in T
    <2>1. t(n + 1) = Summarise(t(n), items[n + 1])
      BY SummaryDef
    <2>2. SummaryOK(t(n)) /\ t(n).g = InEffect(items)[n + 1]
      BY SummaryTyped, GlobalsInEffect
    <2>3. Summed(items, n, t(n).reports) /\ items[n + 1] \in Item
      BY <1>2, ElementOfSeq
    <2> HIDE DEF t
    <2>4. CASE items[n + 1].item = "main"
      BY <2>1, <2>2, <2>3, <2>4, SummedMain
    <2>5. CASE items[n + 1].item # "main"
      <3>1. t(n + 1).reports = t(n).reports
        <4>1. Summarise(t(n), items[n + 1]).reports = t(n).reports
          BY <2>2, <2>3, <2>5, GlobalStep
        <4> QED BY <2>1, <4>1
      <3> QED BY <2>3, <2>5, <3>1, SummedOther
    <2> QED BY <2>4, <2>5
  <1>3. \A k \in 0..N : k \in T
    <2> HIDE DEF T
    <2> QED BY <1>1, <1>2, UpTo
  <1>4. log_report_summary(items) = t(N).reports
    BY DEF log_report_summary
  <1> QED BY <1>3, <1>4

\* Every report of a descriptor is kept, when they are no more than there is room
\* for.
LEMMA AllKept ==
  ASSUME HidAssumption, NEW items \in Seq(Item), StackSuffices(items), BitsFit(items),
         Cardinality(Reports(items)) <= MAX_REPORTS, NEW r, r = log_report_summary(items),
         NEW k \in DOMAIN items, items[k].item = "main"
  PROVE  \E i \in 1..Len(r) : r[i].id = InEffect(items)[k].id /\ r[i].kind = items[k].kind
  <1> DEFINE N == Len(items)
             L == Len(r)
             at == InEffect(items)
             mains == {i \in DOMAIN items : items[i].item = "main"}
             R == Reports(items)
             pair == [i \in 1..L |-> <<r[i].id, r[i].kind>>]
  <1>1. N \in Nat /\ DOMAIN items = 1..N /\ k \in 1..N
    BY LenProperties
  <1>2. Summed(items, N, r)
    BY <1>1, ReportsSummed
  <1>3. SummaryOK(Summary(items)[N]) /\ r = Summary(items)[N].reports
    BY <1>1, SummaryTyped DEF log_report_summary
  <1>4. L \in Nat /\ L <= MAX_REPORTS
    BY <1>3, LenProperties DEF SummaryOK
  <1>5. CASE L # MAX_REPORTS
    BY <1>1, <1>2, <1>5 DEF Summed
  <1>6. CASE L = MAX_REPORTS
    <2>1. IsFiniteSet(mains)
      <3>1. IsFiniteSet(1..N) /\ mains \in SUBSET (1..N)
        BY <1>1, FS_Interval
      <3> QED BY <3>1, FS_Subset
    <2>2. R = {<<at[i].id, items[i].kind>> : i \in mains}
      BY DEF Reports
    <2>3. IsFiniteSet(R)
      <3> DEFINE f == [i \in mains |-> <<at[i].id, items[i].kind>>]
      <3>1. f \in Surjection(mains, R)
        <4> HIDE DEF mains, at, R
        <4>1. f \in [mains -> R]
          BY <2>2
        <4>2. \A v \in R : \E i \in mains : f[i] = v
          BY <2>2
        <4> QED BY <4>1, <4>2 DEF Surjection
      <3> HIDE DEF f, mains, R
      <3> QED BY <2>1, <3>1, FS_Surjection
    <2>4. pair \in Injection(1..L, R)
      <3>1. ASSUME NEW i \in 1..L PROVE pair[i] \in R
        <4>1. PICK j \in 1..N : j \in MainItems(items, r[i].id, r[i].kind)
          BY <1>2 DEF Summed
        <4>2. j \in mains /\ at[j].id = r[i].id /\ items[j].kind = r[i].kind
          BY <4>1 DEF MainItems
        <4>3. pair[i] = <<at[j].id, items[j].kind>>
          BY <4>2
        <4> HIDE DEF pair, at, mains
        <4> QED BY <2>2, <4>2, <4>3
      <3>2. ASSUME NEW i \in 1..L, NEW j \in 1..L, pair[i] = pair[j] PROVE i = j
        <4>1. r[i].id = r[j].id /\ r[i].kind = r[j].kind
          BY <3>2
        <4> QED BY <1>2, <4>1 DEF Summed
      <3>3. pair \in [1..L -> R]
        <4> HIDE DEF R
        <4> QED BY <3>1
      <3> HIDE DEF pair, R, L
      <3> QED BY <3>2, <3>3 DEF Injection, IsInjective
    <2>5. pair \in Surjection(1..L, R)
      <3>1. IsFiniteSet(1..L) /\ Cardinality(1..L) = L
        <4> HIDE DEF L
        <4>1. /\ IsFiniteSet(1..L) /\ Cardinality(1..L) = IF 1 > L THEN 0 ELSE L - 1 + 1
          BY <1>4, FS_Interval
        <4> QED BY <1>4, <4>1
      <3> HIDE DEF pair, R, L
      <3>2. Cardinality(R) \in Nat
        BY <2>3, FS_CardinalityType
      <3>3. Cardinality(1..L) <= Cardinality(R)
        BY <2>3, <2>4, FS_Injection
      <3>4. Cardinality(1..L) = Cardinality(R)
        BY <1>4, <1>6, <3>1, <3>2, <3>3 DEF R
      <3> QED BY <2>3, <2>4, <3>4, FS_Injection
    <2>6. <<at[k].id, items[k].kind>> \in R
      <3>1. k \in mains
        OBVIOUS
      <3> HIDE DEF R, mains, at
      <3> QED BY <2>2, <3>1
    <2>7. PICK i \in 1..L : pair[i] = <<at[k].id, items[k].kind>>
      <3> HIDE DEF pair, R, L, at
      <3> QED BY <2>5, <2>6 DEF Surjection
    <2>8. r[i].id = at[k].id /\ r[i].kind = items[k].kind
      BY <2>7
    <2> QED BY <2>8
  <1> QED BY <1>5, <1>6

(***************************************************************************)
(* Of every report descriptor that the stack suffices for and whose        *)
(* reports have less than 2^32 bits, the reports that log_report_summary   *)
(* keeps are asked for with the lengths that their main items add up to,   *)
(* none of the authentication's, and all of them if there is room for all. *)
(***************************************************************************)
THEOREM AsksReadable ==
  ASSUME HidAssumption, NEW items \in Seq(Item), StackSuffices(items), BitsFit(items)
  PROVE  /\ Asks(log_report_summary(items)) \subseteq Readable(items)
         /\ Cardinality(Reports(items)) <= MAX_REPORTS =>
              Asks(log_report_summary(items)) = Readable(items)
  <1> DEFINE N == Len(items)
             r == log_report_summary(items)
             L == Len(r)
             at == InEffect(items)
             M(id) == MainItems(items, id, "feature")
             ids == {s[1] : s \in {s \in Reports(items) :
                /\ s[2] = "feature" /\ s[1] # 0
                /\ PageOf(items, s[1], "feature") # USAGE_PAGE_PS_AUTH}}
             line(id) == [id |-> id, len |-> FeatureLen(BitsOf(items, id, "feature"))]
             due == {m \in DOMAIN r : IsFeature(r[m]) /\ r[m].page # USAGE_PAGE_PS_AUTH}
             ask(n) == [id |-> r[n].id, len |-> FeatureLen(r[n].bits)]
  <1>1. N \in Nat /\ DOMAIN items = 1..N
    BY LenProperties
  <1>2. Summed(items, N, r)
    BY <1>1, ReportsSummed
  <1>3. SummaryOK(Summary(items)[N]) /\ r = Summary(items)[N].reports
    BY <1>1, SummaryTyped DEF log_report_summary
  <1>4. L \in Nat /\ DOMAIN r = 1..L
    BY <1>3, LenProperties DEF SummaryOK
  <1>5. Readable(items) = {line(id) : id \in ids}
    <2> DEFINE rs == {s \in Reports(items) :
                /\ s[2] = "feature" /\ s[1] # 0
                /\ PageOf(items, s[1], "feature") # USAGE_PAGE_PS_AUTH}
    <2>1. Readable(items) = {line(s[1]) : s \in rs}
      BY Zenon DEF Readable
    <2>2. ids = {s[1] : s \in rs}
      OBVIOUS
    <2> HIDE DEF rs, line, ids
    <2> QED BY <2>1, <2>2
  <1>6. Asks(r) = {ask(n) : n \in due}
    BY Zenon DEF Asks
  <1>7. ASSUME NEW id PROVE BitsOf(items, id, "feature") = PartialSum(Sizes(items), M(id), N)[N]
    BY <1>1, BitsSummed
  <1>8. \A id : id \in ids <=>
          id # 0 /\ M(id) # {} /\ at[Min(M(id))].page # USAGE_PAGE_PS_AUTH
    <2>1. ASSUME NEW s \in Reports(items), s[2] = "feature" PROVE s = <<s[1], "feature">> /\ M(s[1]) # {}
      <3>1. PICK k \in {i \in DOMAIN items : items[i].item = "main"} : s = <<at[k].id, items[k].kind>>
        BY DEF Reports
      <3>2. s = <<s[1], "feature">>
        BY <2>1, <3>1
      <3> QED BY <3>2, ReportHasItems
    <2>2. \A id : PageOf(items, id, "feature") = at[Min(M(id))].page
      BY DEF PageOf
    <2> HIDE DEF at
    <2>3. ASSUME NEW id \in ids PROVE id # 0 /\ M(id) # {} /\ at[Min(M(id))].page # USAGE_PAGE_PS_AUTH
      <3>1. PICK s \in Reports(items) : /\ s[2] = "feature" /\ s[1] # 0 /\ id = s[1]
                /\ PageOf(items, s[1], "feature") # USAGE_PAGE_PS_AUTH
        OBVIOUS
      <3> HIDE DEF M
      <3> QED BY <2>1, <2>2, <3>1 DEF M
    <2>4. ASSUME NEW id, id # 0, M(id) # {}, at[Min(M(id))].page # USAGE_PAGE_PS_AUTH
          PROVE  id \in ids
      <3> DEFINE s == <<id, "feature">>
      <3>1. s \in Reports(items) /\ s[1] = id /\ s[2] = "feature"
        BY <2>4, ReportHasItems
      <3>2. PageOf(items, s[1], "feature") # USAGE_PAGE_PS_AUTH
        BY <2>2, <2>4, <3>1
      <3> HIDE DEF s
      <3> QED BY <2>4, <3>1, <3>2
    <2> HIDE DEF ids
    <2> QED BY <2>3, <2>4
  <1>9. ASSUME NEW n \in due
        PROVE  r[n].id \in ids /\ ask(n) = line(r[n].id)
    <2>1. n \in 1..L /\ r[n].kind = "feature" /\ r[n].id # 0 /\ r[n].page # USAGE_PAGE_PS_AUTH
      BY <1>4 DEF IsFeature
    <2>2. /\ \E k \in 1..N : k \in M(r[n].id)
          /\ r[n].bits = PartialSum(Sizes(items), M(r[n].id), N)[N]
          /\ r[n].page = at[Min(M(r[n].id))].page
      BY <1>2, <2>1 DEF Summed
    <2>3. r[n].bits = BitsOf(items, r[n].id, "feature")
      BY <1>7, <2>2
    <2>4. ask(n) = line(r[n].id)
      BY <2>3
    <2> HIDE DEF ids, at, M, line, ask
    <2> QED BY <1>8, <2>1, <2>2, <2>4
  <1>10. ASSUME Cardinality(Reports(items)) <= MAX_REPORTS, NEW id \in ids
         PROVE  \E n \in due : id = r[n].id
    <2>1. id # 0 /\ M(id) # {} /\ at[Min(M(id))].page # USAGE_PAGE_PS_AUTH
      <3> HIDE DEF ids, at, M
      <3> QED BY <1>8, <1>10
    <2>2. PICK k \in M(id) : TRUE
      BY <2>1
    <2>3. k \in DOMAIN items /\ items[k].item = "main" /\ at[k].id = id /\ items[k].kind = "feature"
      BY <2>2 DEF MainItems
    <2>4. PICK n \in 1..L : r[n].id = id /\ r[n].kind = "feature"
      <3>1. \E i \in 1..L : r[i].id = at[k].id /\ r[i].kind = items[k].kind
        <4> DEFINE v == r
        <4> HIDE DEF v
        <4>1. v = log_report_summary(items)
          BY DEF v
        <4>2. \E i \in 1..Len(v) : v[i].id = at[k].id /\ v[i].kind = items[k].kind
          BY <1>10, <2>3, <4>1, AllKept
        <4> QED BY <4>2 DEF v
      <3> HIDE DEF r, at
      <3> QED BY <2>3, <3>1
    <2>5. r[n].page = at[Min(M(id))].page
      BY <1>2, <2>4 DEF Summed
    <2>6. n \in due
      <3> HIDE DEF r, at, M
      <3> QED BY <1>4, <2>1, <2>4, <2>5 DEF IsFeature
    <2> HIDE DEF due, r
    <2> QED BY <2>4, <2>6
  <1> HIDE DEF ids, line, ask, due, r
  <1>11. Asks(r) \subseteq Readable(items)
    BY <1>5, <1>6, <1>9
  <1>12. ASSUME Cardinality(Reports(items)) <= MAX_REPORTS PROVE Readable(items) \subseteq Asks(r)
    <2>1. ASSUME NEW id \in ids PROVE line(id) \in Asks(r)
      <3>1. PICK n \in due : id = r[n].id
        BY <1>10, <1>12
      <3>2. ask(n) = line(id)
        BY <1>9, <3>1
      <3> QED BY <1>6, <3>2
    <2> QED BY <1>5, <2>1
  <1> QED BY <1>11, <1>12 DEF r

-----------------------------------------------------------------------------
(* host_task, probe and monitor_interface *)

\* A monitor's change does not outlast its interval and one transfer.
MonitorRecord ==
  [on : {"no", "yes"}, last : ReportValues, unlogged : {"no", "yes"},
   since : 0..REPORT_LOG_INTERVAL, wait : 0..REPORT_LOG_INTERVAL, age : Nat]
MonitorOK(m) ==
  /\ m \in MonitorRecord
  /\ m.unlogged = "no" => m.age = 0
  /\ m.unlogged = "yes" =>
       /\ m.age <= REPORT_LOG_INTERVAL - 1 + m.wait
       /\ m.since < REPORT_LOG_INTERVAL => m.age <= m.since
MonitorsOK == mon \in [Interfaces -> MonitorRecord] /\ \A i \in Interfaces : MonitorOK(mon[i])

\* What the board, the port and host_task are at.
BoardOK ==
  /\ role \in Roles /\ r13 \in {"fitted", "removed"}
  /\ plugged \in 0..MaxDevices /\ port \in {"empty", "device"} /\ stage \in Stages
  /\ kind \in Kinds \cup {"none"}

\* Addresses: none has two users.
AddressesOK ==
  /\ addr \in {0} \cup Addresses
  /\ hubAddrs \cup lost \subseteq addresses /\ addresses \subseteq Addresses
  /\ stage \in Serving \cup {"stopped"} => addr \in addresses \ (hubAddrs \cup lost)

\* What the probe has read, and where it is.  Of the reports of a descriptor it
\* has asked for those it has got to, and the others are left.
ProbeOK ==
  /\ ifaces \in Seq(Slot) /\ Len(ifaces) <= MAX_HID_INTERFACES
  /\ probing \in 0..(MAX_HID_INTERFACES + 1)
  /\ stage = "probe" => probing \in 1..(Len(ifaces) + 1)
  /\ stage \in {"feature", "idle"} => probing \in 1..Len(ifaces)
  /\ desc \in Seq(Item) /\ todo \in Seq(Entry) /\ Len(todo) <= MAX_REPORTS
  /\ stage # "feature" => todo = <<>>
  /\ IF stage \in {"feature", "idle"}
     THEN asked \cup Asks(todo) = Asks(log_report_summary(desc))
     ELSE asked = {} /\ desc = <<>>

\* The inductive invariant.
HostInv == BoardOK /\ AddressesOK /\ ProbeOK /\ InterfacesFound /\ MonitorsOK

-----------------------------------------------------------------------------
\* What is left to ask for, once a feature report has been.
LEMMA AsksNext ==
  ASSUME NEW r \in Seq(Entry), NEW n \in DOMAIN r, IsFeature(r[n]),
         \A m \in 1..(n - 1) : ~IsFeature(r[m])
  PROVE  /\ SubSeq(r, n + 1, Len(r)) \in Seq(Entry)
         /\ Len(SubSeq(r, n + 1, Len(r))) <= Len(r)
         /\ Asks(r) = (IF r[n].page = USAGE_PAGE_PS_AUTH THEN {}
                       ELSE {[id |-> r[n].id, len |-> FeatureLen(r[n].bits)]})
                      \cup Asks(SubSeq(r, n + 1, Len(r)))
  <1> DEFINE L == Len(r)
             q == SubSeq(r, n + 1, L)
             line(e) == [id |-> e.id, len |-> FeatureLen(e.bits)]
             due(e) == IsFeature(e) /\ e.page # USAGE_PAGE_PS_AUTH
  <1>1. L \in Nat /\ DOMAIN r = 1..L /\ n \in 1..L
    BY LenProperties
  <1>2. \A i \in (n + 1)..L : r[i] \in Entry
    BY <1>1, ElementOfSeq
  <1> HIDE DEF L
  <1>3. /\ q \in Seq(Entry) /\ Len(q) = (IF n + 1 <= L THEN L - (n + 1) + 1 ELSE 0)
        /\ \A i \in 1..(L - (n + 1) + 1) : q[i] = r[(n + 1) + i - 1]
    BY <1>1, <1>2, SubSeqProperties
  <1> HIDE DEF q
  <1>4. Len(q) = L - n
    BY <1>1, <1>3
  <1>5. DOMAIN q = 1..(L - n)
    BY <1>3, <1>4, LenProperties
  <1>6. ASSUME NEW i \in 1..(L - n) PROVE q[i] = r[n + i] /\ n + i \in 1..L
    <2>1. i \in 1..(L - (n + 1) + 1) /\ (n + 1) + i - 1 = n + i
      BY <1>1
    <2> QED BY <1>1, <1>3, <2>1
  <1>7. Asks(r) = {line(r[m]) : m \in {k \in 1..L : due(r[k])}}
    BY <1>1 DEF Asks
  <1>8. Asks(q) = {line(q[m]) : m \in {k \in 1..(L - n) : due(q[k])}}
    BY <1>5 DEF Asks
  <1>9. ASSUME NEW m \in 1..L, due(r[m])
        PROVE  (m = n /\ r[n].page # USAGE_PAGE_PS_AUTH) \/ line(r[m]) \in Asks(q)
    <2>1. m >= n
      BY <1>1, <1>9
    <2>2. CASE m = n
      BY <1>9, <2>2
    <2>3. CASE m > n
      <3>1. m - n \in 1..(L - n) /\ n + (m - n) = m
        BY <1>1, <2>3
      <3>2. q[m - n] = r[m]
        BY <1>6, <3>1
      <3> HIDE DEF line
      <3> QED BY <1>8, <1>9, <3>1, <3>2
    <2> QED BY <1>1, <2>1, <2>2, <2>3
  <1>10. ASSUME NEW v \in Asks(q) PROVE v \in Asks(r)
    <2> HIDE DEF line
    <2>1. PICK m \in 1..(L - n) : due(q[m]) /\ v = line(q[m])
      BY <1>8
    <2>2. q[m] = r[n + m] /\ n + m \in 1..L
      BY <1>6
    <2> HIDE DEF due
    <2> QED BY <1>7, <2>1, <2>2
  <1>11. r[n].page # USAGE_PAGE_PS_AUTH => line(r[n]) \in Asks(r)
    <2> HIDE DEF line
    <2> QED BY <1>1, <1>7
  <1>12. ASSUME NEW v \in Asks(r)
         PROVE  (v = line(r[n]) /\ r[n].page # USAGE_PAGE_PS_AUTH) \/ v \in Asks(q)
    <2> HIDE DEF line
    <2>1. PICK m \in 1..L : due(r[m]) /\ v = line(r[m])
      BY <1>7
    <2> QED BY <1>9, <2>1
  <1>13. Len(q) <= L
    BY <1>1, <1>4
  <1> HIDE DEF line, due
  <1>14. Asks(r) = (IF r[n].page = USAGE_PAGE_PS_AUTH THEN {} ELSE {line(r[n])}) \cup Asks(q)
    BY <1>10, <1>11, <1>12
  <1> QED BY <1>3, <1>13, <1>14 DEF q, L, line

\* Nothing is left to ask for when no feature report is,
LEMMA AsksNone ==
  ASSUME NEW r, \A n \in DOMAIN r : ~IsFeature(r[n])
  PROVE  Asks(r) = {}
  BY DEF Asks

\* or no report.
LEMMA AsksEmpty == Asks(<<>>) = {} /\ Asks(log_report_summary(<<>>)) = {}
  <1>1. Asks(<<>>) = {}
    BY AsksNone
  <1>2. Len(<<>>) = 0
    OBVIOUS
  <1>3. Summary(<<>>)[0] = NoSummary
    BY <1>2, SummaryDef
  <1>4. log_report_summary(<<>>) = <<>>
    BY <1>2, <1>3 DEF log_report_summary, NoSummary
  <1> QED BY <1>1, <1>4

-----------------------------------------------------------------------------
\* BoardOK is inductive.
LEMMA BoardInit == ASSUME UsbHostAssumption, HostInit PROVE BoardOK
  BY DEF HostInit, BoardOK, UsbHostAssumption, Stages

LEMMA BoardStep ==
  ASSUME UsbHostAssumption, BoardOK, [HostNext]_hostVars
  PROVE  BoardOK'
  <1> USE DEF board, deviceVars, probeVars, busVars
  <1>1. CASE Plug
    BY <1>1 DEF Plug, BoardOK, UsbHostAssumption
  <1>2. CASE Unplug
    BY <1>2 DEF Unplug, BoardOK
  <1>3. CASE Connect
    BY <1>3 DEF Connect, BoardOK, Stages
  <1>4. CASE EnumerateFails \/ UNCHANGED hostVars
    BY <1>4 DEF EnumerateFails, BoardOK, hostVars
  <1>5. CASE EnumerateOk
    BY <1>5 DEF EnumerateOk, BoardOK, Stages, Serving, Kinds
  <1>6. CASE ServeDevice
    BY <1>6 DEF ServeDevice, BoardOK, Stages, Serving
  <1>7. CASE Probe
    <2>1. CASE ReadDescriptor \/ NoDescriptor
      BY <2>1 DEF ReadDescriptor, NoDescriptor, BoardOK, Stages, Serving
    <2>2. CASE ReadFeature \/ FeaturesRead
      BY <2>2 DEF ReadFeature, FeaturesRead, BoardOK, Stages, Serving
    <2>3. CASE SetIdle
      BY <2>3 DEF SetIdle, BoardOK, Stages, Serving
    <2>4. CASE ProbeEnds
      BY <2>4 DEF ProbeEnds, MonitorStarts, BoardOK, Stages, Serving
    <2> QED BY <1>7, <2>1, <2>2, <2>3, <2>4 DEF Probe
  <1>8. CASE Monitor
    BY <1>8 DEF Monitor, MonitorReport, MonitorTimeout, MonitorFails, Monitored, Tick, BoardOK
  <1>9. CASE HubTakes \/ HubFrees \/ HubLoses
    BY <1>9 DEF HubTakes, HubFrees, HubLoses, BoardOK
  <1>10. CASE ServedOut
    BY <1>10 DEF ServedOut, BoardOK, Stages
  <1>11. CASE Disconnect
    BY <1>11 DEF Disconnect, Forget, BoardOK, Stages
  <1> QED BY <1>1, <1>2, <1>3, <1>4, <1>5, <1>6, <1>7, <1>8, <1>9, <1>10, <1>11 DEF HostNext

-----------------------------------------------------------------------------
\* AddressesOK holds to begin with.
LEMMA AddressesInit == ASSUME HostInit PROVE AddressesOK
  BY DEF HostInit, AddressesOK, Serving

\* The address that is given out is in nobody's use.
LEMMA FreeAddress ==
  ASSUME UsbHostAssumption, AddressesOK, addresses # Addresses
  PROVE  Min(Addresses \ addresses) \in Addresses \ addresses
  <1>1. Addresses \ addresses \in SUBSET Nat /\ Addresses \ addresses # {}
    <2>1. addresses \subseteq Addresses /\ Addresses \subseteq Nat
      BY DEF AddressesOK, Addresses, UsbHostAssumption
    <2> QED BY <2>1
  <1> QED BY <1>1, MinLeast

\* AddressesOK is kept.
LEMMA AddressesStep ==
  ASSUME UsbHostAssumption, AddressesOK, [HostNext]_hostVars
  PROVE  AddressesOK'
  <1> USE DEF board, deviceVars, probeVars, busVars
  <1>0. ASSUME UNCHANGED <<addr, hubAddrs, lost, addresses>>,
               stage' \in Serving \cup {"stopped"} => stage \in Serving \cup {"stopped"}
        PROVE  AddressesOK'
    BY <1>0 DEF AddressesOK, Addresses
  <1>1. CASE Plug \/ Unplug
    BY <1>0, <1>1 DEF Plug, Unplug
  <1>2. CASE Connect
    BY <1>0, <1>2 DEF Connect, Serving
  <1>3. CASE EnumerateFails \/ UNCHANGED hostVars
    BY <1>0, <1>3 DEF EnumerateFails, hostVars
  <1>4. CASE EnumerateOk
    <2>1. /\ addr' = Min(Addresses \ addresses) /\ addresses' = addresses \cup {addr'}
          /\ hubAddrs' = hubAddrs /\ lost' = lost /\ addresses # Addresses
      BY <1>4 DEF EnumerateOk
    <2>2. addr' \in Addresses \ addresses
      BY <2>1, FreeAddress
    <2> QED BY <2>1, <2>2 DEF AddressesOK, Addresses
  <1>5. CASE ServeDevice
    BY <1>0, <1>5 DEF ServeDevice, Serving
  <1>6. CASE Probe
    <2>1. CASE ReadDescriptor \/ NoDescriptor \/ ReadFeature \/ FeaturesRead \/ SetIdle
      BY <1>0, <2>1 DEF ReadDescriptor, NoDescriptor, ReadFeature, FeaturesRead, SetIdle, Serving
    <2>2. CASE ProbeEnds
      BY <1>0, <2>2 DEF ProbeEnds, MonitorStarts, Serving
    <2> QED BY <1>6, <2>1, <2>2 DEF Probe
  <1>7. CASE Monitor
    BY <1>0, <1>7 DEF Monitor, MonitorReport, MonitorTimeout, MonitorFails, Monitored, Tick
  <1>8. CASE HubTakes
    <2> DEFINE a == Min(Addresses \ addresses)
    <2>1. /\ addresses' = addresses \cup {a} /\ hubAddrs' = hubAddrs \cup {a}
          /\ addr' = addr /\ lost' = lost /\ stage' = stage /\ addresses # Addresses
      BY <1>8 DEF HubTakes
    <2>2. a \in Addresses \ addresses
      BY <2>1, FreeAddress
    <2> HIDE DEF a
    <2> QED BY <2>1, <2>2 DEF AddressesOK, Addresses
  <1>9. CASE HubFrees
    BY <1>9 DEF HubFrees, AddressesOK, Addresses
  <1>10. CASE HubLoses
    BY <1>10 DEF HubLoses, AddressesOK, Addresses
  <1>11. CASE ServedOut
    BY <1>0, <1>11 DEF ServedOut, Serving
  <1>12. CASE Disconnect
    BY <1>12 DEF Disconnect, Forget, AddressesOK, Addresses, Serving
  <1> QED BY <1>1, <1>2, <1>3, <1>4, <1>5, <1>6, <1>7, <1>8, <1>9, <1>10, <1>11, <1>12
          DEF HostNext

-----------------------------------------------------------------------------
\* InterfacesFound is inductive.
LEMMA FoundStart == ASSUME HostInit PROVE InterfacesFound
  BY DEF HostInit, InterfacesFound

LEMMA FoundNext ==
  ASSUME HidAssumption, UsbHostAssumption, InterfacesFound, [HostNext]_hostVars
  PROVE  InterfacesFound'
  <1> USE DEF board, deviceVars, probeVars, busVars
  <1>1. CASE EnumerateOk
    <2>1. config' \in Seq(Descriptor) /\ ifaces' = find_interfaces(config')
      BY <1>1 DEF EnumerateOk, UsbHostAssumption
    <2>2. Finds(find_interfaces(config'), config')
      BY <2>1, FindsInterfaces
    <2> QED BY <2>1, <2>2 DEF InterfacesFound
  <1>2. CASE Plug \/ Unplug \/ EnumerateFails \/ UNCHANGED hostVars
    BY <1>2 DEF Plug, Unplug, EnumerateFails, hostVars, InterfacesFound
  <1>3. CASE Connect \/ ServeDevice \/ ServedOut \/ Disconnect
    BY <1>3 DEF Connect, ServeDevice, ServedOut, Disconnect, InterfacesFound
  <1>4. CASE Probe
    BY <1>4 DEF Probe, ReadDescriptor, NoDescriptor, ReadFeature, FeaturesRead, SetIdle,
                ProbeEnds, MonitorStarts, InterfacesFound
  <1>5. CASE Monitor
    BY <1>5 DEF Monitor, MonitorReport, MonitorTimeout, MonitorFails, Monitored, Tick,
                InterfacesFound
  <1>6. CASE HubTakes \/ HubFrees \/ HubLoses
    BY <1>6 DEF HubTakes, HubFrees, HubLoses, InterfacesFound
  <1> QED BY <1>1, <1>2, <1>3, <1>4, <1>5, <1>6 DEF HostNext

-----------------------------------------------------------------------------
\* ProbeOK holds to begin with.
LEMMA ProbeInit == ASSUME HidAssumption, HostInit PROVE ProbeOK
  <1>1. <<>> \in Seq(Slot) /\ <<>> \in Seq(Item) /\ <<>> \in Seq(Entry) /\ Len(<<>>) = 0
    BY EmptySeq, Zenon
  <1>2. Serving = Serving /\ "wait" \notin {"feature", "idle", "probe"} /\ "wait" # "feature"
    OBVIOUS
  <1> QED BY <1>1, <1>2 DEF HostInit, ProbeOK, HidAssumption

\* What is read of a report descriptor is a report descriptor.
LEMMA DescriptorRead ==
  ASSUME UsbHostAssumption, ProbeOK, ReadDescriptor
  PROVE  desc' \in Seq(Item)
  <1>1. PICK d \in Descs :
          desc' = SubSeq(d, 1, Min({Len(d), ifaces[probing].report_desc_len, REPORT_DESC_BUF_LEN}))
    BY DEF ReadDescriptor
  <1> DEFINE L == Len(d)
             lens == {L, ifaces[probing].report_desc_len, REPORT_DESC_BUF_LEN}
  <1>2. d \in Seq(Item) /\ L \in Nat
    BY LenProperties DEF UsbHostAssumption
  <1>3. ifaces[probing].report_desc_len \in Nat
    <2>1. probing \in 1..Len(ifaces)
      <3>1. Len(ifaces) \in Nat
        BY LenProperties DEF ProbeOK
      <3> QED BY <3>1 DEF ReadDescriptor, ProbeOK
    <2>2. ifaces[probing] \in Slot
      BY <2>1, ElementOfSeq DEF ProbeOK
    <2> QED BY <2>2 DEF Slot
  <1>4. Min(lens) \in Nat /\ Min(lens) <= L
    <2>1. lens \in SUBSET Nat /\ L \in lens
      BY <1>2, <1>3 DEF UsbHostAssumption
    <2> HIDE DEF lens, L
    <2>2. Min(lens) \in lens /\ \A k \in lens : Min(lens) <= k
      BY <2>1, MinLeast
    <2> QED BY <2>1, <2>2
  <1> DEFINE m == Min(lens)
  <1>5. m \in Nat /\ m <= L /\ desc' = SubSeq(d, 1, m)
    BY <1>1, <1>4
  <1> HIDE DEF m
  <1>6. \A i \in 1..m : d[i] \in Item
    BY <1>2, <1>5, ElementOfSeq
  <1>7. SubSeq(d, 1, m) \in Seq(Item)
    BY <1>5, <1>6, SubSeqProperties
  <1> QED BY <1>5, <1>7

\* ProbeOK is kept.
LEMMA ProbeStep ==
  ASSUME HidAssumption, UsbHostAssumption, ProbeOK, [HostNext]_hostVars
  PROVE  ProbeOK'
  <1> USE DEF board, deviceVars, probeVars, busVars
  <1>0. Len(ifaces) \in Nat /\ Len(<<>>) = 0 /\ MAX_HID_INTERFACES \in Nat /\ MAX_REPORTS \in Nat
        /\ <<>> \in Seq(Slot) /\ <<>> \in Seq(Item) /\ <<>> \in Seq(Entry)
    <2>1. <<>> \in Seq(Slot) /\ <<>> \in Seq(Item) /\ <<>> \in Seq(Entry) /\ Len(<<>>) = 0
      BY EmptySeq, Zenon
    <2> QED BY <2>1, LenProperties DEF ProbeOK, HidAssumption
  <1>1. ASSUME UNCHANGED <<ifaces, probing, desc, todo, asked>>,
               stage' = stage \/ (stage \notin {"probe", "feature", "idle"} /\ stage' \notin {"probe", "feature", "idle"})
        PROVE  ProbeOK'
    BY <1>1 DEF ProbeOK
  <1>2. CASE Plug \/ Unplug \/ EnumerateFails \/ UNCHANGED hostVars
    BY <1>1, <1>2 DEF Plug, Unplug, EnumerateFails, hostVars
  <1>3. CASE Connect \/ ServedOut
    BY <1>1, <1>3 DEF Connect, ServedOut
  <1>4. CASE EnumerateOk
    <2>1. /\ config' \in Seq(Descriptor) /\ ifaces' = find_interfaces(config')
          /\ stage = "enumerate" /\ stage' = "classify"
          /\ UNCHANGED <<probing, desc, todo, asked>>
      BY <1>4 DEF EnumerateOk, UsbHostAssumption
    <2>2. ifaces' \in Seq(Slot) /\ Len(ifaces') <= MAX_HID_INTERFACES
      BY <2>1, FindsInterfaces
    <2> QED BY <2>1, <2>2 DEF ProbeOK
  <1>5. CASE ServeDevice
    <2>1. /\ stage = "classify" /\ stage' \in {"wheel", "hub", "probe"}
          /\ probing' = IF stage' = "probe" THEN 1 ELSE 0
          /\ UNCHANGED <<ifaces, desc, todo, asked>>
      BY <1>5 DEF ServeDevice
    <2> QED BY <1>0, <2>1 DEF ProbeOK
  <1>6. CASE ReadDescriptor
    <2>1. desc' \in Seq(Item)
      BY <1>6, DescriptorRead
    <2>2. /\ stage = "probe" /\ stage' = "feature" /\ probing <= Len(ifaces)
          /\ todo' = log_report_summary(desc') /\ UNCHANGED <<ifaces, probing, asked>>
      BY <1>6 DEF ReadDescriptor
    <2>3. todo' \in Seq(Entry) /\ Len(todo') <= MAX_REPORTS
      <3>1. Len(desc') \in Nat
        BY <2>1, LenProperties
      <3>2. SummaryOK(Summary(desc')[Len(desc')])
        <4> DEFINE d == desc'
        <4> HIDE DEF d
        <4>1. d \in Seq(Item) /\ Len(d) \in Nat
          BY <2>1, <3>1 DEF d
        <4>2. SummaryOK(Summary(d)[Len(d)])
          BY <4>1, SummaryTyped
        <4> QED BY <4>2 DEF d
      <3> QED BY <2>2, <3>2 DEF SummaryOK, log_report_summary
    <2>4. asked = {} /\ probing' \in 1..Len(ifaces')
      BY <1>0, <2>2 DEF ProbeOK
    <2>5. asked' \cup Asks(todo') = Asks(log_report_summary(desc'))
      BY <2>2, <2>4
    <2> QED BY <2>1, <2>2, <2>3, <2>4, <2>5 DEF ProbeOK
  <1>7. CASE NoDescriptor
    <2>1. /\ stage = "probe" /\ stage' = "idle" /\ probing <= Len(ifaces)
          /\ UNCHANGED <<ifaces, probing, desc, todo, asked>>
      BY <1>7 DEF NoDescriptor
    <2>2. probing' \in 1..Len(ifaces') /\ asked = {} /\ desc = <<>> /\ todo = <<>>
      BY <1>0, <2>1 DEF ProbeOK
    <2>3. asked' \cup Asks(todo') = Asks(log_report_summary(desc'))
      BY <2>1, <2>2, AsksEmpty
    <2> QED BY <2>1, <2>2, <2>3 DEF ProbeOK
  <1>8. CASE ReadFeature
    <2>1. PICK n \in DOMAIN todo :
            /\ IsFeature(todo[n]) /\ \A m \in 1..(n - 1) : ~IsFeature(todo[m])
            /\ asked' = IF todo[n].page = USAGE_PAGE_PS_AUTH THEN asked
                        ELSE asked \cup {[id |-> todo[n].id, len |-> FeatureLen(todo[n].bits)]}
            /\ todo' = SubSeq(todo, n + 1, Len(todo))
      BY <1>8 DEF ReadFeature
    <2>2. stage = "feature" /\ UNCHANGED <<stage, ifaces, probing, desc>>
      BY <1>8 DEF ReadFeature
    <2> DEFINE line == [id |-> todo[n].id, len |-> FeatureLen(todo[n].bits)]
    <2>3. /\ todo' \in Seq(Entry) /\ Len(todo') <= Len(todo)
          /\ Asks(todo) = (IF todo[n].page = USAGE_PAGE_PS_AUTH THEN {} ELSE {line})
                          \cup Asks(todo')
      <3>1. todo \in Seq(Entry)
        BY DEF ProbeOK
      <3> QED BY <2>1, <3>1, AsksNext
    <2> HIDE DEF line
    <2>4. asked' \cup Asks(todo') = asked \cup Asks(todo)
      BY <2>1, <2>3 DEF line
    <2>5. Len(todo') <= MAX_REPORTS
      <3>1. Len(todo) \in Nat /\ Len(todo') \in Nat /\ Len(todo) <= MAX_REPORTS
        BY <2>3, LenProperties DEF ProbeOK
      <3> QED BY <1>0, <2>3, <3>1
    <2>6. asked' \cup Asks(todo') = Asks(log_report_summary(desc'))
      BY <2>2, <2>4 DEF ProbeOK
    <2> QED BY <2>2, <2>3, <2>5, <2>6 DEF ProbeOK
  <1>9. CASE FeaturesRead
    <2>1. /\ stage = "feature" /\ stage' = "idle" /\ todo' = <<>>
          /\ UNCHANGED <<ifaces, probing, desc, asked>> /\ \A n \in DOMAIN todo : ~IsFeature(todo[n])
      BY <1>9 DEF FeaturesRead
    <2>2. Asks(todo) = {} /\ Asks(todo') = {}
      BY <2>1, AsksNone, AsksEmpty
    <2>3. asked' \cup Asks(todo') = Asks(log_report_summary(desc'))
      BY <2>1, <2>2 DEF ProbeOK
    <2> QED BY <1>0, <2>1, <2>3 DEF ProbeOK
  <1>10. CASE SetIdle
    <2>1. /\ stage = "idle" /\ stage' = "probe" /\ probing' = probing + 1 /\ desc' = <<>>
          /\ asked' = {} /\ UNCHANGED <<ifaces, todo>>
      BY <1>10 DEF SetIdle
    <2>2. probing' \in 1..(Len(ifaces') + 1) /\ probing' \in 0..(MAX_HID_INTERFACES + 1)
      BY <1>0, <2>1 DEF ProbeOK
    <2> QED BY <1>0, <2>1, <2>2 DEF ProbeOK
  <1>11. CASE ProbeEnds
    <2>1. /\ stage = "probe" /\ stage' \in {"relay", "signer", "monitor"} /\ probing' = 0
          /\ desc' = <<>> /\ todo' = <<>> /\ asked' = {} /\ ifaces' = <<>>
      BY <1>11 DEF ProbeEnds, MonitorStarts, NoProbe
    <2> QED BY <1>0, <2>1 DEF ProbeOK
  <1>12. CASE Monitor
    BY <1>1, <1>12 DEF Monitor, MonitorReport, MonitorTimeout, MonitorFails, Monitored, Tick
  <1>13. CASE HubTakes \/ HubFrees \/ HubLoses
    BY <1>1, <1>13 DEF HubTakes, HubFrees, HubLoses
  <1>14. CASE Disconnect
    <2>1. /\ stage' = "wait" /\ probing' = 0 /\ desc' = <<>> /\ todo' = <<>> /\ asked' = {}
          /\ ifaces' = <<>>
      BY <1>14 DEF Disconnect, Forget, NoProbe
    <2> QED BY <1>0, <2>1 DEF ProbeOK
  <1> QED BY <1>2, <1>3, <1>4, <1>5, <1>6, <1>7, <1>8, <1>9, <1>10, <1>11, <1>12, <1>13, <1>14
          DEF HostNext, Probe

-----------------------------------------------------------------------------
\* A monitor that does not run, and one that has just been started.
LEMMA NoMonitorOK ==
  ASSUME UsbHostAssumption PROVE MonitorOK(NoMonitor) /\ MonitorOK(NewMonitor)
  <1> DEFINE I == REPORT_LOG_INTERVAL
  <1>1. I \in Nat /\ I > 0 /\ 0 \in 0..I /\ I \in 0..I /\ 0 \in ReportValues
    BY DEF UsbHostAssumption
  <1>2. NoMonitor \in MonitorRecord /\ NoMonitor.unlogged = "no" /\ NoMonitor.age = 0
    BY <1>1 DEF MonitorRecord, NoMonitor
  <1> DEFINE t == NewMonitor
  <1>3. t \in MonitorRecord /\ t.unlogged = "no" /\ t.age = 0
    BY <1>1, <1>2 DEF MonitorRecord, NewMonitor
  <1> HIDE DEF t
  <1>4. MonitorOK(t)
    BY <1>3 DEF MonitorOK
  <1>5. MonitorOK(NoMonitor)
    BY <1>2 DEF MonitorOK
  <1> QED BY <1>4, <1>5 DEF t

\* MonitorsOK holds to begin with.
LEMMA MonitorsInit == ASSUME UsbHostAssumption, HostInit PROVE MonitorsOK
  BY NoMonitorOK DEF HostInit, MonitorsOK, MonitorOK, NoMonitors

\* At the end of a turn.
LEMMA LoggedOK ==
  ASSUME UsbHostAssumption, NEW m, m \in MonitorRecord, m.unlogged = "no" => m.age = 0,
         m.unlogged = "yes" /\ m.since < REPORT_LOG_INTERVAL => m.age <= m.since
  PROVE  MonitorOK(Logged(m))
  <1>1. REPORT_LOG_INTERVAL \in Nat /\ REPORT_LOG_INTERVAL > 0
    BY DEF UsbHostAssumption
  <1>2. CASE m.unlogged = "yes" /\ m.since >= REPORT_LOG_INTERVAL
    <2> DEFINE t == [m EXCEPT !.unlogged = "no", !.since = 0, !.wait = 0, !.age = 0]
    <2>1. Logged(m) = t
      BY <1>2 DEF Logged
    <2>2. 0 \in 0..REPORT_LOG_INTERVAL
      BY <1>1
    <2>3. t \in MonitorRecord /\ t.unlogged = "no" /\ t.age = 0
      BY <2>2 DEF MonitorRecord
    <2> HIDE DEF t
    <2> QED BY <2>1, <2>3 DEF MonitorOK
  <1>3. CASE ~(m.unlogged = "yes" /\ m.since >= REPORT_LOG_INTERVAL)
    BY <1>1, <1>3 DEF Logged, MonitorOK, MonitorRecord
  <1> QED BY <1>2, <1>3

\* When time passes.
LEMMA TickOK ==
  ASSUME UsbHostAssumption, NEW m, MonitorOK(m), m.wait < REPORT_LOG_INTERVAL
  PROVE  MonitorOK([m EXCEPT !.wait = @ + 1, !.since = Min({@ + 1, REPORT_LOG_INTERVAL}),
                             !.age = IF m.unlogged = "yes" THEN @ + 1 ELSE 0])
  <1> DEFINE s == Min({m.since + 1, REPORT_LOG_INTERVAL})
             a == IF m.unlogged = "yes" THEN m.age + 1 ELSE 0
             t == [m EXCEPT !.wait = @ + 1, !.since = s, !.age = a]
  <1>1. REPORT_LOG_INTERVAL \in Nat /\ REPORT_LOG_INTERVAL > 0
    BY DEF UsbHostAssumption
  <1>2. /\ m.since \in 0..REPORT_LOG_INTERVAL /\ m.wait \in 0..REPORT_LOG_INTERVAL
        /\ m.age \in Nat /\ m \in MonitorRecord
    BY DEF MonitorOK, MonitorRecord
  <1>3. s \in 0..REPORT_LOG_INTERVAL /\ (s < REPORT_LOG_INTERVAL => s = m.since + 1)
    <2> DEFINE both == {m.since + 1, REPORT_LOG_INTERVAL}
    <2>1. both \in SUBSET Nat /\ both # {}
      BY <1>1, <1>2
    <2>2. Min(both) \in both /\ \A k \in both : Min(both) <= k
      <3> HIDE DEF both
      <3> QED BY <2>1, MinLeast
    <2> QED BY <1>1, <1>2, <2>2
  <1>4. a \in Nat
    BY <1>2
  <1> DEFINE w == m.wait + 1
  <1>w. w \in 0..REPORT_LOG_INTERVAL
    BY <1>1, <1>2
  <1>a. m.unlogged = "no" => a = 0
    OBVIOUS
  <1>b. m.unlogged = "yes" => a = m.age + 1
    OBVIOUS
  <1>c. w = m.wait + 1
    OBVIOUS
  <1> HIDE DEF s, a, w
  <1>5. /\ t.wait = w /\ t.since = s /\ t.age = a /\ t.unlogged = m.unlogged
        /\ t \in MonitorRecord
    BY <1>2, <1>3, <1>4, <1>w DEF MonitorRecord, w
  <1> HIDE DEF t
  <1>6. t.unlogged = "no" => t.age = 0
    BY <1>5, <1>a
  <1>7. ASSUME t.unlogged = "yes"
        PROVE  /\ t.age <= REPORT_LOG_INTERVAL - 1 + t.wait
               /\ t.since < REPORT_LOG_INTERVAL => t.age <= t.since
    BY <1>1, <1>2, <1>3, <1>5, <1>7, <1>b, <1>c DEF MonitorOK
  <1>8. MonitorOK(t)
    BY <1>5, <1>6, <1>7 DEF MonitorOK
  <1> QED BY <1>8 DEF t, s, a, w

\* MonitorsOK is kept.
LEMMA MonitorsStep ==
  ASSUME UsbHostAssumption, MonitorsOK, [HostNext]_hostVars
  PROVE  MonitorsOK'
  <1> USE DEF board, deviceVars, probeVars, busVars
  <1>0. mon \in [Interfaces -> MonitorRecord] /\ \A i \in Interfaces : MonitorOK(mon[i])
    BY DEF MonitorsOK
  <1>1. ASSUME UNCHANGED mon PROVE MonitorsOK'
    BY <1>1 DEF MonitorsOK
  <1>2. ASSUME NEW i \in Interfaces, NEW m, MonitorOK(m), mon' = [mon EXCEPT ![i] = m]
        PROVE  MonitorsOK'
    <2>1. m \in MonitorRecord
      BY <1>2 DEF MonitorOK
    <2>2. mon' \in [Interfaces -> MonitorRecord]
      BY <1>0, <1>2, <2>1
    <2>3. ASSUME NEW j \in Interfaces PROVE MonitorOK(mon'[j])
      <3>1. mon'[j] = IF j = i THEN m ELSE mon[j]
        BY <1>0, <1>2
      <3> QED BY <1>0, <1>2, <3>1
    <2> QED BY <2>2, <2>3 DEF MonitorsOK, Interfaces
  <1>3. ASSUME NEW i \in Interfaces, NEW value \in ReportValues, MonitorReport(i, value)
        PROVE  MonitorsOK'
    <2> DEFINE m == IF value = mon[i].last THEN mon[i]
                    ELSE [mon[i] EXCEPT !.last = value, !.unlogged = "yes"]
    <2>1. mon' = [mon EXCEPT ![i] = Logged(m)]
      BY <1>3 DEF MonitorReport, Monitored
    <2>2. /\ m \in MonitorRecord /\ (m.unlogged = "no" => m.age = 0)
          /\ m.unlogged = "yes" /\ m.since < REPORT_LOG_INTERVAL => m.age <= m.since
      <3>1. mon[i] \in MonitorRecord /\ MonitorOK(mon[i])
        BY <1>0
      <3>2. CASE value = mon[i].last
        BY <3>1, <3>2 DEF MonitorOK
      <3>3. CASE value # mon[i].last
        <4>1. /\ m \in MonitorRecord /\ m.unlogged = "yes" /\ m.age = mon[i].age
              /\ m.since = mon[i].since
          BY <3>1, <3>3 DEF MonitorRecord
        <4>2. mon[i].unlogged \in {"no", "yes"} /\ mon[i].since \in Nat /\ mon[i].age \in Nat
          BY <3>1 DEF MonitorRecord, UsbHostAssumption
        <4> HIDE DEF m
        <4> QED BY <3>1, <4>1, <4>2 DEF MonitorOK
      <3> QED BY <3>2, <3>3
    <2> HIDE DEF m
    <2>3. MonitorOK(Logged(m))
      BY <2>2, LoggedOK
    <2> QED BY <1>2, <2>1, <2>3
  <1>4. ASSUME NEW i \in Interfaces, MonitorTimeout(i) PROVE MonitorsOK'
    <2>1. mon' = [mon EXCEPT ![i] = Logged(mon[i])]
      BY <1>4 DEF MonitorTimeout, Monitored
    <2>2. MonitorOK(mon[i])
      BY <1>0
    <2>3. MonitorOK(Logged(mon[i]))
      <3> DEFINE m == mon[i]
      <3>1. /\ m \in MonitorRecord /\ (m.unlogged = "no" => m.age = 0)
            /\ m.unlogged = "yes" /\ m.since < REPORT_LOG_INTERVAL => m.age <= m.since
        BY <2>2 DEF MonitorOK
      <3> HIDE DEF m
      <3>2. MonitorOK(Logged(m))
        BY <3>1, LoggedOK
      <3> QED BY <3>2 DEF m
    <2> QED BY <1>2, <2>1, <2>3
  <1>5. ASSUME NEW i \in Interfaces, MonitorFails(i) PROVE MonitorsOK'
    <2>1. mon' = [mon EXCEPT ![i] = NoMonitor]
      BY <1>5 DEF MonitorFails, Monitored
    <2> QED BY <1>2, <2>1, NoMonitorOK
  <1>6. CASE Tick
    <2> DEFINE t(m) == [m EXCEPT !.wait = @ + 1, !.since = Min({@ + 1, REPORT_LOG_INTERVAL}),
                             !.age = IF m.unlogged = "yes" THEN @ + 1 ELSE 0]
    <2>1. /\ \A i \in Interfaces : mon[i].wait < REPORT_LOG_INTERVAL
          /\ mon' = [i \in Interfaces |-> IF mon[i].on = "no" THEN mon[i] ELSE t(mon[i])]
      BY <1>6, Zenon DEF Tick
    <2>2. \A i \in Interfaces : MonitorOK(t(mon[i]))
      BY <1>0, <2>1, TickOK
    <2> HIDE DEF t
    <2>3. \A i \in Interfaces : mon'[i] = IF mon[i].on = "no" THEN mon[i] ELSE t(mon[i])
      BY <2>1
    <2>4. \A i \in Interfaces : MonitorOK(mon'[i])
      BY <1>0, <2>2, <2>3
    <2>5. \A i \in Interfaces : mon'[i] \in MonitorRecord
      BY <2>4 DEF MonitorOK
    <2>6. mon' \in [Interfaces -> MonitorRecord]
      BY <2>1, <2>3, <2>5
    <2> QED BY <2>4, <2>6 DEF MonitorsOK, Interfaces
  <1>7. CASE Plug \/ Unplug \/ EnumerateFails \/ UNCHANGED hostVars
    BY <1>1, <1>7 DEF Plug, Unplug, EnumerateFails, hostVars
  <1>8. CASE Connect \/ EnumerateOk \/ ServeDevice \/ ServedOut
    BY <1>1, <1>8 DEF Connect, EnumerateOk, ServeDevice, ServedOut
  <1>9. CASE ReadDescriptor \/ NoDescriptor \/ ReadFeature \/ FeaturesRead \/ SetIdle
    BY <1>1, <1>9 DEF ReadDescriptor, NoDescriptor, ReadFeature, FeaturesRead, SetIdle
  <1>10. CASE ProbeEnds
    <2>1. UNCHANGED mon \/ mon' \in [Interfaces -> {NoMonitor, NewMonitor}]
      BY <1>10 DEF ProbeEnds, MonitorStarts
    <2>2. ASSUME mon' \in [Interfaces -> {NoMonitor, NewMonitor}] PROVE MonitorsOK'
      BY <2>2, NoMonitorOK DEF MonitorsOK, MonitorOK, Interfaces
    <2> QED BY <1>1, <2>1, <2>2
  <1>11. CASE HubTakes \/ HubFrees \/ HubLoses
    BY <1>1, <1>11 DEF HubTakes, HubFrees, HubLoses
  <1>12. CASE Disconnect
    <2>1. mon' = NoMonitors
      BY <1>12 DEF Disconnect, Forget
    <2> QED BY <2>1, NoMonitorOK DEF MonitorsOK, MonitorOK, NoMonitors, Interfaces
  <1>13. CASE Monitor
    BY <1>3, <1>4, <1>5, <1>6, <1>13 DEF Monitor
  <1> QED BY <1>7, <1>8, <1>9, <1>10, <1>11, <1>12, <1>13 DEF HostNext, Probe

-----------------------------------------------------------------------------
\* HostInv is inductive.
LEMMA HostStart == HostInit => HostInv
  BY HidAssumption, UsbHostAssumption, BoardInit, AddressesInit, ProbeInit, FoundStart,
     MonitorsInit DEF HostInv

LEMMA HostStep == HostInv /\ [HostNext]_hostVars => HostInv'
  BY HidAssumption, UsbHostAssumption, BoardStep, AddressesStep, ProbeStep, FoundNext,
     MonitorsStep DEF HostInv

(***************************************************************************)
(* Whatever devices come and go and whatever they answer, host_task keeps  *)
(* the address, the probe's reports and the monitors' times as HostInv says.*)
(***************************************************************************)
THEOREM HostInvariant == HostSpec => []HostInv
  BY HostStart, HostStep, PTL DEF HostSpec

(***************************************************************************)
(* Every variable of host_task keeps to its type: no more interfaces and   *)
(* reports are kept than there is room for, and whoever is served has an   *)
(* address that nobody else has, also after a hub's children have been lost.*)
(***************************************************************************)
THEOREM HostTypeCorrect == HostSpec => []HostTypeOK
  <1>1. HostInv => HostTypeOK
    <2> SUFFICES ASSUME HostInv PROVE HostTypeOK
      OBVIOUS
    <2>1. \A i \in Interfaces :
            /\ mon[i].on \in {"no", "yes"} /\ mon[i].last \in ReportValues
            /\ mon[i].since \in 0..REPORT_LOG_INTERVAL /\ mon[i].wait \in 0..REPORT_LOG_INTERVAL
      BY DEF HostInv, MonitorsOK, MonitorRecord
    <2> QED BY <2>1 DEF HostInv, HostTypeOK, BoardOK, AddressesOK, ProbeOK
  <1> QED BY <1>1, HostInvariant, PTL

(***************************************************************************)
(* serve_device gets the HID interfaces of the configuration, whatever the *)
(* configuration is: in their order, each with its own first endpoints.    *)
(***************************************************************************)
THEOREM AlwaysFound == HostSpec => []InterfacesFound
  <1>1. HostInv => InterfacesFound
    BY DEF HostInv
  <1> QED BY <1>1, HostInvariant, PTL

(***************************************************************************)
(* Of a report descriptor that the stack of saved globals suffices for and *)
(* whose reports have less than 2^32 bits, probe asks for no report of the *)
(* authentication and, if there is room, for all the others, however often *)
(* the device fails.                                                       *)
(***************************************************************************)
THEOREM AlwaysReads == HostSpec => []ProbeReads
  <1>1. HostInv => ProbeReads
    <2> SUFFICES ASSUME ProbeOK, StackSuffices(desc), BitsFit(desc)
                 PROVE  /\ asked \subseteq Readable(desc)
                        /\ stage = "idle" /\ Cardinality(Reports(desc)) <= MAX_REPORTS =>
                             asked = Readable(desc)
      BY DEF HostInv, ProbeReads
    <2>1. /\ Asks(log_report_summary(desc)) \subseteq Readable(desc)
          /\ Cardinality(Reports(desc)) <= MAX_REPORTS =>
               Asks(log_report_summary(desc)) = Readable(desc)
      BY HidAssumption, AsksReadable DEF ProbeOK
    <2>2. CASE stage \in {"feature", "idle"}
      <3>1. asked \cup Asks(todo) = Asks(log_report_summary(desc))
        BY <2>2 DEF ProbeOK
      <3>2. stage = "idle" => asked = Asks(log_report_summary(desc))
        BY <3>1, AsksEmpty DEF ProbeOK
      <3> QED BY <2>1, <3>1, <3>2
    <2>3. CASE stage \notin {"feature", "idle"}
      BY <2>3 DEF ProbeOK
    <2> QED BY <2>2, <2>3
  <1> QED BY <1>1, HostInvariant, PTL

(***************************************************************************)
(* monitor_interface logs a change before twice the interval has passed,   *)
(* whenever reports come.                                                  *)
(***************************************************************************)
THEOREM AlwaysLogged == HostSpec => []ChangesLogged
  <1>1. HostInv => ChangesLogged
    <2> SUFFICES ASSUME HostInv, NEW i \in Interfaces
                 PROVE  mon[i].age < 2 * REPORT_LOG_INTERVAL
      BY DEF ChangesLogged
    <2>1. MonitorOK(mon[i]) /\ REPORT_LOG_INTERVAL \in Nat /\ REPORT_LOG_INTERVAL > 0
      BY UsbHostAssumption DEF HostInv, MonitorsOK, UsbHostAssumption
    <2>2. /\ mon[i].age \in Nat /\ mon[i].wait \in 0..REPORT_LOG_INTERVAL
          /\ mon[i].unlogged \in {"no", "yes"}
      BY <2>1 DEF MonitorOK, MonitorRecord
    <2> QED BY <2>1, <2>2 DEF MonitorOK
  <1> QED BY <1>1, HostInvariant, PTL

-----------------------------------------------------------------------------
(* relay::run: the inductive invariant *)

\* A way from the console to DriveHub: what was sent is numbered up to n, got is
\* what DriveHub got last, going what is being passed on (0 if nothing is), and
\* queue what is still queued.  The numbers go up.
InLine(got, going, queue, n) ==
  /\ got \in 0..n /\ going \in 0..n
  /\ going # 0 => got < going
  /\ \A i \in 1..Len(queue) : queue[i] > got /\ queue[i] > going
  /\ \A i, j \in 1..Len(queue) : i < j => queue[i] < queue[j]

Lines ==
  /\ InLine(repeated, cur, control, Len(requests))
  /\ InLine(written, outCur, outQueue, Len(packets))

\* Something is passed on when the task that does it says so.
Passing ==
  /\ pc = "repeat" => cur # 0
  /\ out = "write" => outCur # 0

-----------------------------------------------------------------------------
(* relay::run: lemmas about queues *)

\* What is left of a queue when its head is taken.
LEMMA Taken ==
  ASSUME NEW S, NEW queue \in Seq(S), queue # <<>>
  PROVE  /\ Head(queue) \in S /\ Tail(queue) \in Seq(S)
         /\ Len(queue) \in Nat \ {0} /\ Len(Tail(queue)) = Len(queue) - 1
         /\ Head(queue) = queue[1]
         /\ \A i \in 1..Len(Tail(queue)) : Tail(queue)[i] = queue[i + 1]
  BY HeadTailProperties, LenProperties, EmptySeq

\* What a queue is when another number has been added, or has not.
LEMMA Added ==
  ASSUME NEW n \in Nat, NEW queue \in Seq(1..n)
  PROVE  /\ Append(queue, n + 1) \in Seq(1..(n + 1)) /\ queue \in Seq(1..(n + 1))
         /\ Len(queue) \in Nat /\ Len(Append(queue, n + 1)) = Len(queue) + 1
         /\ \A i \in 1..Len(queue) : Append(queue, n + 1)[i] = queue[i] /\ queue[i] \in 1..n
         /\ Append(queue, n + 1)[Len(queue) + 1] = n + 1
  <1>1. 1..n \subseteq 1..(n + 1) /\ n + 1 \in 1..(n + 1)
    OBVIOUS
  <1>2. queue \in Seq(1..(n + 1))
    BY <1>1, SeqMonotonic
  <1>3. Len(queue) \in Nat /\ \A i \in 1..Len(queue) : queue[i] \in 1..n
    BY LenProperties, ElementOfSeq
  <1> QED
    BY <1>1, <1>2, <1>3, AppendProperties

\* Sending keeps the numbers going up, whether there is room or not.
LEMMA LineSent ==
  ASSUME NEW n \in Nat, NEW queue \in Seq(1..n), NEW got, NEW going,
         InLine(got, going, queue, n)
  PROVE  InLine(got, going, Queued(queue, n + 1), n + 1)
  <1>1. InLine(got, going, queue, n + 1)
    BY DEF InLine
  <1>2. InLine(got, going, Append(queue, n + 1), n + 1)
    <2> DEFINE more == Append(queue, n + 1)
    <2>1. /\ Len(queue) \in Nat /\ Len(more) = Len(queue) + 1
          /\ \A i \in 1..Len(queue) : more[i] = queue[i] /\ queue[i] \in 1..n
          /\ more[Len(queue) + 1] = n + 1
      BY Added, Zenon
    <2> HIDE DEF more
    <2>2. \A i \in 1..Len(more) : more[i] > got /\ more[i] > going
      BY <2>1 DEF InLine
    <2>3. ASSUME NEW i \in 1..Len(more), NEW j \in 1..Len(more), i < j
          PROVE  more[i] < more[j]
      <3>1. i \in 1..Len(queue) /\ (j \in 1..Len(queue) \/ j = Len(queue) + 1)
        BY <2>1, <2>3
      <3>2. CASE j \in 1..Len(queue)
        <4>1. queue[i] < queue[j]
          BY <2>3, <3>1, <3>2 DEF InLine
        <4> QED BY <2>1, <3>1, <3>2, <4>1
      <3>3. CASE j = Len(queue) + 1
        BY <2>1, <3>1, <3>3
      <3> QED BY <3>1, <3>2, <3>3
    <2> QED BY <1>1, <2>2, <2>3, Zenon DEF InLine, more
  <1> QED
    BY <1>1, <1>2, Zenon DEF Queued

\* Taking the head to pass it on does, too,
LEMMA LineTaken ==
  ASSUME NEW n \in Nat, NEW queue \in Seq(1..n), NEW got, NEW going, queue # <<>>,
         InLine(got, going, queue, n)
  PROVE  InLine(got, Head(queue), Tail(queue), n)
  BY Taken DEF InLine

\* and so does having passed it on, or having failed to.
LEMMA LineDone ==
  ASSUME NEW n \in Nat, NEW queue \in Seq(1..n), NEW got, NEW going,
         InLine(got, going, queue, n)
  PROVE  InLine(got, 0, queue, n) /\ InLine(going, 0, queue, n)
  <1>1. \A i \in 1..Len(queue) : queue[i] \in 1..n
    BY ElementOfSeq
  <1> QED BY <1>1 DEF InLine

-----------------------------------------------------------------------------
(* relay::run: types *)

\* What try_send leaves in a queue fits.
LEMMA Fits ==
  ASSUME RelayAssumption, NEW n \in Nat, NEW queue \in Seq(1..n), Len(queue) <= QUEUE_LEN
  PROVE  /\ Queued(queue, n + 1) \in Seq(1..(n + 1))
         /\ Len(Queued(queue, n + 1)) <= QUEUE_LEN
  <1>1. CASE Room(queue)
    <2>1. /\ Append(queue, n + 1) \in Seq(1..(n + 1))
          /\ Len(Append(queue, n + 1)) = Len(queue) + 1 /\ Len(queue) \in Nat
      BY Added, Zenon
    <2>2. Len(queue) < QUEUE_LEN
      BY <1>1, Zenon DEF Room
    <2>3. Queued(queue, n + 1) = Append(queue, n + 1)
      BY <1>1, Zenon DEF Queued
    <2>4. Len(queue) + 1 <= QUEUE_LEN
      BY <2>1, <2>2 DEF RelayAssumption
    <2> QED BY <2>1, <2>3, <2>4, Zenon
  <1>2. CASE ~Room(queue)
    BY <1>2, Added, Zenon DEF Queued
  <1> QED
    BY <1>1, <1>2, Zenon

\* What is left of it when its head has been taken does.
LEMMA FitsStill ==
  ASSUME RelayAssumption, NEW n \in Nat, NEW queue \in Seq(1..n), Len(queue) <= QUEUE_LEN,
         queue # <<>>
  PROVE  /\ Head(queue) \in 0..n /\ Tail(queue) \in Seq(1..n)
         /\ Len(Tail(queue)) <= QUEUE_LEN
  <1>1. /\ Head(queue) \in 1..n /\ Tail(queue) \in Seq(1..n)
        /\ Len(queue) \in Nat /\ Len(Tail(queue)) = Len(queue) - 1
    BY Taken, Zenon
  <1>2. Len(Tail(queue)) <= QUEUE_LEN
    BY <1>1 DEF RelayAssumption
  <1> QED
    BY <1>1, <1>2

\* What the console sends has one more element.
LEMMA Longer ==
  ASSUME NEW S, NEW sent \in Seq(S), NEW x \in S
  PROVE  /\ Append(sent, x) \in Seq(S) /\ Len(sent) \in Nat
         /\ Len(Append(sent, x)) = Len(sent) + 1
  BY AppendProperties, LenProperties

LEMMA TypeInit == ASSUME RelayAssumption PROVE Init => TypeOK
  <1>1. \A S : <<>> \in Seq(S)
    BY EmptySeq
  <1>2. Len(<<>>) = 0
    BY EmptySeq
  <1> QED
    BY <1>1, <1>2 DEF Init, TypeOK, RelayAssumption

LEMMA TypeStep == ASSUME RelayAssumption PROVE TypeOK /\ [Next]_vars => TypeOK'
  <1> SUFFICES ASSUME TypeOK, [Next]_vars PROVE TypeOK'
    OBVIOUS
  <1> USE RelayAssumption
  <1>1. CASE Start
    BY <1>1 DEF Start, TypeOK, RelayAssumption, reqVars, cmdVars, packetVars, history
  <1>2. CASE ProbeOk
    BY <1>2 DEF ProbeOk, Relaying, TypeOK, RelayAssumption, reqVars, cmdVars, packetVars,
       history
  <1>3. CASE ProbeFails
    BY <1>3 DEF ProbeFails, Relaying, TypeOK, RelayAssumption, reqVars, cmdVars, packetVars
  <1>4. CASE RepeatBegin
    <2>1. Len(requests) \in Nat
      BY LenProperties DEF TypeOK
    <2>2. cur' \in 0..Len(requests) /\ control' \in Seq(1..Len(requests))
          /\ Len(control') <= QUEUE_LEN
      BY <1>4, <2>1, FitsStill, Zenon DEF RepeatBegin, TypeOK
    <2> QED BY <1>4, <2>2 DEF RepeatBegin, TypeOK, cmdVars, packetVars
  <1>5. CASE RepeatEnd
    BY <1>5, LenProperties DEF RepeatEnd, TypeOK, reqVars, cmdVars, packetVars
  <1>6. CASE CommandBegin
    <2>1. cmds' \in Seq(1..commands) /\ Len(cmds') <= QUEUE_LEN
      BY <1>6, FitsStill DEF CommandBegin, TypeOK
    <2> QED BY <1>6, <2>1 DEF CommandBegin, TypeOK, reqVars, packetVars, history
  <1>7. CASE CommandEnd
    BY <1>7 DEF CommandEnd, TypeOK, reqVars, cmdVars, packetVars, history
  <1>8. CASE OutTake
    <2>1. Len(packets) \in Nat
      BY LenProperties DEF TypeOK
    <2>2. outCur' \in 0..Len(packets) /\ outQueue' \in Seq(1..Len(packets))
          /\ Len(outQueue') <= QUEUE_LEN
      BY <1>8, <2>1, FitsStill, Zenon DEF OutTake, TypeOK
    <2> QED BY <1>8, <2>2 DEF OutTake, TypeOK, reqVars, cmdVars
  <1>9. CASE WriteOk
    BY <1>9, LenProperties DEF WriteOk, TypeOK, reqVars, cmdVars, packetVars
  <1>10. CASE WriteFails
    BY <1>10, LenProperties DEF WriteFails, TypeOK, reqVars, cmdVars, packetVars
  <1>11. CASE Leave
    BY <1>11, LenProperties DEF Leave, TypeOK, RelayAssumption, reqVars, cmdVars, packetVars, history
  <1>12. CASE Boot
    BY <1>12 DEF Boot, TypeOK, run, reqVars, cmdVars, packetVars, history
  <1>13. CASE ConsoleRequests
    <2> DEFINE n == Len(requests)
    <2>1. requests' \in Seq({"request"}) /\ n \in Nat /\ Len(requests') = n + 1
      BY <1>13, Longer DEF ConsoleRequests, TypeOK
    <2>2. control' \in Seq(1..(n + 1)) /\ Len(control') <= QUEUE_LEN
      BY <1>13, <2>1, Fits, Zenon DEF ConsoleRequests, TypeOK
    <2>3. dropped' \in Nat
      BY <1>13 DEF ConsoleRequests, Count, TypeOK
    <2>4. cur' \in 0..(n + 1) /\ repeated' \in 0..(n + 1)
      BY <1>13, <2>1 DEF ConsoleRequests, TypeOK, run, history
    <2> HIDE DEF n
    <2> QED BY <1>13, <2>1, <2>2, <2>3, <2>4
            DEF ConsoleRequests, TypeOK, run, cmdVars, packetVars, history
  <1>14. CASE ConsoleAuth
    <2>1. commands \in Nat /\ commands' = commands + 1 /\ commands' \in 0..MaxCommands
      BY <1>14 DEF ConsoleAuth, TypeOK, RelayAssumption
    <2>2. cmds' \in Seq(1..commands') /\ Len(cmds') <= QUEUE_LEN
      BY <1>14, <2>1, Fits, Zenon DEF ConsoleAuth, TypeOK
    <2> QED BY <1>14, <2>1, <2>2 DEF ConsoleAuth, TypeOK, run, reqVars, packetVars, history
  <1>15. CASE ConsoleWrites
    <2> DEFINE n == Len(packets)
    <2>1. packets' \in Seq({"packet"}) /\ n \in Nat /\ Len(packets') = n + 1
      BY <1>15, Longer DEF ConsoleWrites, TypeOK
    <2>2. outQueue' \in Seq(1..(n + 1)) /\ Len(outQueue') <= QUEUE_LEN
      BY <1>15, <2>1, Fits, Zenon DEF ConsoleWrites, TypeOK
    <2>3. dropped' \in Nat
      BY <1>15 DEF ConsoleWrites, Count, TypeOK
    <2>4. outCur' \in 0..(n + 1) /\ written' \in 0..(n + 1)
      BY <1>15, <2>1 DEF ConsoleWrites, TypeOK, run, history
    <2> HIDE DEF n
    <2> QED BY <1>15, <2>1, <2>2, <2>3, <2>4
            DEF ConsoleWrites, TypeOK, run, reqVars, cmdVars, history
  <1>16. CASE UNCHANGED vars
    BY <1>16 DEF TypeOK, vars, run, reqVars, cmdVars, packetVars, history
  <1> QED
    BY <1>1, <1>2, <1>3, <1>4, <1>5, <1>6, <1>7, <1>8, <1>9, <1>10, <1>11, <1>12, <1>13,
       <1>14, <1>15, <1>16, Zenon DEF Next, Serve, ForwardOut

(***************************************************************************)
(* Every variable keeps to its type; in particular no queue takes more     *)
(* than its capacity.                                                      *)
(***************************************************************************)
THEOREM TypeCorrect == Spec => []TypeOK
  BY TypeInit, TypeStep, RelayAssumption, PTL DEF Spec

-----------------------------------------------------------------------------
(* relay::run: what is lost *)

\* What try_send does to the length of a queue and to the count.
LEMMA QueuedOrCounted ==
  ASSUME NEW n \in Nat, NEW queue \in Seq(1..n), dropped \in Nat
  PROVE  Len(Queued(queue, n + 1)) + Count(queue) = Len(queue) + dropped + 1
  <1> DEFINE before == Len(queue)
             after == Len(Queued(queue, n + 1))
             count == Count(queue)
  <1>1. before \in Nat /\ Len(Append(queue, n + 1)) = before + 1
    BY Added, Zenon
  <1>2. Room(queue) => after = before + 1 /\ count = dropped
    BY <1>1, Zenon DEF Queued, Count
  <1>3. ~Room(queue) => after = before /\ count = dropped + 1
    BY Zenon DEF Queued, Count
  <1> HIDE DEF before, after, count
  <1>4. after + count = before + dropped + 1
    BY <1>1, <1>2, <1>3
  <1> QED
    BY <1>4, Zenon DEF before, after, count

LEMMA DropsStep == ASSUME RelayAssumption
                   PROVE  TypeOK /\ DropsCounted /\ [Next]_vars => DropsCounted'
  <1> DEFINE r == Len(requests)
             p == Len(packets)
             c == Len(control)
             o == Len(outQueue)
  <1> SUFFICES ASSUME TypeOK, DropsCounted, [Next]_vars
               PROVE  r' + p' = taken' + c' + o' + dropped'
    BY Zenon DEF DropsCounted
  <1>0. r + p = taken + c + o + dropped
    BY Zenon DEF DropsCounted
  <1>1. /\ requests \in Seq({"request"}) /\ packets \in Seq({"packet"})
        /\ Len(requests) \in Nat /\ Len(packets) \in Nat /\ dropped \in Nat
        /\ control \in Seq(1..Len(requests)) /\ outQueue \in Seq(1..Len(packets))
    BY LenProperties, Zenon DEF TypeOK
  <1>n. r \in Nat /\ p \in Nat /\ taken \in Nat /\ c \in Nat /\ o \in Nat /\ dropped \in Nat
    BY LenProperties, Zenon DEF TypeOK
  <1>2. CASE RepeatBegin
    <2>1. c' = c - 1
      BY <1>1, <1>2, Taken, Zenon DEF RepeatBegin
    <2>2. /\ r' = r /\ p' = p /\ taken' = taken + 1
          /\ o' = o /\ dropped' = dropped
      BY <1>2 DEF RepeatBegin, packetVars
    <2> HIDE DEF r, p, c, o
    <2> QED BY <1>0, <1>n, <2>1, <2>2
  <1>3. CASE OutTake
    <2>1. o' = o - 1
      BY <1>1, <1>3, Taken, Zenon DEF OutTake
    <2>2. /\ r' = r /\ p' = p /\ taken' = taken + 1
          /\ c' = c /\ dropped' = dropped
      BY <1>3 DEF OutTake, reqVars
    <2> HIDE DEF r, p, c, o
    <2> QED BY <1>0, <1>n, <2>1, <2>2
  <1>4. CASE ConsoleRequests
    <2>1. r' = r + 1
      BY <1>1, <1>4, Longer DEF ConsoleRequests
    <2>2. c' + dropped' = c + dropped + 1
      BY <1>1, <1>4, QueuedOrCounted, Zenon DEF ConsoleRequests
    <2>3. p' = p /\ o' = o /\ taken' = taken
      BY <1>4 DEF ConsoleRequests, packetVars, history
    <2>4. c' \in Nat /\ dropped' \in Nat
      <3>1. TypeOK'
        BY TypeStep
      <3> QED BY <3>1, LenProperties DEF TypeOK
    <2> HIDE DEF r, p, c, o
    <2>5. PICK q \in Nat, d \in Nat : q = c' /\ d = dropped'
      BY <2>4, Zenon
    <2>6. q + d = c + dropped + 1
      BY <2>2, <2>5, Zenon
    <2>7. (r + 1) + p = taken + q + o + d
      BY <1>0, <1>n, <2>6
    <2> QED BY <2>1, <2>3, <2>5, <2>7, Zenon
  <1>5. CASE ConsoleWrites
    <2>1. p' = p + 1
      BY <1>1, <1>5, Longer DEF ConsoleWrites
    <2>2. o' + dropped' = o + dropped + 1
      BY <1>1, <1>5, QueuedOrCounted, Zenon DEF ConsoleWrites
    <2>3. r' = r /\ c' = c /\ taken' = taken
      BY <1>5 DEF ConsoleWrites, reqVars, history
    <2>4. o' \in Nat /\ dropped' \in Nat
      <3>1. TypeOK'
        BY TypeStep
      <3> QED BY <3>1, LenProperties DEF TypeOK
    <2> HIDE DEF r, p, c, o
    <2>5. PICK q \in Nat, d \in Nat : q = o' /\ d = dropped'
      BY <2>4, Zenon
    <2>6. q + d = o + dropped + 1
      BY <2>2, <2>5, Zenon
    <2>7. r + (p + 1) = taken + c + q + d
      BY <1>0, <1>n, <2>6
    <2> QED BY <2>1, <2>3, <2>5, <2>7, Zenon
  <1>6. CASE UNCHANGED <<requests, packets, control, outQueue, dropped, taken>>
    BY <1>6 DEF DropsCounted
  <1>7. \/ RepeatBegin \/ OutTake \/ ConsoleRequests \/ ConsoleWrites
        \/ UNCHANGED <<requests, packets, control, outQueue, dropped, taken>>
    BY Zenon DEF Next, Serve, ForwardOut, vars, run, reqVars, packetVars, history, Start,
       ProbeOk, ProbeFails, RepeatEnd, CommandBegin, CommandEnd, WriteOk, WriteFails, Leave,
       Boot, ConsoleAuth
  <1> QED
    BY <1>2, <1>3, <1>4, <1>5, <1>6, <1>7, Zenon

(***************************************************************************)
(* Whatever of the console's requests and packets was not taken is queued  *)
(* or counted as dropped.                                                  *)
(***************************************************************************)
THEOREM AllCounted == Spec => []DropsCounted
  <1>1. Init => DropsCounted
    BY EmptySeq DEF Init, DropsCounted
  <1> QED
    BY <1>1, DropsStep, TypeCorrect, RelayAssumption, PTL DEF Spec

-----------------------------------------------------------------------------
(* The order *)

LEMMA LinesInit == Init => Lines /\ Passing
  <1>1. Len(<<>>) = 0
    BY EmptySeq
  <1> QED BY <1>1 DEF Init, Lines, Passing, InLine

LEMMA LinesStep == ASSUME RelayAssumption
                   PROVE  TypeOK /\ Lines /\ Passing /\ [Next]_vars => Lines' /\ Passing'
  <1> SUFFICES ASSUME TypeOK, Lines, Passing, [Next]_vars PROVE Lines' /\ Passing'
    OBVIOUS
  <1> DEFINE Requested == InLine(repeated, cur, control, Len(requests))
             Packed == InLine(written, outCur, outQueue, Len(packets))
  <1>1. Requested /\ Packed
    BY DEF Lines
  <1>2. /\ requests \in Seq({"request"}) /\ packets \in Seq({"packet"})
        /\ Len(requests) \in Nat /\ Len(packets) \in Nat
        /\ control \in Seq(1..Len(requests)) /\ outQueue \in Seq(1..Len(packets))
    BY LenProperties, Zenon DEF TypeOK
  <1>3. CASE RepeatBegin
    <2>1. InLine(repeated, cur', control', Len(requests)) /\ cur' # 0
      <3>1. InLine(repeated, Head(control), Tail(control), Len(requests))
        BY <1>1, <1>2, <1>3, LineTaken, Zenon DEF RepeatBegin
      <3>2. Head(control) # 0
        BY <1>2, <1>3, Taken DEF RepeatBegin
      <3> QED BY <1>3, <3>1, <3>2, Zenon DEF RepeatBegin
    <2>2. UNCHANGED <<requests, repeated, packetVars, out, outCur, written>>
      BY <1>3, Zenon DEF RepeatBegin
    <2> QED BY <1>1, <2>1, <2>2, Zenon DEF Lines, Passing, packetVars
  <1>4. CASE RepeatEnd
    <2>1. InLine(repeated', cur', control', Len(requests'))
      <3>1. InLine(repeated, 0, control, Len(requests)) /\ InLine(cur, 0, control, Len(requests))
        BY <1>1, <1>2, LineDone, Zenon
      <3> QED BY <1>4, <3>1, Zenon DEF RepeatEnd, reqVars
    <2>2. pc' = "select" /\ UNCHANGED <<packets, outQueue, out, outCur, written>>
      BY <1>4, Zenon DEF RepeatEnd, packetVars
    <2> QED BY <1>1, <2>1, <2>2 DEF Lines, Passing
  <1>5. CASE OutTake
    <2>1. InLine(written, outCur', outQueue', Len(packets)) /\ outCur' # 0
      <3>1. InLine(written, Head(outQueue), Tail(outQueue), Len(packets))
        BY <1>1, <1>2, <1>5, LineTaken, Zenon DEF OutTake
      <3>2. Head(outQueue) # 0
        BY <1>2, <1>5, Taken DEF OutTake
      <3> QED BY <1>5, <3>1, <3>2, Zenon DEF OutTake
    <2>2. UNCHANGED <<requests, control, repeated, packets, pc, cur, written>>
      BY <1>5, Zenon DEF OutTake, reqVars
    <2> QED BY <1>1, <2>1, <2>2, Zenon DEF Lines, Passing
  <1>6. CASE WriteOk \/ WriteFails
    <2>1. InLine(written', outCur', outQueue', Len(packets')) /\ out' # "write"
      <3>1. InLine(written, 0, outQueue, Len(packets)) /\ InLine(outCur, 0, outQueue, Len(packets))
        BY <1>1, <1>2, LineDone, Zenon
      <3> QED BY <1>6, <3>1 DEF WriteOk, WriteFails, packetVars
    <2>2. UNCHANGED <<requests, control, repeated, pc, cur>>
      BY <1>6, Zenon DEF WriteOk, WriteFails, reqVars
    <2> QED BY <1>1, <2>1, <2>2, Zenon DEF Lines, Passing
  <1>7. CASE Leave
    <2>1. InLine(repeated, 0, control, Len(requests)) /\ InLine(written, 0, outQueue, Len(packets))
      BY <1>1, <1>2, LineDone, Zenon
    <2> QED BY <1>7, <2>1 DEF Leave, Lines, Passing, reqVars, packetVars, history
  <1>8. CASE ConsoleRequests
    <2>1. InLine(repeated', cur', control', Len(requests'))
      <3>1. Len(requests') = Len(requests) + 1
        BY <1>2, <1>8, Longer DEF ConsoleRequests
      <3>2. InLine(repeated, cur, Queued(control, Len(requests) + 1), Len(requests) + 1)
        BY <1>1, <1>2, LineSent, Zenon
      <3> QED BY <1>8, <3>1, <3>2, Zenon DEF ConsoleRequests, run, history
    <2>2. UNCHANGED <<packets, outQueue, written, pc, cur, out, outCur>>
      BY <1>8, Zenon DEF ConsoleRequests, run, packetVars, history
    <2> QED BY <1>1, <2>1, <2>2, Zenon DEF Lines, Passing
  <1>9. CASE ConsoleWrites
    <2>1. InLine(written', outCur', outQueue', Len(packets'))
      <3>1. Len(packets') = Len(packets) + 1
        BY <1>2, <1>9, Longer DEF ConsoleWrites
      <3>2. InLine(written, outCur, Queued(outQueue, Len(packets) + 1), Len(packets) + 1)
        BY <1>1, <1>2, LineSent, Zenon
      <3> QED BY <1>9, <3>1, <3>2, Zenon DEF ConsoleWrites, run, history
    <2>2. UNCHANGED <<requests, control, repeated, pc, cur, out, outCur>>
      BY <1>9, Zenon DEF ConsoleWrites, run, reqVars, history
    <2> QED BY <1>1, <2>1, <2>2, Zenon DEF Lines, Passing
  <1>10. CASE /\ UNCHANGED <<requests, control, repeated, cur, packets, outQueue, written, outCur>>
              /\ pc' # "repeat" \/ pc' = pc
              /\ out' # "write" \/ out' = out
    BY <1>1, <1>10 DEF Lines, Passing
  <1>11. CASE Start \/ ProbeOk \/ ProbeFails \/ CommandBegin \/ CommandEnd \/ Boot
              \/ ConsoleAuth \/ UNCHANGED vars
    BY <1>10, <1>11 DEF Start, ProbeOk, ProbeFails, Relaying, CommandBegin, CommandEnd, Boot,
       ConsoleAuth, vars, run, reqVars, packetVars, history
  <1> QED
    BY <1>3, <1>4, <1>5, <1>6, <1>7, <1>8, <1>9, <1>11, Zenon DEF Next, Serve, ForwardOut

(***************************************************************************)
(* The console's requests and its packets reach DriveHub in their order,   *)
(* none twice: Relay implements LossyFifo for each.                        *)
(***************************************************************************)
THEOREM OrderKept == Spec => InOrder
  <1>1. Init => Requests!Init /\ Packets!Init
    BY DEF Init, Requests!Init, Packets!Init
  <1>2. TypeOK /\ Lines /\ Passing /\ [Next]_vars
          => [Requests!Next]_<<requests, repeated>> /\ [Packets!Next]_<<packets, written>>
    <2> SUFFICES ASSUME TypeOK, Lines, Passing, [Next]_vars
                 PROVE  [Requests!Next]_<<requests, repeated>> /\ [Packets!Next]_<<packets, written>>
      OBVIOUS
    <2>1. CASE RepeatEnd
      <3>1. cur # 0 /\ cur \in (repeated + 1)..Len(requests)
        BY <2>1, LenProperties DEF RepeatEnd, Passing, Lines, InLine, TypeOK
      <3>2. /\ requests' = requests /\ repeated' \in {repeated, cur}
            /\ UNCHANGED <<packets, written>>
        BY <2>1 DEF RepeatEnd, reqVars, packetVars
      <3> QED BY <3>1, <3>2 DEF Requests!Next, Requests!Deliver
    <2>2. CASE WriteOk \/ WriteFails
      <3>1. outCur # 0 /\ outCur \in (written + 1)..Len(packets)
        BY <2>2, LenProperties DEF WriteOk, WriteFails, Passing, Lines, InLine, TypeOK
      <3>2. /\ packets' = packets /\ written' \in {written, outCur}
            /\ UNCHANGED <<requests, repeated>>
        BY <2>2 DEF WriteOk, WriteFails, reqVars, packetVars
      <3> QED BY <3>1, <3>2 DEF Packets!Next, Packets!Deliver
    <2>3. CASE ConsoleRequests
      BY <2>3 DEF ConsoleRequests, packetVars, history, Requests!Next, Requests!Send
    <2>4. CASE ConsoleWrites
      BY <2>4 DEF ConsoleWrites, reqVars, history, Packets!Next, Packets!Send
    <2>5. CASE UNCHANGED <<requests, repeated, packets, written>>
      BY <2>5
    <2>6. \/ RepeatEnd \/ WriteOk \/ WriteFails \/ ConsoleRequests \/ ConsoleWrites
          \/ UNCHANGED <<requests, repeated, packets, written>>
      BY Zenon DEF Next, Serve, ForwardOut, vars, run, reqVars, packetVars, history, Start,
         ProbeOk, ProbeFails, RepeatBegin, CommandBegin, CommandEnd, OutTake, Leave, Boot,
         ConsoleAuth
    <2> QED
      BY <2>1, <2>2, <2>3, <2>4, <2>5, <2>6, Zenon
  <1> QED
    BY <1>1, <1>2, LinesInit, LinesStep, TypeCorrect, RelayAssumption, PTL
       DEF Spec, InOrder, Requests!Spec, Packets!Spec
=============================================================================
