---------------------------- MODULE SitemapProofs ----------------------------
(***************************************************************************)
(* The safety properties of Sitemap, for any finite sets of clients and of *)
(* server processes and any values of the bounds.                          *)
(*                                                                         *)
(* The map is described by the counts k that it holds, one number for each *)
(* site, whatever its type: Holds(k) says so of the single entry or of the *)
(* arrays, Shape(k) what s_maptype, s_count and the lock say then.         *)
(* Level(k) is Balanced with k for Count: a request that is sent or served *)
(* moves its value from one side to the other.                             *)
(*                                                                         *)
(* KnownInUse and Decrements need Doubles besides.  A process sleeps for   *)
(* each addition under way, and has a reference: adding[c] is the number   *)
(* of the site's additions, and at most d_rcount and d_vcount.  When none  *)
(* is under way, nothing but lookups can raise the count, and those are on *)
(* the other side of Level: k[c] >= d_vcount.  When a decrement does not   *)
(* find what it takes away, Level says that additions of the site outweigh *)
(* their number (Enough): one of them is of more than 1, which only the    *)
(* case of the limit sends.                                                *)
(***************************************************************************)
EXTENDS Sitemap, SumLemmas, TLAPS

\* An entry of the map.
SiteEntry == [s_site: Clients, s_count: Nat]

\* The requests that are ever sent.
Msg == {m \in Message : /\ m.value # 0
                        /\ m.kind \in {"lookup", "first"} => m.value = 1
                        /\ m.kind \in {"last", "unused"} => m.value < 0}

\* A process that allocates an array, and one that holds a request.
Allocating == {"second", "next"}
Busy == [pc: {"wait", "woken"} \cup Allocating, msg: Msg]

\* A bag of requests.
IsBag(B) ==
  /\ IsFiniteSet(DOMAIN B)
  /\ DOMAIN B \subseteq Msg
  /\ B \in [DOMAIN B -> Nat \ {0}]

\* The types of the map, and of everything.
MapTypes ==
  /\ s_maptype \in {"S_MAPEMPTY", "S_ONESITE", "S_ARRAY", "S_LOCKED", "S_WAITING"}
  /\ s_count \in Nat
  /\ s_onesite \in SiteEntry
  /\ s_array \in Seq([Slots -> SiteEntry])

Types ==
  /\ MapTypes
  /\ nsp \in [Servers -> {Idle} \cup Busy]
  /\ dcount \in [Clients -> [d_rcount: Nat, d_vcount: Nat]]
  /\ IsBag(msgs)
  /\ replies \in [Clients -> Nat] /\ adding \in [Clients -> Nat]
  /\ refs \in 0..MaxRefs /\ panicked \subseteq Clients

\* The additions for which processes sleep.
Additions(c) ==
  [m \in Message |-> IF m.site = c /\ m.kind # "lookup" /\ m.value > 0 THEN 1 ELSE 0]

\* The double counts: a site's additions under way are at most either count.
Doubles ==
  \A c \in Clients :
    /\ adding[c] = Total(Additions(c))
    /\ adding[c] <= dcount[c].d_rcount
    /\ adding[c] <= dcount[c].d_vcount
    /\ dcount[c].d_rcount > 0 => dcount[c].d_vcount > 0

\* The arrays count k[c] for each site c, in one entry at most.
ArraysHold(arrays, k) ==
  /\ \A i \in 1..Len(arrays), j \in Slots :
       arrays[i][j].s_count # 0 => k[arrays[i][j].s_site] = arrays[i][j].s_count
  /\ \A c \in Clients : k[c] # 0 =>
       \E i \in 1..Len(arrays), j \in Slots :
          arrays[i][j].s_count # 0 /\ arrays[i][j].s_site = c
  /\ \A i1, i2 \in 1..Len(arrays), j1, j2 \in Slots :
       /\ arrays[i1][j1].s_count # 0 /\ arrays[i2][j2].s_count # 0
       /\ arrays[i1][j1].s_site = arrays[i2][j2].s_site
       => i1 = i2 /\ j1 = j2

\* The map counts k[c] for each site c.
Holds(k) ==
  /\ s_array # <<>> => ArraysHold(s_array, k)
  /\ s_array = <<>> => \A c \in Clients :
       k[c] = IF s_onesite.s_site = c THEN s_onesite.s_count ELSE 0

\* The sites that are counted.
Used(k) == {c \in Clients : k[c] > 0}

\* Process p allocates an array, for a site that the map does not count.
Allocates(p, k) ==
  /\ nsp[p].pc \in Allocating /\ nsp[p].msg.value > 0 /\ k[nsp[p].msg.site] = 0
  /\ nsp[p].pc = "second" => s_array = <<>> /\ s_onesite.s_count > 0 /\ s_count = 1
  /\ nsp[p].pc = "next" => s_array # <<>> /\ s_count = Cardinality(Used(k)) + 1

\* What the type of the map says of it.
Shape(k) ==
  /\ s_maptype = "S_MAPEMPTY" => s_array = <<>> /\ s_onesite.s_count = 0 /\ s_count = 0
  /\ s_maptype = "S_ONESITE" => s_array = <<>> /\ s_onesite.s_count > 0 /\ s_count = 1
  /\ s_maptype = "S_ARRAY" => s_array # <<>> /\ s_count = Cardinality(Used(k))
  /\ ~Locked => \A p \in Servers : nsp[p].pc \notin Allocating
  /\ Locked => \E p \in Servers : /\ Allocates(p, k)
                                  /\ \A q \in Servers \ {p} : nsp[q].pc \notin Allocating

\* Nothing is lost between the counts k of the server and those of the clients.
Level(k) == \A c \in Clients : k[c] + Pending(c) = dcount[c].d_vcount + Lookups(c)

\* The inductive invariant.
SitemapInv ==
  /\ Types /\ Doubles /\ Decrements
  /\ \E k \in [Clients -> Nat] : Holds(k) /\ Shape(k) /\ (panicked = {} => Level(k))

-----------------------------------------------------------------------------
(* Sums over the requests under way.                                       *)

\* The weights of the requests of a bag, and of those that processes hold.
InBag(w, B) == [m \in BagToSet(B) |-> w[m] * B[m]]
InHand(w, N) == [p \in Servers |-> IF N[p] = Idle THEN 0 ELSE w[N[p].msg]]

\* A process that holds a request is not idle.
LEMMA BusyFacts ==
  /\ Idle \notin Busy
  /\ \A n \in Busy : n # Idle /\ n.msg \in Msg /\ n.msg \in Message
BY DEF Busy, Idle, Msg

\* The numbers in InBag are integers.
LEMMA InBagInt ==
  ASSUME NEW w \in [Message -> Int], NEW B, IsBag(B)
  PROVE  /\ \A m \in DOMAIN B : m \in Message /\ B[m] \in Nat /\ w[m] \in Int
                                /\ InBag(w, B)[m] = w[m] * B[m] /\ InBag(w, B)[m] \in Int
         /\ SumFunction(InBag(w, B)) = SumOn(InBag(w, B), DOMAIN B)
         /\ SumFunction(InBag(w, B)) \in Int
<1>1. \A m \in DOMAIN B : m \in Message /\ B[m] \in Nat /\ w[m] \in Int
                          /\ InBag(w, B)[m] = w[m] * B[m] /\ InBag(w, B)[m] \in Int
  BY DEF IsBag, InBag, BagToSet, Msg
<1>2. SumFunction(InBag(w, B)) = SumOn(InBag(w, B), DOMAIN B)
  BY DEF SumFunction, SumOn, InBag, BagToSet
<1> QED
  BY <1>1, <1>2, SumInt DEF IsBag

\* The numbers in InHand are integers.
LEMMA InHandInt ==
  ASSUME NEW w \in [Message -> Int], NEW N \in [Servers -> {Idle} \cup Busy]
  PROVE  /\ \A p \in Servers : InHand(w, N)[p] \in Int
         /\ SumFunction(InHand(w, N)) = SumOn(InHand(w, N), Servers)
         /\ SumFunction(InHand(w, N)) \in Int
<1>1. \A p \in Servers : InHand(w, N)[p] \in Int
  BY BusyFacts DEF InHand
<1>2. SumFunction(InHand(w, N)) = SumOn(InHand(w, N), Servers)
  BY DEF SumFunction, SumOn, InHand
<1> QED
  BY <1>1, <1>2, SumInt, SitemapAssumption

\* A request is added to a bag.
LEMMA BagAddSum ==
  ASSUME NEW w \in [Message -> Int], NEW B, IsBag(B), NEW m \in Msg
  PROVE  /\ IsBag((B (+) SetToBag({m})))
         /\ DOMAIN (B (+) SetToBag({m})) = DOMAIN B \cup {m}
         /\ SumFunction(InBag(w, (B (+) SetToBag({m})))) = SumFunction(InBag(w, B)) + w[m]
<1> DEFINE A == (B (+) SetToBag({m}))
<1>1. /\ DOMAIN A = DOMAIN B \cup {m}
      /\ \A e \in DOMAIN B \ {m} : A[e] = B[e]
      /\ m \in DOMAIN B => A[m] = B[m] + 1
      /\ m \notin DOMAIN B => A[m] = 1
      /\ A = [e \in DOMAIN A |-> A[e]]
  BY DEF (+), SetToBag, IsBag
<1> HIDE DEF A
<1>2. IsBag(A)
  <2>1. IsFiniteSet(DOMAIN A)
    <3>1. IsFiniteSet(DOMAIN B \cup {m})
      BY FS_AddElement DEF IsBag
    <3> QED
      BY <1>1, <3>1
  <2>2. \A e \in DOMAIN A : A[e] \in Nat \ {0} /\ e \in Msg
    BY <1>1 DEF IsBag
  <2> QED
    BY <1>1, <2>1, <2>2 DEF IsBag
<1>3. w[m] \in Int /\ m \in Message
  BY DEF Msg
<1>4. \A e \in DOMAIN B \ {m} : InBag(w, A)[e] = InBag(w, B)[e] /\ InBag(w, B)[e] \in Int
  BY <1>1, <1>2, InBagInt
<1>5. CASE m \in DOMAIN B
  <2>1. InBag(w, A)[m] = InBag(w, B)[m] + w[m] /\ InBag(w, B)[m] \in Int
    <3>1. InBag(w, A)[m] = w[m] * (B[m] + 1) /\ InBag(w, B)[m] = w[m] * B[m] /\ B[m] \in Nat
      BY <1>1, <1>2, <1>5, InBagInt
    <3> QED
      BY <3>1, <1>3
  <2>2. DOMAIN A = DOMAIN B
    BY <1>1, <1>5
  <2>3. SumOn(InBag(w, A), DOMAIN B) = SumOn(InBag(w, B), DOMAIN B) + InBag(w, A)[m] - InBag(w, B)[m]
    <3>1. InBag(w, A)[m] \in Int /\ IsFiniteSet(DOMAIN B)
      BY <2>1, <1>3 DEF IsBag
    <3> QED
      BY <3>1, <2>1, <1>4, <1>5, SumBut
  <2> QED
    BY <1>1, <1>2, <1>3, <2>1, <2>2, <2>3, InBagInt DEF A
<1>6. CASE m \notin DOMAIN B
  <2>1. InBag(w, A)[m] = w[m]
    <3>1. InBag(w, A)[m] = w[m] * A[m] /\ A[m] = 1
      BY <1>1, <1>2, <1>6, InBagInt
    <3> QED
      BY <3>1, <1>3
  <2>2. SumOn(InBag(w, A), DOMAIN A) = InBag(w, A)[m] + SumOn(InBag(w, A), DOMAIN A \ {m})
    BY <1>1, <1>2, InBagInt, SumTakeOut DEF IsBag
  <2>3. DOMAIN A \ {m} = DOMAIN B
    BY <1>1, <1>6
  <2>4. SumOn(InBag(w, A), DOMAIN B) = SumOn(InBag(w, B), DOMAIN B)
    BY <1>4, <1>6, SumSame DEF IsBag
  <2> QED
    BY <1>1, <1>2, <1>3, <2>1, <2>2, <2>3, <2>4, InBagInt DEF A
<1> QED
  BY <1>5, <1>6

\* A request is taken out of a bag.
LEMMA BagRemoveSum ==
  ASSUME NEW w \in [Message -> Int], NEW B, IsBag(B), NEW m \in DOMAIN B
  PROVE  /\ IsBag((B (-) SetToBag({m})))
         /\ DOMAIN B \ {m} \subseteq DOMAIN (B (-) SetToBag({m}))
         /\ SumFunction(InBag(w, (B (-) SetToBag({m})))) = SumFunction(InBag(w, B)) - w[m]
<1> DEFINE R == (B (-) SetToBag({m}))
<1>1. /\ DOMAIN B = DOMAIN R \cup {m}
      /\ \A e \in DOMAIN B \ {m} : R[e] = B[e]
      /\ m \in DOMAIN R <=> B[m] # 1
      /\ m \in DOMAIN R => R[m] = B[m] - 1
      /\ R = [e \in DOMAIN R |-> R[e]]
  <2> DEFINE C == [e \in DOMAIN B |-> IF e = m THEN B[e] - 1 ELSE B[e]]
  <2>1. R = [e \in {d \in DOMAIN B : C[d] > 0} |-> C[e]]
    BY DEF (-), SetToBag
  <2>2. \A e \in DOMAIN B : B[e] \in Nat \ {0} /\ C[e] = IF e = m THEN B[e] - 1 ELSE B[e]
    BY DEF IsBag
  <2> HIDE DEF C
  <2>3. /\ DOMAIN R = {d \in DOMAIN B : C[d] > 0} /\ \A e \in DOMAIN R : R[e] = C[e]
        /\ R = [e \in DOMAIN R |-> R[e]]
    BY <2>1
  <2> HIDE DEF R
  <2> QED
    BY <2>2, <2>3
<1> HIDE DEF R
<1>2. m \in Msg /\ B[m] \in Nat \ {0}
  BY DEF IsBag
<1>3. IsBag(R)
  <2>1. IsFiniteSet(DOMAIN R)
    <3>1. IsFiniteSet(DOMAIN B) /\ DOMAIN R \subseteq DOMAIN B
      BY <1>1 DEF IsBag
    <3> QED
      BY <3>1, FS_Subset
  <2>2. \A e \in DOMAIN R : R[e] \in Nat \ {0} /\ e \in Msg
    BY <1>1, <1>2 DEF IsBag
  <2> QED
    BY <1>1, <2>1, <2>2 DEF IsBag
<1>4. (R (+) SetToBag({m})) = B
  <2>1. DOMAIN (R (+) SetToBag({m})) = DOMAIN B /\ (R (+) SetToBag({m})) = [e \in DOMAIN B |-> (R (+) SetToBag({m}))[e]]
    BY <1>1 DEF (+), SetToBag, IsBag
  <2>2. \A e \in DOMAIN B : (R (+) SetToBag({m}))[e] = B[e]
    BY <1>1, <1>2 DEF (+), SetToBag, IsBag
  <2>3. B = [e \in DOMAIN B |-> B[e]]
    BY DEF IsBag
  <2> QED
    BY <2>1, <2>2, <2>3
<1>5. SumFunction(InBag(w, B)) = SumFunction(InBag(w, R)) + w[m]
  BY <1>2, <1>3, <1>4, BagAddSum
<1>6. w[m] \in Int /\ SumFunction(InBag(w, R)) \in Int
  BY <1>2, <1>3, InBagInt DEF Msg
<1> QED
  BY <1>1, <1>3, <1>5, <1>6 DEF R

\* One process takes, or is rid of, a request; what the others hold stays.
LEMMA HandSum ==
  ASSUME NEW w \in [Message -> Int], NEW p \in Servers,
         NEW N \in [Servers -> {Idle} \cup Busy], NEW O \in [Servers -> {Idle} \cup Busy],
         \A q \in Servers \ {p} : (O[q] = Idle <=> N[q] = Idle) /\ (N[q] # Idle => O[q].msg = N[q].msg)
  PROVE  SumFunction(InHand(w, O)) = SumFunction(InHand(w, N)) + InHand(w, O)[p] - InHand(w, N)[p]
<1>1. \A q \in Servers \ {p} : InHand(w, N)[q] \in Int /\ InHand(w, O)[q] = InHand(w, N)[q]
  BY InHandInt DEF InHand
<1>2. InHand(w, N)[p] \in Int /\ InHand(w, O)[p] \in Int
  BY InHandInt
<1> QED
  BY <1>1, <1>2, SumBut, InHandInt, SitemapAssumption

\* The sum over the requests of the bag B and those that the processes of N hold.
TotalOf(w, B, N) == SumFunction(InBag(w, B)) + SumFunction(InHand(w, N))

\* Whether m is one of them.
IsIn(m, B, N) == m \in DOMAIN B \/ \E p \in Servers : N[p] # Idle /\ N[p].msg = m

\* Total is the sum over the requests under way, before a step and after it.
LEMMA TotalIs ==
  ASSUME NEW w
  PROVE  /\ Total(w) = TotalOf(w, msgs, nsp)
         /\ Total(w)' = TotalOf(w, msgs', nsp')
BY DEF Total, TotalOf, InBag, InHand

\* A total is an integer.
LEMMA TotalInt ==
  ASSUME NEW w \in [Message -> Int], NEW B, IsBag(B), NEW N \in [Servers -> {Idle} \cup Busy]
  PROVE  TotalOf(w, B, N) \in Int
BY InBagInt, InHandInt DEF TotalOf

\* A total of natural numbers is one.
LEMMA TotalNat ==
  ASSUME NEW w \in [Message -> Nat], NEW B, IsBag(B), NEW N \in [Servers -> {Idle} \cup Busy]
  PROVE  TotalOf(w, B, N) \in Nat
<1>1. w \in [Message -> Int]
  OBVIOUS
<1>2. \A x \in DOMAIN B : InBag(w, B)[x] \in Nat
  <2>1. \A x \in DOMAIN B : x \in Message /\ B[x] \in Nat /\ InBag(w, B)[x] = w[x] * B[x]
    BY <1>1, InBagInt
  <2> QED
    BY <2>1
<1>3. \A p \in Servers : InHand(w, N)[p] \in Nat
  BY BusyFacts DEF InHand
<1>4. SumOn(InBag(w, B), DOMAIN B) \in Nat
  BY <1>2, SumNat DEF IsBag
<1>5. SumOn(InHand(w, N), Servers) \in Nat
  BY <1>3, SumNat, SitemapAssumption
<1> QED
  BY <1>1, <1>4, <1>5, InBagInt, InHandInt DEF TotalOf

\* The totals of a state are numbers.
LEMMA TotalTyped ==
  ASSUME NEW w
  PROVE  /\ IsBag(msgs) /\ nsp \in [Servers -> {Idle} \cup Busy] =>
              /\ w \in [Message -> Int] => Total(w) \in Int
              /\ w \in [Message -> Nat] => Total(w) \in Nat
         /\ IsBag(msgs') /\ nsp' \in [Servers -> {Idle} \cup Busy] =>
              /\ w \in [Message -> Int] => Total(w)' \in Int
              /\ w \in [Message -> Nat] => Total(w)' \in Nat
<1>1. IsBag(msgs) /\ nsp \in [Servers -> {Idle} \cup Busy] =>
        /\ w \in [Message -> Int] => TotalOf(w, msgs, nsp) \in Int
        /\ w \in [Message -> Nat] => TotalOf(w, msgs, nsp) \in Nat
  BY TotalInt, TotalNat
<1>2. IsBag(msgs') /\ nsp' \in [Servers -> {Idle} \cup Busy] =>
        /\ w \in [Message -> Int] => TotalOf(w, msgs', nsp') \in Int
        /\ w \in [Message -> Nat] => TotalOf(w, msgs', nsp') \in Nat
  BY TotalInt, TotalNat
<1> QED
  BY <1>1, <1>2, TotalIs

\* A request is sent.
LEMMA TotalSent ==
  ASSUME NEW w \in [Message -> Int], NEW B, IsBag(B), NEW N \in [Servers -> {Idle} \cup Busy],
         NEW m \in Msg
  PROVE  TotalOf(w, B (+) SetToBag({m}), N) = TotalOf(w, B, N) + w[m]
<1>1. w[m] \in Int
  BY DEF Msg
<1>2. SumFunction(InBag(w, B (+) SetToBag({m}))) = SumFunction(InBag(w, B)) + w[m]
  BY BagAddSum
<1>3. SumFunction(InBag(w, B)) \in Int /\ SumFunction(InHand(w, N)) \in Int
  BY InBagInt, InHandInt
<1> QED
  BY <1>1, <1>2, <1>3 DEF TotalOf

\* Process p gets its request m from the bag B, of which A is left, or has it.
From(p, m, B, A, N) ==
  \/ N[p] = Idle /\ m \in DOMAIN B /\ A = B (-) SetToBag({m})
  \/ N[p] # Idle /\ m = N[p].msg /\ A = B

\* The processes but p hold in O what they hold in N.
Others(p, N, O) ==
  \A q \in Servers \ {p} : (O[q] = Idle <=> N[q] = Idle) /\ (N[q] # Idle => O[q].msg = N[q].msg)

\* What process p gets is a request, and there is a bag left.
LEMMA FromBag ==
  ASSUME NEW B, IsBag(B), NEW A, NEW p \in Servers, NEW N \in [Servers -> {Idle} \cup Busy],
         NEW m, From(p, m, B, A, N)
  PROVE  m \in Msg /\ m \in Message /\ IsBag(A)
<1>1. CASE N[p] = Idle /\ m \in DOMAIN B /\ A = B (-) SetToBag({m})
  <2>1. [x \in Message |-> 0] \in [Message -> Int]
    OBVIOUS
  <2>2. IsBag(A)
    BY <1>1, <2>1, BagRemoveSum
  <2> QED
    BY <1>1, <2>2 DEF IsBag, Msg
<1>2. CASE N[p] # Idle /\ m = N[p].msg /\ A = B
  BY <1>2, BusyFacts
<1> QED
  BY <1>1, <1>2 DEF From

\* Process p has dealt with a request, or has taken it.
LEMMA TotalTaken ==
  ASSUME NEW w \in [Message -> Int], NEW B, IsBag(B), NEW A, NEW p \in Servers,
         NEW N \in [Servers -> {Idle} \cup Busy], NEW O \in [Servers -> {Idle} \cup Busy],
         Others(p, N, O), NEW m, From(p, m, B, A, N)
  PROVE  /\ O[p] = Idle => TotalOf(w, A, O) = TotalOf(w, B, N) - w[m]
         /\ O[p] # Idle /\ O[p].msg = m => TotalOf(w, A, O) = TotalOf(w, B, N)
<1>1. SumFunction(InHand(w, O)) = SumFunction(InHand(w, N)) + InHand(w, O)[p] - InHand(w, N)[p]
  BY HandSum DEF Others
<1>2. m \in Message /\ w[m] \in Int /\ IsBag(A)
  BY FromBag
<1>3. /\ InHand(w, O)[p] = (IF O[p] = Idle THEN 0 ELSE w[O[p].msg])
      /\ InHand(w, N)[p] = (IF N[p] = Idle THEN 0 ELSE w[N[p].msg])
  BY DEF InHand
<1>4. /\ SumFunction(InHand(w, N)) \in Int
      /\ SumFunction(InBag(w, B)) \in Int
  BY InBagInt, InHandInt
<1>5. CASE N[p] = Idle /\ m \in DOMAIN B /\ A = B (-) SetToBag({m})
  <2>1. SumFunction(InBag(w, A)) = SumFunction(InBag(w, B)) - w[m]
    BY <1>5, BagRemoveSum
  <2> QED
    BY <1>1, <1>2, <1>3, <1>4, <1>5, <2>1 DEF TotalOf
<1>6. CASE N[p] # Idle /\ m = N[p].msg /\ A = B
  BY <1>1, <1>2, <1>3, <1>4, <1>6 DEF TotalOf
<1> QED
  BY <1>5, <1>6 DEF From

\* Larger weights have a larger total.
LEMMA TotalLe ==
  ASSUME NEW v \in [Message -> Int], NEW w \in [Message -> Int],
         NEW B, IsBag(B), NEW N \in [Servers -> {Idle} \cup Busy],
         \A m \in Msg : IsIn(m, B, N) => v[m] <= w[m]
  PROVE  TotalOf(v, B, N) <= TotalOf(w, B, N)
<1>1. ASSUME NEW m \in DOMAIN B PROVE InBag(v, B)[m] <= InBag(w, B)[m]
  <2>1. B[m] \in Nat /\ v[m] \in Int /\ w[m] \in Int /\ v[m] <= w[m]
    BY InBagInt DEF IsIn, IsBag
  <2>2. v[m] * B[m] <= w[m] * B[m]
    BY <2>1
  <2> QED
    BY <2>2, InBagInt
<1>2. SumOn(InBag(v, B), DOMAIN B) <= SumOn(InBag(w, B), DOMAIN B)
  BY <1>1, InBagInt, SumLe DEF IsBag
<1>3. \A p \in Servers : InHand(v, N)[p] <= InHand(w, N)[p]
  BY BusyFacts DEF InHand, IsIn
<1>4. SumOn(InHand(v, N), Servers) <= SumOn(InHand(w, N), Servers)
  BY <1>3, InHandInt, SumLe, SitemapAssumption
<1> QED
  BY <1>2, <1>4, InBagInt, InHandInt DEF TotalOf

\* The total of the sums of two weights.
LEMMA TotalAdd ==
  ASSUME NEW u \in [Message -> Int], NEW v \in [Message -> Int], NEW w \in [Message -> Int],
         \A m \in Message : w[m] = u[m] + v[m],
         NEW B, IsBag(B), NEW N \in [Servers -> {Idle} \cup Busy]
  PROVE  TotalOf(w, B, N) = TotalOf(u, B, N) + TotalOf(v, B, N)
<1>1. ASSUME NEW m \in DOMAIN B PROVE InBag(w, B)[m] = InBag(u, B)[m] + InBag(v, B)[m]
  <2>1. B[m] \in Nat /\ u[m] \in Int /\ v[m] \in Int /\ w[m] = u[m] + v[m]
    BY InBagInt
  <2>2. w[m] * B[m] = u[m] * B[m] + v[m] * B[m]
    BY <2>1
  <2> QED
    BY <2>2, InBagInt
<1>2. SumOn(InBag(w, B), DOMAIN B) = SumOn(InBag(u, B), DOMAIN B) + SumOn(InBag(v, B), DOMAIN B)
  BY <1>1, InBagInt, SumAdd DEF IsBag
<1>3. \A p \in Servers : InHand(w, N)[p] = InHand(u, N)[p] + InHand(v, N)[p]
  BY BusyFacts DEF InHand
<1>4. SumOn(InHand(w, N), Servers) = SumOn(InHand(u, N), Servers) + SumOn(InHand(v, N), Servers)
  BY <1>3, InHandInt, SumAdd, SitemapAssumption
<1> QED
  BY <1>2, <1>4, InBagInt, InHandInt DEF TotalOf

\* If the total of natural numbers is 0, each of them is.
LEMMA TotalZero ==
  ASSUME NEW w \in [Message -> Nat], NEW B, IsBag(B), NEW N \in [Servers -> {Idle} \cup Busy],
         TotalOf(w, B, N) = 0, NEW m \in Msg, IsIn(m, B, N)
  PROVE  w[m] = 0
<1>1. w \in [Message -> Int] /\ w[m] \in Nat
  BY DEF Msg
<1>2. \A x \in DOMAIN B : InBag(w, B)[x] \in Nat
  <2>1. \A x \in DOMAIN B : x \in Message /\ B[x] \in Nat /\ InBag(w, B)[x] = w[x] * B[x]
    BY <1>1, InBagInt
  <2> QED
    BY <2>1
<1>3. \A p \in Servers : InHand(w, N)[p] \in Nat
  BY BusyFacts DEF InHand
<1>4. /\ SumOn(InBag(w, B), DOMAIN B) \in Nat
      /\ \A x \in DOMAIN B : InBag(w, B)[x] <= SumOn(InBag(w, B), DOMAIN B)
  BY <1>2, SumNat DEF IsBag
<1>5. /\ SumOn(InHand(w, N), Servers) \in Nat
      /\ \A p \in Servers : InHand(w, N)[p] <= SumOn(InHand(w, N), Servers)
  BY <1>3, SumNat, SitemapAssumption
<1>6. SumOn(InBag(w, B), DOMAIN B) = 0 /\ SumOn(InHand(w, N), Servers) = 0
  BY <1>1, <1>4, <1>5, InBagInt, InHandInt DEF TotalOf
<1>7. CASE m \in DOMAIN B
  <2>1. InBag(w, B)[m] = 0
    BY <1>2, <1>4, <1>6, <1>7
  <2>2. w[m] * B[m] = 0 /\ B[m] \in Nat \ {0}
    BY <1>1, <1>7, <2>1, InBagInt DEF IsBag
  <2> QED
    BY <1>1, <2>2
<1>8. ASSUME NEW p \in Servers, N[p] # Idle, N[p].msg = m PROVE w[m] = 0
  <2>1. InHand(w, N)[p] = 0
    BY <1>3, <1>5, <1>6
  <2> QED
    BY <1>8, <2>1 DEF InHand
<1> QED
  BY <1>7, <1>8 DEF IsIn

\* The weights of the model, and those of the invariant.
LEMMA Weights ==
  ASSUME NEW c \in Clients
  PROVE  /\ Values(c) \in [Message -> Int]
         /\ IsLookup(c) \in [Message -> Int] /\ IsLookup(c) \in [Message -> Nat]
         /\ Additions(c) \in [Message -> Int] /\ Additions(c) \in [Message -> Nat]
<1>1. \A m \in Message : m.value \in Int
  BY DEF Message
<1> QED
  BY <1>1 DEF Values, IsLookup, Additions

-----------------------------------------------------------------------------
(* The clients.                                                            *)

\* A step of a client does not touch the map.
LEMMA ClientStep ==
  ASSUME SitemapInv, UNCHANGED <<map, nsp, panicked>>,
         IsBag(msgs'), DOMAIN msgs \subseteq DOMAIN msgs',
         dcount' \in [Clients -> [d_rcount: Nat, d_vcount: Nat]],
         replies' \in [Clients -> Nat], adding' \in [Clients -> Nat], refs' \in 0..MaxRefs,
         Doubles',
         \A c \in Clients : Pending(c)' + dcount[c].d_vcount + Lookups(c)
                            = Pending(c) + dcount'[c].d_vcount + Lookups(c)'
  PROVE  SitemapInv'
<1>1. Types /\ Decrements
  BY DEF SitemapInv
<1>2. Types'
  BY <1>1 DEF Types, MapTypes, map
<1>3. Decrements'
  <2>1. ASSUME NEW c \in panicked'
        PROVE  \E m \in Underway(c)' : m.kind = "limit" /\ m.value > 0
    <3>1. c \in panicked
      OBVIOUS
    <3>2. PICK m \in Underway(c) : m.kind = "limit" /\ m.value > 0
      BY <1>1, <3>1 DEF Decrements
    <3>3. m \in Underway(c)'
      BY <3>2 DEF Underway, BagToSet
    <3> QED
      BY <3>2, <3>3
  <2> QED
    BY <2>1 DEF Decrements
<1>4. PICK k \in [Clients -> Nat] : Holds(k) /\ Shape(k) /\ (panicked = {} => Level(k))
  BY DEF SitemapInv
<1>5. Holds(k)'
  BY <1>4 DEF Holds, map
<1>6. Shape(k)'
  <2>1. \A p \in Servers : Allocates(p, k)' <=> Allocates(p, k)
    BY DEF Allocates, map
  <2> QED
    BY <1>4, <2>1 DEF Shape, map, Locked
<1>7. ASSUME panicked' = {} PROVE Level(k)'
  <2>1. ASSUME NEW c \in Clients
        PROVE  k[c] + Pending(c)' = dcount'[c].d_vcount + Lookups(c)'
    <3>1. k[c] + Pending(c) = dcount[c].d_vcount + Lookups(c)
      BY <1>4, <1>7 DEF Level
    <3>2. /\ Pending(c) \in Int /\ Lookups(c) \in Int /\ dcount[c].d_vcount \in Int /\ k[c] \in Int
          /\ Pending(c)' \in Int /\ Lookups(c)' \in Int /\ dcount'[c].d_vcount \in Int
      <4>1. /\ nsp \in [Servers -> {Idle} \cup Busy] /\ nsp' \in [Servers -> {Idle} \cup Busy]
            /\ IsBag(msgs) /\ IsBag(msgs')
        BY <1>1 DEF Types
      <4>2. /\ Total(Values(c)) \in Int /\ Total(IsLookup(c)) \in Int
            /\ Total(Values(c))' \in Int /\ Total(IsLookup(c))' \in Int
        BY <4>1, Weights, TotalTyped
      <4>3. replies[c] \in Nat /\ replies'[c] \in Nat
        BY <1>1 DEF Types
      <4>4. dcount[c].d_vcount \in Int /\ k[c] \in Int /\ dcount'[c].d_vcount \in Int
        BY <1>1 DEF Types
      <4> QED
        BY <4>2, <4>3, <4>4 DEF Pending, Lookups
    <3>3. Pending(c)' + dcount[c].d_vcount + Lookups(c)
          = Pending(c) + dcount'[c].d_vcount + Lookups(c)'
      OBVIOUS
    <3>4. PICK n \in Int, x \in Int, v \in Int, y \in Int, x2 \in Int, v2 \in Int, y2 \in Int :
             /\ n = k[c] /\ x = Pending(c) /\ v = dcount[c].d_vcount /\ y = Lookups(c)
             /\ x2 = Pending(c)' /\ v2 = dcount'[c].d_vcount /\ y2 = Lookups(c)'
      BY <3>2
    <3>5. n + x = v + y
      BY <3>1, <3>4
    <3>6. x2 + v + y = x + v2 + y2
      BY <3>3, <3>4
    <3>7. n + x2 = v2 + y2
      BY <3>5, <3>6
    <3> QED
      BY <3>4, <3>7
  <2> QED
    BY <2>1 DEF Level
<1> QED
  BY <1>2, <1>3, <1>4, <1>5, <1>6, <1>7 DEF SitemapInv

\* A request m is sent.
LEMMA Sent ==
  ASSUME Types, NEW m \in Msg, UNCHANGED nsp, msgs' = msgs (+) SetToBag({m}), NEW c \in Clients
  PROVE  /\ IsBag(msgs') /\ DOMAIN msgs \subseteq DOMAIN msgs'
         /\ Total(Values(c)) \in Int /\ Total(IsLookup(c)) \in Int /\ Total(Additions(c)) \in Int
         /\ Total(Values(c))' = Total(Values(c)) + (IF m.site = c THEN m.value ELSE 0)
         /\ Total(IsLookup(c))' = Total(IsLookup(c))
                                  + (IF m.site = c /\ m.kind = "lookup" THEN 1 ELSE 0)
         /\ Total(Additions(c))' = Total(Additions(c))
              + (IF m.site = c /\ m.kind # "lookup" /\ m.value > 0 THEN 1 ELSE 0)
<1>1. nsp' = nsp /\ nsp \in [Servers -> {Idle} \cup Busy] /\ IsBag(msgs) /\ m \in Message
  BY DEF Types, Msg
<1>2. IsBag(msgs') /\ DOMAIN msgs \subseteq DOMAIN msgs'
  <2>1. /\ IsBag(msgs (+) SetToBag({m}))
        /\ DOMAIN (msgs (+) SetToBag({m})) = DOMAIN msgs \cup {m}
    BY <1>1, Weights, BagAddSum
  <2> QED
    BY <2>1
<1>3. /\ Values(c)[m] = (IF m.site = c THEN m.value ELSE 0)
      /\ IsLookup(c)[m] = (IF m.site = c /\ m.kind = "lookup" THEN 1 ELSE 0)
      /\ Additions(c)[m] = (IF m.site = c /\ m.kind # "lookup" /\ m.value > 0 THEN 1 ELSE 0)
  BY <1>1 DEF Values, IsLookup, Additions
<1>4. /\ Total(Values(c)) \in Int /\ Total(IsLookup(c)) \in Int /\ Total(Additions(c)) \in Int
  BY <1>1, Weights, TotalTyped
<1>5. /\ Total(Values(c))' = Total(Values(c)) + Values(c)[m]
      /\ Total(IsLookup(c))' = Total(IsLookup(c)) + IsLookup(c)[m]
      /\ Total(Additions(c))' = Total(Additions(c)) + Additions(c)[m]
  BY <1>1, Weights, TotalIs, TotalSent
<1> QED
  BY <1>2, <1>3, <1>4, <1>5

\* A lookup is sent.
LEMMA LookupInv ==
  ASSUME SitemapInv, NEW c \in Clients, lookup(c)
  PROVE  SitemapInv'
<1> DEFINE m == [site |-> c, value |-> 1, kind |-> "lookup"]
<1>1. Types /\ Doubles
  BY DEF SitemapInv
<1>2. m \in Msg /\ m.site = c /\ m.value = 1 /\ m.kind = "lookup"
  BY DEF Msg, Message
<1>3. /\ msgs' = msgs (+) SetToBag({m}) /\ refs > 0 /\ refs' = refs - 1
      /\ UNCHANGED <<map, nsp, dcount, replies, adding, panicked>>
  BY DEF lookup
<1> HIDE DEF m
<1>4. \A d \in Clients :
         /\ IsBag(msgs') /\ DOMAIN msgs \subseteq DOMAIN msgs'
         /\ Total(Values(d)) \in Int /\ Total(IsLookup(d)) \in Int
         /\ Total(Values(d))' = Total(Values(d)) + (IF c = d THEN 1 ELSE 0)
         /\ Total(IsLookup(d))' = Total(IsLookup(d)) + (IF c = d THEN 1 ELSE 0)
         /\ Total(Additions(d))' = Total(Additions(d))
  <2> SUFFICES ASSUME NEW d \in Clients
               PROVE  /\ IsBag(msgs') /\ DOMAIN msgs \subseteq DOMAIN msgs'
                      /\ Total(Values(d)) \in Int /\ Total(IsLookup(d)) \in Int
                      /\ Total(Values(d))' = Total(Values(d)) + (IF c = d THEN 1 ELSE 0)
                      /\ Total(IsLookup(d))' = Total(IsLookup(d)) + (IF c = d THEN 1 ELSE 0)
                      /\ Total(Additions(d))' = Total(Additions(d))
    OBVIOUS
  <2>1. /\ IsBag(msgs') /\ DOMAIN msgs \subseteq DOMAIN msgs'
        /\ Total(Values(d)) \in Int /\ Total(IsLookup(d)) \in Int /\ Total(Additions(d)) \in Int
        /\ Total(Values(d))' = Total(Values(d)) + (IF m.site = d THEN m.value ELSE 0)
        /\ Total(IsLookup(d))' = Total(IsLookup(d))
                                 + (IF m.site = d /\ m.kind = "lookup" THEN 1 ELSE 0)
        /\ Total(Additions(d))' = Total(Additions(d))
              + (IF m.site = d /\ m.kind # "lookup" /\ m.value > 0 THEN 1 ELSE 0)
    BY <1>1, <1>2, <1>3, Sent
  <2> QED
    BY <1>2, <2>1
<1>5. Doubles'
  BY <1>1, <1>3, <1>4 DEF Doubles
<1>6. ASSUME NEW d \in Clients
      PROVE  Pending(d)' + dcount[d].d_vcount + Lookups(d)
             = Pending(d) + dcount'[d].d_vcount + Lookups(d)'
  <2>1. replies[d] \in Nat /\ dcount[d].d_vcount \in Nat
    BY <1>1 DEF Types
  <2> QED
    BY <1>3, <1>4, <2>1 DEF Pending, Lookups
<1>7. refs' \in 0..MaxRefs
  BY <1>1, <1>3, SitemapAssumption DEF Types
<1>8. IsBag(msgs') /\ DOMAIN msgs \subseteq DOMAIN msgs'
  BY <1>4
<1> QED
  BY <1>1, <1>3, <1>5, <1>6, <1>7, <1>8, ClientStep DEF Types

\* A lookup that got no inode is sent back.
LEMMA LookupFailsInv ==
  ASSUME SitemapInv, NEW c \in Clients, lookup_fails(c)
  PROVE  SitemapInv'
<1> DEFINE m == [site |-> c, value |-> -1, kind |-> "unused"]
<1>1. Types /\ Doubles
  BY DEF SitemapInv
<1>2. m \in Msg /\ m.site = c /\ m.value = -1 /\ m.kind = "unused"
  BY DEF Msg, Message
<1>3. /\ msgs' = msgs (+) SetToBag({m}) /\ replies[c] > 0
      /\ replies' = [replies EXCEPT ![c] = @ - 1]
      /\ UNCHANGED <<map, nsp, dcount, adding, refs, panicked>>
  BY DEF lookup_fails
<1> HIDE DEF m
<1>4. \A d \in Clients :
         /\ IsBag(msgs') /\ DOMAIN msgs \subseteq DOMAIN msgs'
         /\ Total(Values(d)) \in Int /\ Total(IsLookup(d)) \in Int
         /\ Total(Values(d))' = Total(Values(d)) + (IF c = d THEN -1 ELSE 0)
         /\ Total(IsLookup(d))' = Total(IsLookup(d))
         /\ Total(Additions(d))' = Total(Additions(d))
  <2> SUFFICES ASSUME NEW d \in Clients
               PROVE  /\ IsBag(msgs') /\ DOMAIN msgs \subseteq DOMAIN msgs'
                      /\ Total(Values(d)) \in Int /\ Total(IsLookup(d)) \in Int
                      /\ Total(Values(d))' = Total(Values(d)) + (IF c = d THEN -1 ELSE 0)
                      /\ Total(IsLookup(d))' = Total(IsLookup(d))
                      /\ Total(Additions(d))' = Total(Additions(d))
    OBVIOUS
  <2>1. /\ IsBag(msgs') /\ DOMAIN msgs \subseteq DOMAIN msgs'
        /\ Total(Values(d)) \in Int /\ Total(IsLookup(d)) \in Int /\ Total(Additions(d)) \in Int
        /\ Total(Values(d))' = Total(Values(d)) + (IF m.site = d THEN m.value ELSE 0)
        /\ Total(IsLookup(d))' = Total(IsLookup(d))
                                 + (IF m.site = d /\ m.kind = "lookup" THEN 1 ELSE 0)
        /\ Total(Additions(d))' = Total(Additions(d))
              + (IF m.site = d /\ m.kind # "lookup" /\ m.value > 0 THEN 1 ELSE 0)
    BY <1>1, <1>2, <1>3, Sent
  <2> QED
    BY <1>2, <2>1
<1>5. Doubles'
  BY <1>1, <1>3, <1>4 DEF Doubles
<1>6. /\ replies' \in [Clients -> Nat]
      /\ \A d \in Clients : replies'[d] = replies[d] + (IF c = d THEN -1 ELSE 0)
                            /\ replies[d] \in Nat /\ dcount[d].d_vcount \in Nat
  BY <1>1, <1>3 DEF Types
<1>7. \A d \in Clients : Pending(d)' + dcount[d].d_vcount + Lookups(d)
                         = Pending(d) + dcount'[d].d_vcount + Lookups(d)'
  BY <1>3, <1>4, <1>6 DEF Pending, Lookups
<1>8. IsBag(msgs') /\ DOMAIN msgs \subseteq DOMAIN msgs'
  BY <1>4
<1> QED
  BY <1>1, <1>3, <1>5, <1>6, <1>7, <1>8, ClientStep DEF Types

\* update_duxref(), with the answer to a lookup or without one.
LEMMA UpdateInv ==
  ASSUME SitemapInv, NEW c \in Clients, NEW delta \in {1, -1}, NEW si \in BOOLEAN,
         delta = -1 => ~si /\ dcount[c].d_rcount > adding[c],
         si => replies[c] > 0,
         replies' = [replies EXCEPT ![c] = IF si THEN @ - 1 ELSE @],
         refs' \in 0..MaxRefs,
         update_duxref(c, delta, si)
  PROVE  SitemapInv'
<1> DEFINE r == dcount[c].d_rcount + delta
           inc == IF si THEN delta ELSE 0
           v == dcount[c].d_vcount + inc
           s == Subtract(r, v)
           m == [site |-> c, value |-> -s, kind |-> Kind(r, v)]
<1>1. Types /\ Doubles
  BY DEF SitemapInv
<1>2. inc \in {0, 1} /\ inc = IF si THEN 1 ELSE 0
  OBVIOUS
<1>3. /\ dcount' = [dcount EXCEPT ![c] = [d_rcount |-> r, d_vcount |-> v - s]]
      /\ msgs' = IF s = 0 THEN msgs ELSE msgs (+) SetToBag({m})
      /\ adding' = [adding EXCEPT ![c] = IF s < 0 THEN @ + 1 ELSE @]
      /\ UNCHANGED <<map, nsp, panicked>>
  BY DEF update_duxref, Sleeps
<1>4. /\ r \in Nat /\ v \in Nat /\ s \in Int /\ v - s \in Nat
      /\ adding[c] + (IF s < 0 THEN 1 ELSE 0) <= r
      /\ adding[c] + (IF s < 0 THEN 1 ELSE 0) <= v - s
      /\ r > 0 => v - s > 0
      /\ Kind(r, v) = "first" => s = -1
      /\ Kind(r, v) = "last" => s > 0
  <2>1. /\ dcount[c].d_rcount \in Nat /\ dcount[c].d_vcount \in Nat /\ adding[c] \in Nat
        /\ adding[c] <= dcount[c].d_rcount /\ adding[c] <= dcount[c].d_vcount
        /\ dcount[c].d_rcount > 0 => dcount[c].d_vcount > 0
    BY <1>1 DEF Types, Doubles
  <2>2. delta = -1 => inc = 0 /\ dcount[c].d_rcount > adding[c]
    OBVIOUS
  <2>3. PICK r0 \in Nat, v0 \in Nat, a0 \in Nat, i0 \in {0, 1} :
           r0 = dcount[c].d_rcount /\ v0 = dcount[c].d_vcount /\ a0 = adding[c] /\ i0 = inc
    BY <2>1, <1>2
  <2>4. /\ a0 <= r0 /\ a0 <= v0 /\ (r0 > 0 => v0 > 0) /\ (delta = -1 => i0 = 0 /\ r0 > a0)
        /\ r = r0 + delta /\ v = v0 + i0 /\ s = Subtract(r, v)
    BY <2>1, <2>2, <2>3
  <2> HIDE DEF r, v, s, inc
  <2>5. /\ r \in Nat /\ v \in Nat /\ s \in Int /\ v - s \in Nat
        /\ a0 + (IF s < 0 THEN 1 ELSE 0) <= r
        /\ a0 + (IF s < 0 THEN 1 ELSE 0) <= v - s
        /\ r > 0 => v - s > 0
        /\ Kind(r, v) = "first" => s = -1
        /\ Kind(r, v) = "last" => s > 0
    <3>1. PICK r1, v1, s1 : r1 = r /\ v1 = v /\ s1 = s
      OBVIOUS
    <3>2. r1 = r0 + delta /\ v1 = v0 + i0 /\ s1 = Subtract(r1, v1)
      BY <3>1, <2>4
    <3>3. /\ r1 \in Nat /\ v1 \in Nat /\ s1 \in Int /\ v1 - s1 \in Nat
          /\ a0 + (IF s1 < 0 THEN 1 ELSE 0) <= r1
          /\ a0 + (IF s1 < 0 THEN 1 ELSE 0) <= v1 - s1
          /\ r1 > 0 => v1 - s1 > 0
          /\ Kind(r1, v1) = "first" => s1 = -1
          /\ Kind(r1, v1) = "last" => s1 > 0
      <4>1. /\ a0 <= r0 /\ a0 <= v0 /\ (r0 > 0 => v0 > 0) /\ (delta = -1 => i0 = 0 /\ r0 > a0)
        BY <2>4
      <4> QED
        BY <4>1, <3>2, SitemapAssumption DEF Subtract, Kind
    <3> QED
      BY <3>1, <3>3
  <2> QED
    BY <2>3, <2>5
<1>5. /\ Kind(r, v) \in {"first", "last", "limit"}
      /\ s # 0 => m \in Msg
      /\ m.site = c /\ m.value = -s /\ m.kind # "lookup"
  <2>1. Kind(r, v) \in {"first", "last", "limit"}
    BY DEF Kind
  <2> HIDE DEF r, v, s
  <2>2. m.site = c /\ m.value = -s /\ m.kind = Kind(r, v) /\ m \in Message
    BY <1>4, <2>1 DEF Message
  <2> HIDE DEF m
  <2>3. s # 0 => m \in Msg
    BY <1>4, <2>1, <2>2 DEF Msg
  <2> QED
    BY <2>1, <2>2, <2>3
<1> HIDE DEF r, v, s, m
<1>6. IsBag(msgs') /\ DOMAIN msgs \subseteq DOMAIN msgs'
  <2>1. CASE s = 0
    BY <2>1, <1>1, <1>3 DEF Types
  <2>2. CASE s # 0
    BY <2>2, <1>1, <1>3, <1>5, Sent
  <2> QED
    BY <2>1, <2>2
<1>7. ASSUME NEW d \in Clients
      PROVE  /\ Total(Values(d)) \in Int /\ Total(IsLookup(d)) \in Int
             /\ Total(Values(d))' = Total(Values(d)) + (IF c = d THEN -s ELSE 0)
             /\ Total(IsLookup(d))' = Total(IsLookup(d))
             /\ Total(Additions(d)) \in Int
             /\ Total(Additions(d))' = Total(Additions(d)) + (IF c = d /\ s < 0 THEN 1 ELSE 0)
  <2>1. CASE s # 0
    <3>1. /\ Total(Values(d)) \in Int /\ Total(IsLookup(d)) \in Int /\ Total(Additions(d)) \in Int
          /\ Total(Values(d))' = Total(Values(d)) + (IF m.site = d THEN m.value ELSE 0)
          /\ Total(IsLookup(d))' = Total(IsLookup(d))
                                   + (IF m.site = d /\ m.kind = "lookup" THEN 1 ELSE 0)
          /\ Total(Additions(d))' = Total(Additions(d))
                + (IF m.site = d /\ m.kind # "lookup" /\ m.value > 0 THEN 1 ELSE 0)
      BY <2>1, <1>1, <1>3, <1>5, Sent
    <3>2. m.value > 0 <=> s < 0
      BY <1>4, <1>5
    <3> QED
      BY <1>5, <3>1, <3>2
  <2>2. CASE s = 0
    <3>1. /\ Total(Values(d)) \in Int /\ Total(IsLookup(d)) \in Int /\ Total(Additions(d)) \in Int
      BY <1>1, Weights, TotalTyped DEF Types
    <3>2. nsp' = nsp /\ msgs' = msgs
      BY <2>2, <1>3
    <3>3. /\ Total(Values(d))' = Total(Values(d)) /\ Total(IsLookup(d))' = Total(IsLookup(d))
          /\ Total(Additions(d))' = Total(Additions(d))
      BY <3>2, TotalIs
    <3> QED
      BY <2>2, <3>1, <3>3
  <2> QED
    BY <2>1, <2>2
<1>8. /\ dcount' \in [Clients -> [d_rcount: Nat, d_vcount: Nat]]
      /\ dcount'[c].d_rcount = r /\ dcount'[c].d_vcount = v - s
      /\ \A d \in Clients \ {c} : dcount'[d] = dcount[d]
  BY <1>1, <1>3, <1>4 DEF Types
<1>9. /\ adding' \in [Clients -> Nat]
      /\ adding'[c] = adding[c] + (IF s < 0 THEN 1 ELSE 0)
      /\ \A d \in Clients \ {c} : adding'[d] = adding[d]
  BY <1>1, <1>3, <1>4 DEF Types
<1>10. /\ replies' \in [Clients -> Nat]
       /\ replies'[c] = replies[c] - inc
       /\ \A d \in Clients \ {c} : replies'[d] = replies[d]
  BY <1>1 DEF Types
<1>11. Doubles'
  <2>1. ASSUME NEW d \in Clients
        PROVE  /\ adding'[d] = Total(Additions(d))'
               /\ adding'[d] <= dcount'[d].d_rcount
               /\ adding'[d] <= dcount'[d].d_vcount
               /\ dcount'[d].d_rcount > 0 => dcount'[d].d_vcount > 0
    <3>1. CASE d = c
      BY <3>1, <1>1, <1>4, <1>7, <1>8, <1>9 DEF Doubles
    <3>2. CASE d # c
      BY <3>2, <1>1, <1>7, <1>8, <1>9 DEF Doubles
    <3> QED
      BY <3>1, <3>2
  <2> QED
    BY <2>1 DEF Doubles
<1>12. ASSUME NEW d \in Clients
       PROVE  Pending(d)' + dcount[d].d_vcount + Lookups(d)
              = Pending(d) + dcount'[d].d_vcount + Lookups(d)'
  <2>1. replies[d] \in Nat /\ dcount[d].d_vcount \in Nat
    BY <1>1 DEF Types
  <2>2. CASE d = c
    BY <2>1, <2>2, <1>2, <1>4, <1>7, <1>8, <1>10 DEF Pending, Lookups, v
  <2>3. CASE d # c
    BY <2>1, <2>3, <1>7, <1>8, <1>10 DEF Pending, Lookups
  <2> QED
    BY <2>2, <2>3
<1> QED
  BY <1>3, <1>6, <1>8, <1>9, <1>10, <1>11, <1>12, ClientStep

\* The answer to a lookup, and references gained and given up.
LEMMA UpdatesInv ==
  ASSUME SitemapInv, NEW c \in Clients, lookup_reply(c) \/ hold(c) \/ release(c)
  PROVE  SitemapInv'
<1>1. replies \in [Clients -> Nat] /\ refs \in 0..MaxRefs /\ MaxRefs \in Nat
  BY SitemapAssumption DEF SitemapInv, Types
<1>2. CASE lookup_reply(c)
  <2>1. /\ replies[c] > 0 /\ update_duxref(c, 1, TRUE) /\ refs' \in 0..MaxRefs
        /\ replies' = [replies EXCEPT ![c] = IF TRUE THEN @ - 1 ELSE @]
    BY <1>1, <1>2 DEF lookup_reply
  <2>2. 1 # -1 /\ 1 \in {1, -1}
    OBVIOUS
  <2> QED
    BY <2>1, <2>2, UpdateInv
<1>3. CASE hold(c)
  <2>1. update_duxref(c, 1, FALSE) /\ refs > 0 /\ refs' = refs - 1 /\ UNCHANGED replies
    BY <1>3 DEF hold
  <2>2. 1 # -1 /\ 1 \in {1, -1} /\ refs' \in 0..MaxRefs
    BY <1>1, <2>1
  <2>3. replies' = [replies EXCEPT ![c] = IF FALSE THEN @ - 1 ELSE @]
    BY <1>1, <2>1
  <2> QED
    BY <2>1, <2>2, <2>3, UpdateInv
<1>4. CASE release(c)
  <2>1. /\ dcount[c].d_rcount > adding[c] /\ update_duxref(c, -1, FALSE) /\ refs' \in 0..MaxRefs
        /\ replies' = [replies EXCEPT ![c] = IF FALSE THEN @ - 1 ELSE @]
    BY <1>1, <1>4 DEF release
  <2> QED
    BY <2>1, UpdateInv
<1> QED
  BY <1>2, <1>3, <1>4

-----------------------------------------------------------------------------
(* The server: what becomes of a request.                                  *)

\* The server, which has not panicked, holds the counts k, and process p deals
\* with request m.
Serves(p, m, k) ==
  /\ SitemapInv /\ panicked = {}
  /\ k \in [Clients -> Nat] /\ Holds(k) /\ Shape(k) /\ Level(k)
  /\ From(p, m, msgs, msgs', nsp)
  /\ nsp' \in [Servers -> {Idle} \cup Busy] /\ Others(p, nsp, nsp')
  /\ UNCHANGED <<dcount, refs>>

\* The totals before a request is dealt with, and after.
LEMMA ServedTotals ==
  ASSUME NEW p \in Servers, NEW m, NEW k, Serves(p, m, k), NEW c \in Clients
  PROVE  /\ Types /\ Doubles /\ m \in Msg /\ m \in Message /\ m.site \in Clients /\ m.value \in Int
         /\ IsBag(msgs')
         /\ Total(Values(c)) \in Int /\ Total(IsLookup(c)) \in Nat /\ Total(Additions(c)) \in Nat
         /\ Total(IsLookup(c))' \in Nat /\ Total(Additions(c))' \in Nat
         /\ nsp'[p] = Idle =>
              /\ Total(Values(c))' = Total(Values(c)) - (IF m.site = c THEN m.value ELSE 0)
              /\ Total(IsLookup(c))' = Total(IsLookup(c))
                                       - (IF m.site = c /\ m.kind = "lookup" THEN 1 ELSE 0)
              /\ Total(Additions(c))' = Total(Additions(c))
                   - (IF m.site = c /\ m.kind # "lookup" /\ m.value > 0 THEN 1 ELSE 0)
         /\ nsp'[p] # Idle /\ nsp'[p].msg = m =>
              /\ Total(Values(c))' = Total(Values(c))
              /\ Total(IsLookup(c))' = Total(IsLookup(c))
              /\ Total(Additions(c))' = Total(Additions(c))
<1>1. /\ Types /\ Doubles /\ IsBag(msgs) /\ nsp \in [Servers -> {Idle} \cup Busy]
      /\ nsp' \in [Servers -> {Idle} \cup Busy] /\ Others(p, nsp, nsp')
      /\ From(p, m, msgs, msgs', nsp)
  BY DEF Serves, SitemapInv, Types
<1>2. m \in Msg /\ m \in Message /\ IsBag(msgs')
  BY <1>1, FromBag
<1>3. m.site \in Clients /\ m.value \in Int
  BY <1>2 DEF Message
<1>4. /\ Values(c)[m] = (IF m.site = c THEN m.value ELSE 0)
      /\ IsLookup(c)[m] = (IF m.site = c /\ m.kind = "lookup" THEN 1 ELSE 0)
      /\ Additions(c)[m] = (IF m.site = c /\ m.kind # "lookup" /\ m.value > 0 THEN 1 ELSE 0)
  BY <1>2 DEF Values, IsLookup, Additions
<1>5. /\ Total(Values(c)) \in Int /\ Total(IsLookup(c)) \in Nat /\ Total(Additions(c)) \in Nat
      /\ Total(IsLookup(c))' \in Nat /\ Total(Additions(c))' \in Nat
  BY <1>1, <1>2, Weights, TotalTyped
<1>6. ASSUME NEW w \in [Message -> Int]
      PROVE  /\ nsp'[p] = Idle => Total(w)' = Total(w) - w[m]
             /\ nsp'[p] # Idle /\ nsp'[p].msg = m => Total(w)' = Total(w)
  <2>1. /\ nsp'[p] = Idle => TotalOf(w, msgs', nsp') = TotalOf(w, msgs, nsp) - w[m]
        /\ nsp'[p] # Idle /\ nsp'[p].msg = m => TotalOf(w, msgs', nsp') = TotalOf(w, msgs, nsp)
    BY <1>1, TotalTaken
  <2> QED
    BY <2>1, TotalIs
<1>7. /\ nsp'[p] = Idle =>
           /\ Total(Values(c))' = Total(Values(c)) - Values(c)[m]
           /\ Total(IsLookup(c))' = Total(IsLookup(c)) - IsLookup(c)[m]
           /\ Total(Additions(c))' = Total(Additions(c)) - Additions(c)[m]
      /\ nsp'[p] # Idle /\ nsp'[p].msg = m =>
           /\ Total(Values(c))' = Total(Values(c))
           /\ Total(IsLookup(c))' = Total(IsLookup(c))
           /\ Total(Additions(c))' = Total(Additions(c))
  BY <1>6, Weights
<1> QED
  BY <1>1, <1>2, <1>3, <1>4, <1>5, <1>7

\* The request waits, or an array is being allocated for it.
LEMMA KeptInv ==
  ASSUME NEW p \in Servers, NEW m, NEW k, Serves(p, m, k),
         MapTypes', Holds(k)', Shape(k)', nsp'[p] # Idle, nsp'[p].msg = m,
         UNCHANGED <<replies, adding, panicked>>
  PROVE  SitemapInv'
<1>1. Types /\ Doubles /\ IsBag(msgs')
  BY ServedTotals, SitemapAssumption
<1>2. \A c \in Clients : /\ Total(Values(c))' = Total(Values(c))
                         /\ Total(IsLookup(c))' = Total(IsLookup(c))
                         /\ Total(Additions(c))' = Total(Additions(c))
  BY ServedTotals
<1>3. Types'
  BY <1>1 DEF Types, Serves
<1>4. Doubles'
  BY <1>1, <1>2 DEF Doubles, Serves
<1>5. Level(k)'
  BY <1>2 DEF Level, Serves, Pending, Lookups
<1>6. Decrements'
  BY DEF Decrements, Serves
<1>7. k \in [Clients -> Nat]
  BY DEF Serves
<1> QED
  BY <1>3, <1>4, <1>5, <1>6, <1>7 DEF SitemapInv

\* The request has been dealt with.
LEMMA DoneInv ==
  ASSUME NEW p \in Servers, NEW m, NEW k, Serves(p, m, k),
         NEW k2 \in [Clients -> Nat], k2 = [k EXCEPT ![m.site] = @ + m.value],
         MapTypes', Holds(k2)', Shape(k2)', nsp'[p] = Idle, Answer(m)
  PROVE  SitemapInv'
<1>1. /\ Types /\ Doubles /\ IsBag(msgs') /\ m.site \in Clients /\ m.value \in Int
      /\ k \in [Clients -> Nat] /\ Level(k)
  BY ServedTotals, SitemapAssumption DEF Serves
<1>2. /\ replies' = [replies EXCEPT ![m.site] = IF m.kind = "lookup" THEN @ + 1 ELSE @]
      /\ adding' = [adding EXCEPT ![m.site] =
                       IF m.kind # "lookup" /\ m.value > 0 THEN @ - 1 ELSE @]
      /\ UNCHANGED <<panicked, dcount, refs>> /\ panicked = {}
  BY DEF Answer, Serves
<1>3. ASSUME NEW c \in Clients
      PROVE  /\ replies[c] \in Nat /\ adding[c] \in Nat
             /\ dcount[c].d_rcount \in Nat /\ dcount[c].d_vcount \in Nat
             /\ replies'[c] = replies[c] + (IF m.site = c /\ m.kind = "lookup" THEN 1 ELSE 0)
             /\ adding'[c] = adding[c]
                  - (IF m.site = c /\ m.kind # "lookup" /\ m.value > 0 THEN 1 ELSE 0)
             /\ k[c] \in Nat /\ k2[c] = k[c] + (IF m.site = c THEN m.value ELSE 0)
  BY <1>1, <1>2 DEF Types
<1>4. ASSUME NEW c \in Clients
      PROVE  /\ Total(Values(c)) \in Int /\ Total(IsLookup(c)) \in Nat
             /\ Total(Additions(c)) \in Nat /\ Total(Additions(c))' \in Nat
             /\ Total(Values(c))' = Total(Values(c)) - (IF m.site = c THEN m.value ELSE 0)
             /\ Total(IsLookup(c))' = Total(IsLookup(c))
                                      - (IF m.site = c /\ m.kind = "lookup" THEN 1 ELSE 0)
             /\ Total(Additions(c))' = Total(Additions(c))
                  - (IF m.site = c /\ m.kind # "lookup" /\ m.value > 0 THEN 1 ELSE 0)
  BY ServedTotals
<1>5. Doubles'
  <2>1. ASSUME NEW c \in Clients
        PROVE  /\ adding'[c] = Total(Additions(c))' /\ adding'[c] \in Nat
               /\ adding'[c] <= dcount[c].d_rcount
               /\ adding'[c] <= dcount[c].d_vcount
    <3>1. /\ adding[c] = Total(Additions(c))
          /\ adding[c] <= dcount[c].d_rcount /\ adding[c] <= dcount[c].d_vcount
      BY <1>1 DEF Doubles
    <3>2. adding'[c] = Total(Additions(c))'
      BY <3>1, <1>3, <1>4
    <3>3. adding'[c] <= adding[c]
      BY <1>3
    <3> QED
      BY <3>1, <3>2, <3>3, <1>3, <1>4
  <2> QED
    BY <1>1, <1>2, <2>1 DEF Doubles
<1>6. Types'
  <2>1. \A c \in Clients : adding'[c] \in Nat /\ replies'[c] \in Nat
    <3>1. \A c \in Clients : adding'[c] = Total(Additions(c))'
      BY <1>5 DEF Doubles
    <3> QED
      BY <3>1, <1>3, <1>4
  <2>2. adding' \in [Clients -> Nat] /\ replies' \in [Clients -> Nat]
    BY <1>1, <1>2, <2>1 DEF Types
  <2> QED
    BY <1>1, <1>2, <2>2 DEF Types, Serves
<1>7. Level(k2)'
  <2>1. ASSUME NEW c \in Clients
        PROVE  k2[c] + Pending(c)' = dcount'[c].d_vcount + Lookups(c)'
    <3>1. k[c] + Total(Values(c)) = dcount[c].d_vcount + (Total(IsLookup(c)) + replies[c])
      BY <1>1 DEF Level, Pending, Lookups
    <3>2. PICK n \in Int, x \in Int, v \in Int, y \in Int, z \in Int, b \in Int, a \in {0, 1} :
             /\ n = k[c] /\ x = Total(Values(c)) /\ v = dcount[c].d_vcount
             /\ y = Total(IsLookup(c)) /\ z = replies[c]
             /\ b = (IF m.site = c THEN m.value ELSE 0)
             /\ a = (IF m.site = c /\ m.kind = "lookup" THEN 1 ELSE 0)
      <4>1. (IF m.site = c THEN m.value ELSE 0) \in Int
        BY <1>1
      <4>2. (IF m.site = c /\ m.kind = "lookup" THEN 1 ELSE 0) \in {0, 1}
        OBVIOUS
      <4>3. /\ k[c] \in Int /\ Total(Values(c)) \in Int /\ dcount[c].d_vcount \in Int
            /\ Total(IsLookup(c)) \in Int /\ replies[c] \in Int
        BY <1>3, <1>4
      <4> QED
        BY <4>1, <4>2, <4>3, Zenon
    <3>3. /\ k2[c] = n + b /\ Total(Values(c))' = x - b /\ Total(IsLookup(c))' = y - a
          /\ replies'[c] = z + a /\ dcount'[c].d_vcount = v
      BY <1>2, <1>3, <1>4, <3>2
    <3>4. n + x = v + (y + z)
      BY <3>1, <3>2
    <3>5. (n + b) + (x - b) = v + ((y - a) + (z + a))
      BY <3>4
    <3> QED
      BY <3>3, <3>5 DEF Pending, Lookups
  <2> QED
    BY <2>1 DEF Level
<1>8. Decrements'
  BY <1>2 DEF Decrements
<1> QED
  BY <1>5, <1>6, <1>7, <1>8 DEF SitemapInv

\* If no addition of the kind "limit" is under way for site c after the step,
\* the map counts enough for the request m that has been taken.
LEMMA Enough ==
  ASSUME NEW p \in Servers, NEW m, NEW k, Serves(p, m, k), nsp'[p] = Idle, m.value < 0,
         \A u \in Underway(m.site)' : ~ (u.kind = "limit" /\ u.value > 0)
  PROVE  k[m.site] + m.value >= 0
<1> DEFINE c == m.site
           both == [u \in Message |-> IsLookup(c)[u] + Additions(c)[u]]
<1>1. /\ Types /\ Doubles /\ m \in Msg /\ c \in Clients /\ m.value \in Int /\ IsBag(msgs')
      /\ k \in [Clients -> Nat] /\ Level(k) /\ nsp' \in [Servers -> {Idle} \cup Busy]
  BY ServedTotals, SitemapAssumption DEF Serves
<1>2. m.kind # "lookup"
  BY <1>1 DEF Msg
<1>3. /\ Total(Values(c)) \in Int /\ Total(IsLookup(c)) \in Nat
      /\ Total(Values(c))' = Total(Values(c)) - m.value
      /\ Total(IsLookup(c))' = Total(IsLookup(c))
      /\ Total(Additions(c))' = Total(Additions(c))
  <2>1. ~ (m.value > 0)
    BY <1>1
  <2>2. /\ Total(Values(c)) \in Int /\ Total(IsLookup(c)) \in Nat /\ Total(Additions(c)) \in Nat
        /\ Total(Values(c))' = Total(Values(c)) - (IF m.site = c THEN m.value ELSE 0)
        /\ Total(IsLookup(c))' = Total(IsLookup(c))
                                 - (IF m.site = c /\ m.kind = "lookup" THEN 1 ELSE 0)
        /\ Total(Additions(c))' = Total(Additions(c))
             - (IF m.site = c /\ m.kind # "lookup" /\ m.value > 0 THEN 1 ELSE 0)
    BY <1>1, ServedTotals
  <2> QED
    BY <1>1, <1>2, <2>1, <2>2
<1>4. /\ Values(c) \in [Message -> Int] /\ IsLookup(c) \in [Message -> Int]
      /\ Additions(c) \in [Message -> Int] /\ both \in [Message -> Int]
      /\ \A u \in Message : both[u] = IsLookup(c)[u] + Additions(c)[u]
  BY <1>1, Weights
<1>5. ASSUME NEW u \in Msg, IsIn(u, msgs', nsp') PROVE Values(c)[u] <= both[u]
  <2>1. /\ u \in Message /\ u.value \in Int
        /\ u.kind \in {"lookup", "first", "last", "limit", "unused"}
    BY DEF Msg, Message
  <2>2. u.site = c => ~ (u.kind = "limit" /\ u.value > 0)
    BY <1>5, <2>1 DEF IsIn, Underway, BagToSet
  <2>3. /\ Values(c)[u] = (IF u.site = c THEN u.value ELSE 0)
        /\ IsLookup(c)[u] = (IF u.site = c /\ u.kind = "lookup" THEN 1 ELSE 0)
        /\ Additions(c)[u] = (IF u.site = c /\ u.kind # "lookup" /\ u.value > 0 THEN 1 ELSE 0)
        /\ both[u] = IsLookup(c)[u] + Additions(c)[u]
    BY <2>1 DEF Values, IsLookup, Additions
  <2>4. /\ u.kind \in {"lookup", "first"} => u.value = 1
        /\ u.kind \in {"last", "unused"} => u.value < 0
    BY DEF Msg
  <2> HIDE DEF c, both
  <2> QED
    BY <2>1, <2>2, <2>3, <2>4
<1> HIDE DEF c, both
<1>6. Total(Values(c))' <= Total(IsLookup(c))' + Total(Additions(c))'
  <2>1. TotalOf(Values(c), msgs', nsp') <= TotalOf(both, msgs', nsp')
    BY <1>1, <1>4, <1>5, TotalLe
  <2>2. TotalOf(both, msgs', nsp')
        = TotalOf(IsLookup(c), msgs', nsp') + TotalOf(Additions(c), msgs', nsp')
    BY <1>1, <1>4, TotalAdd
  <2> QED
    BY <2>1, <2>2, TotalIs
<1>7. /\ adding[c] = Total(Additions(c)) /\ adding[c] <= dcount[c].d_vcount
      /\ dcount[c].d_vcount \in Nat /\ replies[c] \in Nat /\ adding[c] \in Nat /\ k[c] \in Nat
  BY <1>1 DEF Doubles, Types
<1>8. k[c] + Total(Values(c)) = dcount[c].d_vcount + (Total(IsLookup(c)) + replies[c])
  BY <1>1 DEF Level, Pending, Lookups
<1>9. PICK n \in Int, x \in Int, v \in Int, y \in Int, z \in Nat, a \in Int, b \in Int :
         /\ n = k[c] /\ x = Total(Values(c)) /\ v = dcount[c].d_vcount
         /\ y = Total(IsLookup(c)) /\ z = replies[c] /\ a = adding[c] /\ b = m.value
  <2>1. /\ k[c] \in Int /\ Total(Values(c)) \in Int /\ dcount[c].d_vcount \in Int
        /\ Total(IsLookup(c)) \in Int /\ replies[c] \in Nat /\ adding[c] \in Int /\ m.value \in Int
    BY <1>1, <1>3, <1>7
  <2> QED
    BY <2>1, Zenon
<1>10. x - b <= y + a
  BY <1>3, <1>6, <1>7, <1>9
<1>11. n + x = v + (y + z) /\ a <= v
  BY <1>7, <1>8, <1>9
<1>12. n + b >= 0
  BY <1>10, <1>11
<1> QED
  BY <1>9, <1>12 DEF c

\* The server panics.
LEMMA PanicInv ==
  ASSUME NEW p \in Servers, NEW m, NEW k, Serves(p, m, k), ~Locked, k[m.site] + m.value < 0,
         nsp' = [nsp EXCEPT ![p] = Idle], panicked' = panicked \cup {m.site},
         UNCHANGED <<map, replies, adding>>
  PROVE  SitemapInv'
<1>1. /\ Types /\ Doubles /\ m \in Msg /\ m.site \in Clients /\ m.value \in Int /\ IsBag(msgs')
      /\ k \in [Clients -> Nat] /\ nsp' \in [Servers -> {Idle} \cup Busy]
      /\ nsp'[p] = Idle /\ \A q \in Servers \ {p} : nsp'[q] = nsp[q]
      /\ UNCHANGED <<dcount, refs>> /\ panicked = {}
  BY ServedTotals, SitemapAssumption DEF Serves, Types
<1>2. m.value < 0 /\ ~ (m.value > 0)
  <2>1. k[m.site] \in Nat
    BY <1>1
  <2> QED
    BY <1>1, <2>1
<1>3. Types'
  BY <1>1 DEF Types, MapTypes, map
<1>4. Doubles'
  <2>1. ASSUME NEW c \in Clients PROVE Total(Additions(c))' = Total(Additions(c))
    <3>1. /\ Total(Additions(c)) \in Nat
          /\ Total(Additions(c))' = Total(Additions(c))
               - (IF m.site = c /\ m.kind # "lookup" /\ m.value > 0 THEN 1 ELSE 0)
      BY <1>1, ServedTotals
    <3> QED
      BY <3>1, <1>2
  <2> QED
    BY <1>1, <2>1 DEF Doubles
<1>5. Holds(k)'
  BY DEF Serves, Holds, map
<1>6. Shape(k)'
  <2>1. \A q \in Servers : nsp'[q].pc \notin Allocating
    BY <1>1 DEF Serves, Shape, Idle, Allocating
  <2> QED
    BY <2>1 DEF Serves, Shape, map, Locked
<1>7. Decrements'
  <2>1. \E u \in Underway(m.site)' : u.kind = "limit" /\ u.value > 0
    <3>1. k[m.site] \in Nat
      BY <1>1
    <3> QED
      BY <1>1, <1>2, <3>1, Enough
  <2>2. panicked' = {m.site}
    BY <1>1
  <2> QED
    BY <2>1, <2>2 DEF Decrements
<1>8. panicked' # {}
  OBVIOUS
<1> QED
  BY <1>1, <1>3, <1>4, <1>5, <1>6, <1>7, <1>8 DEF SitemapInv

-----------------------------------------------------------------------------
(* The map.                                                                *)

\* The entries of a site in the arrays: one, if the map counts the site.
LEMMA EntriesIs ==
  ASSUME NEW k \in [Clients -> Nat], MapTypes, Holds(k), s_array # <<>>, NEW c \in Clients
  PROVE  /\ k[c] = 0 => EntriesOf(c) = {}
         /\ k[c] # 0 => \E i \in 1..Len(s_array), j \in Slots :
                          /\ EntriesOf(c) = {<<i, j>>} /\ FirstOf(EntriesOf(c)) = <<i, j>>
                          /\ s_array[i][j].s_site = c /\ s_array[i][j].s_count = k[c]
<1>1. ArraysHold(s_array, k)
  BY DEF Holds
<1>2. ASSUME NEW x \in EntriesOf(c)
      PROVE  \E i \in 1..Len(s_array), j \in Slots :
                x = <<i, j>> /\ s_array[i][j].s_count # 0 /\ s_array[i][j].s_site = c
  BY DEF EntriesOf, Positions, At
<1>3. ASSUME k[c] = 0 PROVE EntriesOf(c) = {}
  BY <1>1, <1>2, <1>3 DEF ArraysHold
<1>4. ASSUME k[c] # 0
      PROVE  \E i \in 1..Len(s_array), j \in Slots :
                /\ EntriesOf(c) = {<<i, j>>} /\ FirstOf(EntriesOf(c)) = <<i, j>>
                /\ s_array[i][j].s_site = c /\ s_array[i][j].s_count = k[c]
  <2>1. PICK i \in 1..Len(s_array), j \in Slots :
           s_array[i][j].s_count # 0 /\ s_array[i][j].s_site = c
    BY <1>1, <1>4 DEF ArraysHold
  <2>2. <<i, j>> \in EntriesOf(c)
    BY <2>1 DEF EntriesOf, Positions, At
  <2>3. ASSUME NEW x \in EntriesOf(c) PROVE x = <<i, j>>
    BY <1>1, <1>2, <2>1 DEF ArraysHold
  <2>4. EntriesOf(c) = {<<i, j>>}
    BY <2>2, <2>3
  <2>5. FirstOf({<<i, j>>}) = <<i, j>>
    BY DEF FirstOf
  <2>6. s_array[i][j].s_count = k[c]
    BY <1>1, <2>1 DEF ArraysHold
  <2> QED
    BY <2>1, <2>4, <2>5, <2>6
<1> QED
  BY <1>3, <1>4

\* Count(c) is k[c].
LEMMA CountIs ==
  ASSUME NEW k \in [Clients -> Nat], MapTypes, Holds(k), NEW c \in Clients
  PROVE  Count(c) = k[c]
<1>1. CASE s_array = <<>>
  BY <1>1 DEF Count, Holds
<1>2. CASE s_array # <<>> /\ k[c] = 0
  <2>1. EntriesOf(c) = {}
    BY <1>2, EntriesIs
  <2> QED
    BY <1>2, <2>1 DEF Count
<1>3. CASE s_array # <<>> /\ k[c] # 0
  <2>1. PICK i \in 1..Len(s_array), j \in Slots :
           /\ EntriesOf(c) = {<<i, j>>} /\ FirstOf(EntriesOf(c)) = <<i, j>>
           /\ s_array[i][j].s_site = c /\ s_array[i][j].s_count = k[c]
    BY <1>3, EntriesIs
  <2> QED
    BY <1>3, <2>1 DEF Count, At
<1> QED
  BY <1>1, <1>2, <1>3

\* getsiteentry() finds a free entry, if there is one.
LEMMA FirstFree ==
  ASSUME MapTypes, FreeSlots # {}
  PROVE  FirstOf(FreeSlots) \in FreeSlots
<1>1. SITEARRAYSIZE \in Nat /\ Len(s_array) \in Nat
  BY SitemapAssumption DEF MapTypes
<1>2. \A x \in FreeSlots : x = <<x[1], x[2]>> /\ x[1] \in Nat /\ x[2] \in Nat
  BY <1>1 DEF FreeSlots, Positions, Slots
<1> DEFINE I == {x[1] : x \in FreeSlots}
<1>3. PICK i \in I : \A a \in I : i <= a
  <2>1. I \in SUBSET Nat /\ I # {}
    BY <1>2
  <2> HIDE DEF I
  <2> QED
    BY <2>1, LeastNat
<1> DEFINE J == {x[2] : x \in {y \in FreeSlots : y[1] = i}}
<1>4. PICK j \in J : \A a \in J : j <= a
  <2>1. J \in SUBSET Nat /\ J # {}
    BY <1>2, <1>3
  <2> HIDE DEF J
  <2> QED
    BY <2>1, LeastNat
<1>5. <<i, j>> \in FreeSlots
  BY <1>2, <1>4
<1>6. ASSUME NEW y \in FreeSlots, y # <<i, j>> PROVE Before(<<i, j>>, y)
  <2>1. y[1] \in I /\ i <= y[1] /\ (y[1] = i => y[2] \in J)
    BY <1>3
  <2>2. y[1] = i => j <= y[2]
    BY <2>1, <1>4
  <2>3. /\ y = <<y[1], y[2]>> /\ y[1] \in Nat /\ y[2] \in Nat
        /\ <<i, j>>[1] = i /\ <<i, j>>[2] = j /\ i \in Nat /\ j \in Nat
    BY <1>2, <1>3, <1>4
  <2>4. y[1] = i => y[2] # j
    BY <1>6, <2>3
  <2> HIDE DEF I, J
  <2> QED
    BY <2>1, <2>2, <2>3, <2>4 DEF Before
<1> HIDE DEF I, J
<1>7. \E x \in FreeSlots : \A y \in FreeSlots \ {x} : Before(x, y)
  BY <1>5, <1>6
<1> QED
  BY <1>7 DEF FirstOf

\* The properties follow from the invariant.
LEMMA InvImplies ==
  SitemapInv => TypeOK /\ Balanced /\ TotalExact /\ KnownInUse /\ Decrements
<1> SUFFICES ASSUME SitemapInv PROVE TypeOK /\ Balanced /\ TotalExact /\ KnownInUse /\ Decrements
  OBVIOUS
<1>1. Types /\ MapTypes /\ Doubles /\ Decrements
  BY DEF SitemapInv, Types
<1>2. PICK k \in [Clients -> Nat] : Holds(k) /\ Shape(k) /\ (panicked = {} => Level(k))
  BY DEF SitemapInv
<1>3. \A c \in Clients : Count(c) = k[c] /\ k[c] \in Nat
  BY <1>1, <1>2, CountIs
<1>4. TypeOK
  <2>1. \A i \in 1..Len(s_array) : s_array[i] \in [Slots -> [s_site: Clients, s_count: Nat]]
    BY <1>1 DEF MapTypes, SiteEntry
  <2>2. \A p \in Servers : nsp[p] = Idle \/ /\ nsp[p].pc \in {"wait", "woken", "second", "next"}
                                            /\ nsp[p].msg \in Message
    BY <1>1 DEF Types, Busy, Msg, Allocating
  <2>3. BagToSet(msgs) \subseteq Message
    BY <1>1 DEF Types, IsBag, Msg, BagToSet
  <2> QED
    BY <1>1, <2>1, <2>2, <2>3 DEF TypeOK, Types, MapTypes, SiteEntry
<1>5. Balanced
  BY <1>2, <1>3 DEF Balanced, Level
<1>6. TotalExact
  <2> DEFINE used == {c \in Clients : Count(c) > 0}
             allocating == {p \in Servers : nsp[p].pc \in {"second", "next"}}
             next == {p \in allocating : nsp[p].pc = "next"}
  <2>1. used = Used(k)
    BY <1>3 DEF Used
  <2>2. ASSUME NEW c \in Clients PROVE Cardinality(EntriesOf(c)) <= 1
    <3>1. EntriesOf(c) = {} \/ \E x : EntriesOf(c) = {x}
      <4>1. CASE s_array = <<>>
        BY <4>1 DEF EntriesOf, Positions
      <4>2. CASE s_array # <<>>
        BY <4>2, <1>1, <1>2, EntriesIs
      <4> QED
        BY <4>1, <4>2
    <3>2. Cardinality(EntriesOf(c)) = 0 \/ Cardinality(EntriesOf(c)) = 1
      BY <3>1, FS_EmptySet, FS_Singleton
    <3> QED
      BY <3>2
  <2>3. ASSUME s_array = <<>>, s_onesite.s_count > 0 PROVE Cardinality(Used(k)) = 1
    <3>1. s_onesite.s_site \in Clients /\ s_onesite.s_count \in Nat
      BY <1>1 DEF MapTypes, SiteEntry
    <3>2. \A c \in Clients : k[c] = IF s_onesite.s_site = c THEN s_onesite.s_count ELSE 0
      BY <1>2, <2>3 DEF Holds
    <3>3. Used(k) = {s_onesite.s_site}
      BY <2>3, <3>1, <3>2 DEF Used
    <3> QED
      BY <3>3, FS_Singleton
  <2>4. CASE ~Locked
    <3>1. allocating = {} /\ next = {}
      BY <1>2, <2>4 DEF Shape, Allocating
    <3>2. s_count = Cardinality(Used(k))
      <4>1. CASE s_maptype = "S_MAPEMPTY"
        <5>1. s_array = <<>> /\ s_onesite.s_count = 0 /\ s_count = 0
          BY <4>1, <1>2 DEF Shape
        <5>2. Used(k) = {}
          BY <5>1, <1>2 DEF Used, Holds
        <5> QED
          BY <5>1, <5>2, FS_EmptySet
      <4>2. CASE s_maptype = "S_ONESITE"
        BY <4>2, <1>2, <2>3 DEF Shape
      <4>3. CASE s_maptype = "S_ARRAY"
        BY <4>3, <1>2 DEF Shape
      <4> QED
        BY <1>1, <2>4, <4>1, <4>2, <4>3 DEF MapTypes, Locked
    <3>3. Cardinality(allocating) = 0 /\ Cardinality(next) = 0
      BY <3>1, FS_EmptySet
    <3>4. s_count \in Nat
      BY <1>1 DEF MapTypes
    <3> HIDE DEF allocating, next, used
    <3>5. s_count = Cardinality(used) + Cardinality(next)
      BY <2>1, <3>2, <3>3, <3>4
    <3> QED
      BY <2>2, <2>4, <3>3, <3>5 DEF TotalExact, allocating, next, used
  <2>5. CASE Locked
    <3>1. PICK p \in Servers : /\ Allocates(p, k)
                               /\ \A q \in Servers \ {p} : nsp[q].pc \notin Allocating
      BY <1>2, <2>5 DEF Shape
    <3>2. allocating = {p}
      BY <3>1 DEF Allocates, Allocating
    <3>3. Cardinality(allocating) = 1
      BY <3>2, FS_Singleton
    <3>4. s_count = Cardinality(used) + Cardinality(next)
      <4>1. CASE nsp[p].pc = "second"
        <5>1. next = {}
          BY <4>1, <3>2
        <5>2. s_count = 1 /\ Cardinality(Used(k)) = 1
          BY <4>1, <3>1, <2>3 DEF Allocates
        <5>3. Cardinality(next) = 0
          BY <5>1, FS_EmptySet
        <5> HIDE DEF used, next, allocating
        <5> QED
          BY <5>2, <5>3, <2>1
      <4>2. CASE nsp[p].pc = "next"
        <5>1. next = {p}
          BY <4>2, <3>2
        <5>2. s_count = Cardinality(Used(k)) + 1
          BY <4>2, <3>1 DEF Allocates
        <5>3. Cardinality(next) = 1
          BY <5>1, FS_Singleton
        <5> HIDE DEF used, next, allocating
        <5> QED
          BY <5>2, <5>3, <2>1
      <4> QED
        BY <3>1, <4>1, <4>2 DEF Allocates, Allocating
    <3> QED
      BY <2>2, <2>5, <3>3, <3>4 DEF TotalExact
  <2> QED
    BY <2>4, <2>5
<1>7. KnownInUse
  <2> SUFFICES ASSUME panicked = {}, NEW c \in Clients, dcount[c].d_rcount > 0, adding[c] = 0
               PROVE  Count(c) > 0
    BY DEF KnownInUse
  <2>1. /\ IsBag(msgs) /\ nsp \in [Servers -> {Idle} \cup Busy]
        /\ Values(c) \in [Message -> Int] /\ IsLookup(c) \in [Message -> Int]
        /\ IsLookup(c) \in [Message -> Nat] /\ Additions(c) \in [Message -> Nat]
    BY <1>1, Weights DEF Types
  <2>2. ASSUME NEW m \in Msg, IsIn(m, msgs, nsp) PROVE Values(c)[m] <= IsLookup(c)[m]
    <3>1. Additions(c)[m] = 0
      <4>1. TotalOf(Additions(c), msgs, nsp) = 0
        BY <1>1, TotalIs DEF Doubles
      <4> QED
        BY <4>1, <2>1, <2>2, TotalZero
    <3>2. m \in Message /\ m.value \in Int /\ (m.kind = "lookup" => m.value = 1)
      BY DEF Msg, Message
    <3>3. /\ Values(c)[m] = (IF m.site = c THEN m.value ELSE 0)
          /\ IsLookup(c)[m] = (IF m.site = c /\ m.kind = "lookup" THEN 1 ELSE 0)
          /\ Additions(c)[m] = (IF m.site = c /\ m.kind # "lookup" /\ m.value > 0 THEN 1 ELSE 0)
      BY <3>2 DEF Values, IsLookup, Additions
    <3> QED
      BY <3>1, <3>2, <3>3
  <2>3. Total(Values(c)) <= Total(IsLookup(c))
    BY <2>1, <2>2, TotalLe, TotalIs
  <2>4. Total(Values(c)) \in Int /\ Total(IsLookup(c)) \in Nat
    BY <2>1, TotalTyped
  <2>5. /\ dcount[c].d_vcount \in Nat /\ replies[c] \in Nat /\ k[c] \in Nat
        /\ dcount[c].d_vcount > 0
    BY <1>1 DEF Types, Doubles
  <2>6. k[c] + Total(Values(c)) = dcount[c].d_vcount + (Total(IsLookup(c)) + replies[c])
    BY <1>2 DEF Level, Pending, Lookups
  <2>7. PICK n \in Nat, x \in Int, v \in Nat, y \in Nat, z \in Nat :
           /\ n = k[c] /\ x = Total(Values(c)) /\ v = dcount[c].d_vcount
           /\ y = Total(IsLookup(c)) /\ z = replies[c]
    BY <2>4, <2>5, Zenon
  <2>8. n + x = v + (y + z) /\ x <= y /\ v > 0
    BY <2>3, <2>5, <2>6, <2>7
  <2>9. n > 0
    BY <2>8
  <2> QED
    BY <1>3, <2>7, <2>9
<1> QED
  BY <1>1, <1>4, <1>5, <1>6, <1>7

\* The counts k2 are k with the count n for site c.
CountSet(k, c, n, k2) ==
  /\ k \in [Clients -> Nat] /\ k2 \in [Clients -> Nat] /\ c \in Clients /\ n \in Nat
  /\ k2[c] = n /\ \A d \in Clients \ {c} : k2[d] = k[d]

\* The arrays A are the arrays with the entry e at i, j.
EntrySet(arrays, i, j, e, A) ==
  /\ arrays \in Seq([Slots -> SiteEntry]) /\ i \in 1..Len(arrays) /\ j \in Slots
  /\ e \in SiteEntry /\ Len(A) = Len(arrays)
  /\ \A a \in 1..Len(arrays), b \in Slots :
        A[a][b] = IF a = i /\ b = j THEN e ELSE arrays[a][b]

\* What is used after an update, and how many sites that are.
LEMMA UsedAfter ==
  ASSUME NEW k, NEW c, NEW n, NEW k2, CountSet(k, c, n, k2)
  PROVE  /\ n = 0 => Cardinality(Used(k2)) = Cardinality(Used(k) \cup {c}) - 1
         /\ n # 0 => Cardinality(Used(k2)) = Cardinality(Used(k) \cup {c})
         /\ Cardinality(Used(k) \cup {c}) \in Nat /\ Cardinality(Used(k2)) \in Nat
         /\ Cardinality(Used(k2)) = 0 => Used(k2) = {}
<1> DEFINE total == Cardinality(Used(k) \cup {c})
<1> USE DEF CountSet
<1>1. \A d \in Clients : k2[d] = IF d = c THEN n ELSE k[d]
  OBVIOUS
<1>2. /\ Used(k) \cup {c} \subseteq Clients /\ Used(k2) \subseteq Clients
  BY DEF Used
<1>3. IsFiniteSet(Used(k) \cup {c}) /\ IsFiniteSet(Used(k2))
  BY <1>2, SitemapAssumption, FS_Subset
<1>4. Used(k2) = IF n = 0 THEN (Used(k) \cup {c}) \ {c} ELSE Used(k) \cup {c}
  <2>1. CASE n = 0
    BY <1>1, <2>1 DEF Used
  <2>2. CASE n # 0
    BY <1>1, <2>2 DEF Used
  <2> QED
    BY <2>1, <2>2
<1>5. Cardinality((Used(k) \cup {c}) \ {c}) = total - 1
  <2> DEFINE U == Used(k) \cup {c}
  <2>1. IsFiniteSet(U) /\ c \in U
    BY <1>3
  <2> HIDE DEF U
  <2>2. Cardinality(U \ {c}) = Cardinality(U) - 1
    BY <2>1, FS_RemoveElement
  <2> QED
    BY <2>2 DEF U
<1>6. total \in Nat /\ Cardinality(Used(k2)) \in Nat
  BY <1>3, FS_CardinalityType
<1>7. Cardinality(Used(k2)) = 0 => Used(k2) = {}
  BY <1>3, FS_EmptySet
<1>8. Cardinality(Used(k2)) = IF n = 0 THEN total - 1 ELSE total
  BY <1>4, <1>5
<1> QED
  BY <1>1, <1>3, <1>6, <1>7, <1>8

\* An entry of the arrays gets the new count of m's site.
LEMMA ArraysUpdated ==
  ASSUME NEW k, NEW c, NEW n, NEW k2, CountSet(k, c, n, k2),
         NEW arrays, NEW i, NEW j, NEW e, NEW A, EntrySet(arrays, i, j, e, A),
         ArraysHold(arrays, k),
         \/ arrays[i][j].s_count = 0 /\ k[c] = 0
         \/ arrays[i][j].s_count # 0 /\ arrays[i][j].s_site = c,
         e.s_count = n, n # 0 => e.s_site = c
  PROVE  ArraysHold(A, k2)
<1>0. /\ k \in [Clients -> Nat] /\ k2 \in [Clients -> Nat] /\ c \in Clients /\ n \in Nat
      /\ arrays \in Seq([Slots -> SiteEntry]) /\ i \in 1..Len(arrays) /\ j \in Slots
      /\ e \in SiteEntry
  BY DEF CountSet, EntrySet
<1> USE <1>0
<1>1. \A d \in Clients : k2[d] = IF d = c THEN n ELSE k[d]
  BY DEF CountSet
<1>2. arrays \in [1..Len(arrays) -> [Slots -> SiteEntry]] /\ Len(arrays) \in Nat
  OBVIOUS
<1>4. /\ Len(A) = Len(arrays)
      /\ \A a \in 1..Len(arrays), b \in Slots :
            A[a][b] = IF a = i /\ b = j THEN e ELSE arrays[a][b]
  BY DEF EntrySet
<1>6. \A a \in 1..Len(arrays), b \in Slots :
         /\ arrays[a][b] \in SiteEntry /\ arrays[a][b].s_site \in Clients
         /\ arrays[a][b].s_count \in Nat
         /\ arrays[a][b].s_count # 0 /\ arrays[a][b].s_site = c => a = i /\ b = j
  <2>1. \A a \in 1..Len(arrays), b \in Slots : arrays[a][b] \in SiteEntry
    BY <1>2
  <2>2. \A a \in 1..Len(arrays), b \in Slots :
         arrays[a][b].s_count # 0 /\ arrays[a][b].s_site = c => a = i /\ b = j
    BY DEF ArraysHold
  <2> QED
    BY <2>1, <2>2 DEF SiteEntry
<1>7. e.s_site \in Clients /\ e.s_count = n
  BY DEF SiteEntry
<1>8. ASSUME NEW a \in 1..Len(A), NEW b \in Slots, A[a][b].s_count # 0
      PROVE  k2[A[a][b].s_site] = A[a][b].s_count
  <2>1. CASE a = i /\ b = j
    BY <1>1, <1>4, <1>7, <1>8, <2>1
  <2>2. CASE ~ (a = i /\ b = j)
    <3>1. A[a][b] = arrays[a][b] /\ a \in 1..Len(arrays) /\ arrays[a][b].s_site \in Clients \ {c}
      BY <1>4, <1>6, <1>8, <2>2
    <3>2. k[arrays[a][b].s_site] = arrays[a][b].s_count
      BY <1>8, <3>1 DEF ArraysHold
    <3> QED
      BY <1>1, <3>1, <3>2
  <2> QED
    BY <2>1, <2>2
<1>9. ASSUME NEW d \in Clients, k2[d] # 0
      PROVE  \E a \in 1..Len(A), b \in Slots : A[a][b].s_count # 0 /\ A[a][b].s_site = d
  <2>1. CASE d = c
    <3>1. A[i][j] = e /\ i \in 1..Len(A) /\ e.s_count # 0 /\ e.s_site = d
      BY <1>1, <1>4, <1>7, <1>9, <2>1
    <3> QED
      BY <3>1
  <2>2. CASE d # c
    <3>1. PICK a \in 1..Len(arrays), b \in Slots :
             arrays[a][b].s_count # 0 /\ arrays[a][b].s_site = d
      BY <1>1, <1>9, <2>2 DEF ArraysHold
    <3>2. ~ (a = i /\ b = j)
      BY <2>2, <3>1
    <3> QED
      BY <1>4, <3>1, <3>2
  <2> QED
    BY <2>1, <2>2
<1>10. ASSUME NEW a1 \in 1..Len(A), NEW a2 \in 1..Len(A), NEW b1 \in Slots, NEW b2 \in Slots,
              A[a1][b1].s_count # 0, A[a2][b2].s_count # 0, A[a1][b1].s_site = A[a2][b2].s_site
       PROVE  a1 = a2 /\ b1 = b2
  <2>1. ASSUME NEW a \in 1..Len(A), NEW b \in Slots, A[a][b].s_count # 0
        PROVE  A[a][b].s_site = c => a = i /\ b = j
    BY <1>4, <1>6, <2>1
  <2>2. CASE A[a1][b1].s_site = c
    BY <1>10, <2>1, <2>2
  <2>3. CASE A[a1][b1].s_site # c
    <3>1. ASSUME NEW a \in 1..Len(A), NEW b \in Slots, A[a][b].s_count # 0, A[a][b].s_site # c
          PROVE  A[a][b] = arrays[a][b] /\ a \in 1..Len(arrays)
      BY <1>4, <1>7, <3>1
    <3>2. A[a1][b1] = arrays[a1][b1] /\ A[a2][b2] = arrays[a2][b2]
          /\ a1 \in 1..Len(arrays) /\ a2 \in 1..Len(arrays)
      BY <1>10, <2>3, <3>1
    <3> QED
      BY <1>10, <3>2 DEF ArraysHold
  <2> QED
    BY <2>2, <2>3
<1> QED
  BY <1>8, <1>9, <1>10 DEF ArraysHold

\* The arrays hold the counts k, and the entry at i, j is the one for m's site;
\* total is the number of the sites, that one included.
Fits(k, arrays, total, i, j, m) ==
  /\ k \in [Clients -> Nat] /\ arrays \in Seq([Slots -> SiteEntry]) /\ ArraysHold(arrays, k)
  /\ i \in 1..Len(arrays) /\ j \in Slots
  /\ m.site \in Clients /\ m.value \in Int /\ k[m.site] + m.value >= 0
  /\ \/ arrays[i][j].s_count = 0 /\ k[m.site] = 0
     \/ arrays[i][j].s_count # 0 /\ arrays[i][j].s_site = m.site
  /\ total = Cardinality(Used(k) \cup {m.site})

\* The map of the next state holds the counts k with m's update.
MapUpdated(k, m) ==
  \E k2 \in [Clients -> Nat] : /\ k2 = [k EXCEPT ![m.site] = @ + m.value]
                              /\ MapTypes' /\ Holds(k2)' /\ Shape(k2)'

\* The map after InArray, of arrays that hold the counts k.
LEMMA InArrayMap ==
  ASSUME NEW k, NEW arrays, NEW total, NEW i, NEW j, NEW m, Fits(k, arrays, total, i, j, m),
         InArray(arrays, total, <<i, j>>, m),
         \A q \in Servers : nsp'[q].pc \notin Allocating
  PROVE  MapUpdated(k, m)
<1> USE DEF Fits, MapUpdated
<1> DEFINE n == arrays[i][j].s_count + m.value
           k2 == [k EXCEPT ![m.site] = @ + m.value]
           left == IF n = 0 THEN total - 1 ELSE total
           A == [arrays EXCEPT ![i][j] = EntryOf(m, n)]
<1>1. /\ s_count' = left
      /\ s_maptype' = (IF left = 0 THEN "S_MAPEMPTY" ELSE "S_ARRAY")
      /\ s_array' = (IF left = 0 THEN <<>> ELSE A)
      /\ s_onesite' = Empty
  BY DEF InArray
<1>2. arrays[i][j].s_count = k[m.site] /\ k[m.site] \in Nat /\ n \in Nat
  <2>1. arrays[i][j].s_count = k[m.site]
    BY DEF ArraysHold
  <2> QED
    BY <2>1
<1>3. /\ k2 \in [Clients -> Nat] /\ k2[m.site] = n
      /\ \A d \in Clients \ {m.site} : k2[d] = k[d]
  BY <1>2
<1> HIDE DEF n, k2
<1>4. /\ k2 \in [Clients -> Nat] /\ total \in Nat /\ left \in Nat
      /\ Cardinality(Used(k2)) = left
      /\ left = 0 => \A d \in Clients : k2[d] = 0
  <2>1. PICK c \in Clients, n1 \in Nat : c = m.site /\ n1 = n
    BY <1>2
  <2>2. CountSet(k, c, n1, k2) /\ total = Cardinality(Used(k) \cup {c})
    BY <1>3, <2>1 DEF CountSet
  <2>3. PICK kk : kk = k2
    OBVIOUS
  <2>4. /\ n1 = 0 => Cardinality(Used(kk)) = Cardinality(Used(k) \cup {c}) - 1
        /\ n1 # 0 => Cardinality(Used(kk)) = Cardinality(Used(k) \cup {c})
        /\ Cardinality(Used(k) \cup {c}) \in Nat /\ Cardinality(Used(kk)) \in Nat
        /\ Cardinality(Used(kk)) = 0 => Used(kk) = {}
    <3>1. CountSet(k, c, n1, kk)
      BY <2>2, <2>3
    <3> QED
      BY <3>1, UsedAfter
  <2>5. Used(k2) = {} => \A d \in Clients : k2[d] = 0
    BY <1>3 DEF Used
  <2> QED
    BY <1>3, <2>1, <2>2, <2>3, <2>4, <2>5
<1>5. Empty \in SiteEntry /\ Empty.s_count = 0
  BY SitemapAssumption DEF Empty, SiteEntry
<1>6. /\ EntryOf(m, n) \in SiteEntry /\ EntryOf(m, n).s_count = n
      /\ n # 0 => EntryOf(m, n).s_site = m.site
  <2>1. CASE n = 0
    BY <2>1, <1>5 DEF EntryOf
  <2>2. CASE n # 0
    BY <2>2, <1>2 DEF EntryOf, SiteEntry
  <2> QED
    BY <2>1, <2>2
<1>7. A \in Seq([Slots -> SiteEntry]) /\ A # <<>> /\ ArraysHold(A, k2)
  <2>1. PICK e \in SiteEntry, c \in Clients, n1 \in Nat :
           e = EntryOf(m, n) /\ c = m.site /\ n1 = n
    BY <1>2, <1>6
  <2>2. e.s_count = n1 /\ (n1 # 0 => e.s_site = c)
    BY <1>6, <2>1
  <2>3. \/ arrays[i][j].s_count = 0 /\ k[c] = 0
        \/ arrays[i][j].s_count # 0 /\ arrays[i][j].s_site = c
    BY <2>1
  <2>4. A = [arrays EXCEPT ![i] = [arrays[i] EXCEPT ![j] = e]]
    BY <2>1
  <2> HIDE DEF A
  <2>5. /\ A \in Seq([Slots -> SiteEntry]) /\ Len(A) = Len(arrays) /\ A # <<>>
        /\ \A a \in 1..Len(arrays), b \in Slots :
              A[a][b] = IF a = i /\ b = j THEN e ELSE arrays[a][b]
    <3>1. arrays \in [1..Len(arrays) -> [Slots -> SiteEntry]] /\ Len(arrays) \in Nat
      OBVIOUS
    <3>2. [arrays[i] EXCEPT ![j] = e] \in [Slots -> SiteEntry]
      BY <3>1
    <3>3. A \in Seq([Slots -> SiteEntry]) /\ Len(A) = Len(arrays) /\ A # <<>>
      BY <2>4, <3>1, <3>2
    <3>4. ASSUME NEW a \in 1..Len(arrays), NEW b \in Slots
          PROVE  A[a][b] = IF a = i /\ b = j THEN e ELSE arrays[a][b]
      <4>1. CASE a = i
        BY <2>4, <3>1, <4>1
      <4>2. CASE a # i
        BY <2>4, <3>1, <4>2
      <4> QED
        BY <4>1, <4>2
    <3> QED
      BY <3>3, <3>4
  <2>6. CountSet(k, c, n1, k2)
    BY <1>3, <2>1 DEF CountSet
  <2>7. EntrySet(arrays, i, j, e, A)
    BY <2>5 DEF EntrySet
  <2>8. ArraysHold(A, k2)
    BY <2>2, <2>3, <2>6, <2>7, ArraysUpdated
  <2> QED
    BY <2>5, <2>8
<1> HIDE DEF A, left
<1>8. CASE left = 0
  <2>1. s_array' = <<>> /\ s_maptype' = "S_MAPEMPTY" /\ s_count' = 0 /\ s_onesite' = Empty
    BY <1>1, <1>8
  <2>2. MapTypes'
    BY <2>1, <1>5 DEF MapTypes
  <2>3. Holds(k2)'
    BY <2>1, <1>4, <1>5, <1>8 DEF Holds
  <2>4. Shape(k2)'
    BY <2>1, <1>5 DEF Shape, Locked
  <2> QED
    BY <1>4, <2>2, <2>3, <2>4 DEF k2
<1>9. CASE left # 0
  <2>1. s_array' = A /\ s_maptype' = "S_ARRAY" /\ s_count' = left /\ s_onesite' = Empty
    BY <1>1, <1>9
  <2>2. MapTypes'
    BY <2>1, <1>4, <1>5, <1>7 DEF MapTypes
  <2>3. Holds(k2)'
    BY <2>1, <1>7 DEF Holds
  <2>4. Shape(k2)'
    BY <2>1, <1>4, <1>7 DEF Shape, Locked
  <2> QED
    BY <1>4, <2>2, <2>3, <2>4 DEF k2
<1> QED
  BY <1>8, <1>9

-----------------------------------------------------------------------------
(* The server: its steps.                                                  *)

\* Process p, which does not allocate, deals with request m.
Takes(p, m) ==
  /\ SitemapInv /\ panicked = {} /\ nsp[p].pc \notin Allocating
  /\ From(p, m, msgs, msgs', nsp)
  /\ UNCHANGED <<dcount, refs>>

\* Only process p changes.
LEMMA TakesServes ==
  ASSUME NEW p \in Servers, NEW m, Takes(p, m), NEW k \in [Clients -> Nat],
         Holds(k), Shape(k), Level(k),
         NEW x \in {Idle} \cup Busy, nsp' = [nsp EXCEPT ![p] = x]
  PROVE  /\ Serves(p, m, k) /\ nsp'[p] = x
         /\ \A q \in Servers \ {p} : nsp'[q] = nsp[q]
<1>1. nsp \in [Servers -> {Idle} \cup Busy]
  BY DEF Takes, SitemapInv, Types
<1>2. /\ nsp' \in [Servers -> {Idle} \cup Busy] /\ nsp'[p] = x
      /\ \A q \in Servers \ {p} : nsp'[q] = nsp[q]
  BY <1>1
<1>3. Others(p, nsp, nsp')
  BY <1>2 DEF Others
<1> QED
  BY <1>2, <1>3 DEF Serves, Takes

\* The request waits for the lock.
LEMMA WaitInv ==
  ASSUME NEW p \in Servers, NEW m, Takes(p, m), Locked, waitlock(p, m)
  PROVE  SitemapInv'
<1>1. /\ s_maptype' = "S_WAITING" /\ nsp' = [nsp EXCEPT ![p] = [pc |-> "wait", msg |-> m]]
      /\ UNCHANGED <<s_count, s_onesite, s_array, replies, adding, panicked>>
  BY DEF waitlock
<1>2. PICK k \in [Clients -> Nat] : Holds(k) /\ Shape(k) /\ Level(k)
  BY DEF Takes, SitemapInv
<1>3. m \in Msg /\ MapTypes
  BY FromBag DEF Takes, SitemapInv, Types
<1>4. PICK x \in Busy : x = [pc |-> "wait", msg |-> m] /\ x.pc = "wait" /\ x.msg = m
  <2>1. [pc |-> "wait", msg |-> m] \in Busy
    BY <1>3 DEF Busy
  <2> QED
    BY <2>1
<1>5. /\ Serves(p, m, k) /\ nsp'[p] = x /\ x # Idle
      /\ \A q \in Servers \ {p} : nsp'[q] = nsp[q]
  BY <1>1, <1>2, <1>4, TakesServes, BusyFacts
<1>6. MapTypes'
  BY <1>1, <1>3 DEF MapTypes
<1>7. Holds(k)'
  BY <1>1, <1>2 DEF Holds
<1>8. Shape(k)'
  <2>1. PICK q \in Servers : /\ Allocates(q, k)
                             /\ \A a \in Servers \ {q} : nsp[a].pc \notin Allocating
    BY <1>2 DEF Shape
  <2>2. q # p
    BY <2>1 DEF Takes, Allocates
  <2>3. Allocates(q, k)'
    BY <1>1, <1>5, <2>1, <2>2 DEF Allocates
  <2>4. \A a \in Servers \ {q} : nsp'[a].pc \notin Allocating
    BY <1>4, <1>5, <2>1 DEF Allocating
  <2> QED
    BY <1>1, <2>3, <2>4 DEF Shape, Locked
<1> QED
  BY <1>1, <1>4, <1>5, <1>6, <1>7, <1>8, KeptInv

\* What updatesitecount() finds for the site of its request.
LEMMA Found ==
  ASSUME NEW k \in [Clients -> Nat], MapTypes, Holds(k), Shape(k), NEW c \in Clients
  PROVE  /\ s_maptype = "S_MAPEMPTY" => k[c] = 0
         /\ s_maptype = "S_ONESITE" =>
              /\ s_onesite.s_site = c => k[c] = s_onesite.s_count
              /\ s_onesite.s_site # c => k[c] = 0
         /\ s_maptype = "S_ARRAY" =>
              /\ EntriesOf(c) # {} <=> k[c] # 0
              /\ EntriesOf(c) # {} => At(FirstOf(EntriesOf(c))).s_count = k[c]
<1>1. CASE s_maptype \in {"S_MAPEMPTY", "S_ONESITE"}
  BY <1>1 DEF Shape, Holds
<1>2. CASE s_maptype = "S_ARRAY"
  <2>1. s_array # <<>>
    BY <1>2 DEF Shape
  <2>2. CASE k[c] = 0
    BY <1>2, <2>1, <2>2, EntriesIs
  <2>3. CASE k[c] # 0
    <3>1. PICK i \in 1..Len(s_array), j \in Slots :
             /\ EntriesOf(c) = {<<i, j>>} /\ FirstOf(EntriesOf(c)) = <<i, j>>
             /\ s_array[i][j].s_site = c /\ s_array[i][j].s_count = k[c]
      BY <2>1, <2>3, EntriesIs
    <3> QED
      BY <1>2, <2>3, <3>1 DEF At
  <2> QED
    BY <2>2, <2>3
<1> QED
  BY <1>1, <1>2

\* One site more is used.
LEMMA NewSite ==
  ASSUME NEW k \in [Clients -> Nat], NEW c \in Clients, k[c] = 0
  PROVE  Cardinality(Used(k) \cup {c}) = Cardinality(Used(k)) + 1
<1>1. IsFiniteSet(Used(k)) /\ c \notin Used(k)
  <2>1. Used(k) \subseteq Clients
    BY DEF Used
  <2> QED
    BY <2>1, SitemapAssumption, FS_Subset DEF Used
<1> QED
  BY <1>1, FS_AddElement

\* Process p is done with its request, and holds none.
LEMMA DoneStep ==
  ASSUME NEW p \in Servers, NEW m, Takes(p, m), ~Locked, Done(p, m),
         NEW k \in [Clients -> Nat], Holds(k), Shape(k), Level(k)
  PROVE  /\ Serves(p, m, k) /\ nsp'[p] = Idle /\ Answer(m)
         /\ \A q \in Servers : nsp'[q].pc \notin Allocating
<1>1. nsp' = [nsp EXCEPT ![p] = Idle] /\ Answer(m)
  BY DEF Done
<1>2. Serves(p, m, k) /\ nsp'[p] = Idle /\ \A q \in Servers \ {p} : nsp'[q] = nsp[q]
  BY <1>1, TakesServes
<1>3. Idle.pc \notin Allocating
  BY DEF Idle, Allocating
<1>4. \A q \in Servers : nsp'[q].pc \notin Allocating
  BY <1>2, <1>3 DEF Shape
<1> QED
  BY <1>1, <1>2, <1>4

\* The map with a single entry, or none, gets the count n for m's site.
LEMMA OneSiteMap ==
  ASSUME NEW k \in [Clients -> Nat], MapTypes, Holds(k), Shape(k), NEW m, m.site \in Clients,
         m.value \in Int, k[m.site] + m.value >= 0,
         \/ s_maptype = "S_MAPEMPTY"
         \/ s_maptype = "S_ONESITE" /\ s_onesite.s_site = m.site,
         NEW n, n = k[m.site] + m.value, OneSite(m, n),
         \A q \in Servers : nsp'[q].pc \notin Allocating
  PROVE  \E k2 \in [Clients -> Nat] :
            /\ k2 = [k EXCEPT ![m.site] = @ + m.value]
            /\ MapTypes' /\ Holds(k2)' /\ Shape(k2)'
<1> DEFINE k2 == [k EXCEPT ![m.site] = @ + m.value]
<1>1. /\ n \in Nat /\ k2 \in [Clients -> Nat] /\ k2[m.site] = n
      /\ \A d \in Clients \ {m.site} : k2[d] = k[d]
  OBVIOUS
<1>2. s_array = <<>> /\ \A d \in Clients \ {m.site} : k[d] = 0
  BY DEF Shape, Holds
<1>3. /\ s_onesite' = EntryOf(m, n) /\ s_array' = <<>>
      /\ s_maptype' = (IF n = 0 THEN "S_MAPEMPTY" ELSE "S_ONESITE")
      /\ s_count' = (IF n = 0 THEN 0 ELSE 1)
  BY <1>2 DEF OneSite
<1>4. /\ EntryOf(m, n) \in SiteEntry /\ EntryOf(m, n).s_count = n
      /\ n # 0 => EntryOf(m, n).s_site = m.site
  <2>1. CASE n = 0
    BY <2>1, SitemapAssumption DEF EntryOf, Empty, SiteEntry
  <2>2. CASE n # 0
    BY <2>2, <1>1 DEF EntryOf, SiteEntry
  <2> QED
    BY <2>1, <2>2
<1> HIDE DEF k2
<1>5. MapTypes'
  BY <1>3, <1>4 DEF MapTypes
<1>6. Holds(k2)'
  <2>1. ASSUME NEW d \in Clients
        PROVE  k2[d] = IF s_onesite'.s_site = d THEN s_onesite'.s_count ELSE 0
    BY <1>1, <1>2, <1>3, <1>4
  <2> QED
    BY <1>3, <2>1 DEF Holds
<1>7. Shape(k2)'
  BY <1>1, <1>3, <1>4 DEF Shape, Locked
<1> QED
  BY <1>1, <1>5, <1>6, <1>7 DEF k2

\* A process goes to sleep in kmem_alloc(), with the map locked.
LEMMA LockInv ==
  ASSUME NEW p \in Servers, NEW m, Takes(p, m), ~Locked,
         NEW k \in [Clients -> Nat], Holds(k), Shape(k), Level(k),
         k[m.site] = 0, m.value > 0,
         NEW where \in Allocating, getnewsitearray(p, m, where),
         where = "second" => s_maptype = "S_ONESITE" /\ UNCHANGED s_count,
         where = "next" => s_maptype = "S_ARRAY" /\ s_count' = s_count + 1
  PROVE  SitemapInv'
<1>1. /\ s_maptype' = "S_LOCKED" /\ nsp' = [nsp EXCEPT ![p] = [pc |-> where, msg |-> m]]
      /\ UNCHANGED <<s_onesite, s_array, replies, adding, panicked>>
  BY DEF getnewsitearray
<1>2. m \in Msg /\ MapTypes
  BY FromBag DEF Takes, SitemapInv, Types
<1>3. PICK x \in Busy : x = [pc |-> where, msg |-> m] /\ x.pc = where /\ x.msg = m
  <2>1. [pc |-> where, msg |-> m] \in Busy
    BY <1>2 DEF Busy
  <2> QED
    BY <2>1
<1>4. /\ Serves(p, m, k) /\ nsp'[p] = x /\ x # Idle
      /\ \A q \in Servers \ {p} : nsp'[q] = nsp[q]
  BY <1>1, <1>3, TakesServes, BusyFacts
<1>5. s_count' \in Nat
  BY <1>2 DEF MapTypes, Allocating
<1>6. MapTypes'
  BY <1>1, <1>2, <1>5 DEF MapTypes
<1>7. Holds(k)'
  BY <1>1 DEF Holds
<1>8. Shape(k)'
  <2>1. \A q \in Servers \ {p} : nsp'[q].pc \notin Allocating
    BY <1>4 DEF Shape
  <2>2. Allocates(p, k)'
    BY <1>1, <1>3, <1>4 DEF Allocates, Shape, Allocating
  <2> QED
    BY <1>1, <2>1, <2>2 DEF Shape, Locked
<1> QED
  BY <1>1, <1>3, <1>4, <1>6, <1>7, <1>8, KeptInv

\* updatesitecount().
LEMMA UpdateSiteCountInv ==
  ASSUME NEW p \in Servers, NEW m, Takes(p, m), ~Locked, updatesitecount(p, m)
  PROVE  SitemapInv'
<1>1. m \in Msg /\ m \in Message /\ MapTypes
  BY FromBag DEF Takes, SitemapInv, Types
<1>2. m.site \in Clients /\ m.value \in Int /\ m.value # 0
  BY <1>1 DEF Message, Msg
<1>3. PICK k \in [Clients -> Nat] : Holds(k) /\ Shape(k) /\ Level(k)
  BY DEF Takes, SitemapInv
<1>4. k[m.site] \in Nat
  BY <1>2
<1> DEFINE found == EntriesOf(m.site)
           here == s_maptype = "S_ONESITE" /\ s_onesite.s_site = m.site
           count == IF here THEN s_onesite.s_count
                    ELSE IF s_maptype = "S_ARRAY" /\ found # {}
                    THEN At(FirstOf(found)).s_count ELSE 0
<1>5. /\ s_maptype = "S_MAPEMPTY" => k[m.site] = 0
      /\ s_maptype = "S_ONESITE" =>
           /\ s_onesite.s_site = m.site => k[m.site] = s_onesite.s_count
           /\ s_onesite.s_site # m.site => k[m.site] = 0
      /\ s_maptype = "S_ARRAY" =>
           /\ found # {} <=> k[m.site] # 0
           /\ found # {} => At(FirstOf(found)).s_count = k[m.site]
  BY <1>1, <1>2, <1>3, Found
<1>6. count = k[m.site]
  BY <1>1, <1>5 DEF MapTypes, Locked
<1>7. CASE count + m.value < 0
  <2>1. /\ panicked' = panicked \cup {m.site}
        /\ nsp' = [nsp EXCEPT ![p] = Idle]
        /\ UNCHANGED <<map, replies, adding>>
    BY <1>7 DEF updatesitecount
  <2>2. k[m.site] + m.value < 0
    BY <1>6, <1>7
  <2>3. Serves(p, m, k)
    BY <1>3, <2>1, TakesServes
  <2> QED
    BY <2>1, <2>2, <2>3, PanicInv
<1>8. CASE ~ (count + m.value < 0)
  <2>1. k[m.site] + m.value >= 0
    BY <1>2, <1>4, <1>6, <1>8
  <2>2. ASSUME here \/ s_maptype = "S_MAPEMPTY", OneSite(m, count + m.value), Done(p, m)
        PROVE  SitemapInv'
    <3>1. /\ Serves(p, m, k) /\ nsp'[p] = Idle /\ Answer(m)
          /\ \A q \in Servers : nsp'[q].pc \notin Allocating
      BY <1>3, <2>2, DoneStep
    <3>2. PICK n : n = count + m.value /\ n = k[m.site] + m.value /\ OneSite(m, n)
      BY <1>6, <2>2
    <3>3. PICK k2 \in [Clients -> Nat] :
             /\ k2 = [k EXCEPT ![m.site] = @ + m.value] /\ MapTypes' /\ Holds(k2)' /\ Shape(k2)'
      BY <1>1, <1>2, <1>3, <2>1, <2>2, <3>1, <3>2, OneSiteMap
    <3> QED
      BY <3>1, <3>3, DoneInv
  <2>3. ASSUME s_maptype = "S_ONESITE", ~here, getnewsitearray(p, m, "second"), UNCHANGED s_count
        PROVE  SitemapInv'
    <3>1. k[m.site] = 0 /\ m.value > 0
      BY <1>2, <1>5, <2>1, <2>3
    <3>2. "second" \in Allocating /\ "second" # "next"
      BY DEF Allocating
    <3> QED
      BY <1>3, <2>3, <3>1, <3>2, LockInv
  <2>4. ASSUME s_maptype = "S_ARRAY", found # {},
               InArray(s_array, s_count, FirstOf(found), m), Done(p, m)
        PROVE  SitemapInv'
    <3>1. /\ Serves(p, m, k) /\ nsp'[p] = Idle /\ Answer(m)
          /\ \A q \in Servers : nsp'[q].pc \notin Allocating
      BY <1>3, <2>4, DoneStep
    <3>2. /\ s_array # <<>> /\ s_count = Cardinality(Used(k)) /\ k[m.site] # 0
          /\ ArraysHold(s_array, k) /\ s_array \in Seq([Slots -> SiteEntry])
      BY <1>1, <1>3, <1>5, <2>4 DEF Shape, Holds, MapTypes
    <3>3. PICK i \in 1..Len(s_array), j \in Slots :
             /\ FirstOf(found) = <<i, j>>
             /\ s_array[i][j].s_site = m.site /\ s_array[i][j].s_count = k[m.site]
      BY <1>1, <1>2, <1>3, <3>2, EntriesIs
    <3>4. s_count = Cardinality(Used(k) \cup {m.site})
      <4>1. Used(k) \cup {m.site} = Used(k)
        BY <1>2, <1>4, <3>2 DEF Used
      <4> QED
        BY <3>2, <4>1
    <3>5. InArray(s_array, s_count, <<i, j>>, m)
      BY <2>4, <3>3
    <3>6. MapUpdated(k, m)
      <4>1. PICK arr, total : arr = s_array /\ total = s_count
        OBVIOUS
      <4>2. Fits(k, arr, total, i, j, m)
        BY <1>2, <1>3, <2>1, <3>2, <3>3, <3>4, <4>1 DEF Fits
      <4>3. InArray(arr, total, <<i, j>>, m)
        BY <3>5, <4>1
      <4> QED
        BY <3>1, <4>2, <4>3, InArrayMap
    <3> QED
      BY <3>1, <3>6, DoneInv DEF MapUpdated
  <2>5. ASSUME s_maptype = "S_ARRAY", found = {}, FreeSlots # {},
               InArray(s_array, s_count + 1, FirstOf(FreeSlots), m), Done(p, m)
        PROVE  SitemapInv'
    <3>1. /\ Serves(p, m, k) /\ nsp'[p] = Idle /\ Answer(m)
          /\ \A q \in Servers : nsp'[q].pc \notin Allocating
      BY <1>3, <2>5, DoneStep
    <3>2. /\ s_array # <<>> /\ s_count = Cardinality(Used(k)) /\ k[m.site] = 0
          /\ ArraysHold(s_array, k) /\ s_array \in Seq([Slots -> SiteEntry])
      BY <1>1, <1>3, <1>5, <2>5 DEF Shape, Holds, MapTypes
    <3>3. PICK i \in 1..Len(s_array), j \in Slots :
             FirstOf(FreeSlots) = <<i, j>> /\ s_array[i][j].s_count = 0
      <4>1. FirstOf(FreeSlots) \in FreeSlots
        BY <1>1, <2>5, FirstFree
      <4>2. ASSUME NEW x \in FreeSlots
            PROVE  \E i \in 1..Len(s_array), j \in Slots : x = <<i, j>> /\ s_array[i][j].s_count = 0
        BY DEF FreeSlots, Positions, At
      <4> QED
        BY <4>1, <4>2
    <3>4. s_count + 1 = Cardinality(Used(k) \cup {m.site})
      BY <1>2, <3>2, NewSite
    <3>5. InArray(s_array, s_count + 1, <<i, j>>, m)
      BY <2>5, <3>3
    <3>6. MapUpdated(k, m)
      <4>1. PICK arr, total : arr = s_array /\ total = s_count + 1
        OBVIOUS
      <4>2. Fits(k, arr, total, i, j, m)
        BY <1>2, <1>3, <2>1, <3>2, <3>3, <3>4, <4>1 DEF Fits
      <4>3. InArray(arr, total, <<i, j>>, m)
        BY <3>5, <4>1
      <4> QED
        BY <3>1, <4>2, <4>3, InArrayMap
    <3> QED
      BY <3>1, <3>6, DoneInv DEF MapUpdated
  <2>6. ASSUME s_maptype = "S_ARRAY", found = {}, getnewsitearray(p, m, "next"),
               s_count' = s_count + 1
        PROVE  SitemapInv'
    <3>1. k[m.site] = 0 /\ m.value > 0
      BY <1>2, <1>5, <2>1, <2>6
    <3>2. "next" \in Allocating /\ "second" # "next"
      BY DEF Allocating
    <3> QED
      BY <1>3, <2>6, <3>1, <3>2, LockInv
  <2> QED
    BY <1>8, <2>2, <2>3, <2>4, <2>5, <2>6 DEF updatesitecount
<1> QED
  BY <1>7, <1>8

\* A request is taken from the bag, or by a process that has been woken up.
LEMMA AttemptInv ==
  ASSUME NEW p \in Servers, NEW m, Takes(p, m), Attempt(p, m)
  PROVE  SitemapInv'
<1>1. CASE Locked
  BY <1>1, WaitInv DEF Attempt
<1>2. CASE ~Locked
  BY <1>2, UpdateSiteCountInv DEF Attempt
<1> QED
  BY <1>1, <1>2

\* serve().
LEMMA ServeInv ==
  ASSUME SitemapInv, NEW p \in Servers, serve(p)
  PROVE  SitemapInv'
<1>1. PICK m \in DOMAIN msgs : Attempt(p, m) /\ msgs' = msgs (-) SetToBag({m})
  BY DEF serve, BagToSet
<1>2. nsp[p] = Idle /\ panicked = {} /\ UNCHANGED <<dcount, refs>>
  BY DEF serve
<1>3. nsp[p].pc \notin Allocating
  BY <1>2 DEF Idle, Allocating
<1>4. Takes(p, m)
  BY <1>1, <1>2, <1>3 DEF Takes, From
<1> QED
  BY <1>1, <1>4, AttemptInv

\* resume().
LEMMA ResumeInv ==
  ASSUME SitemapInv, NEW p \in Servers, resume(p)
  PROVE  SitemapInv'
<1>1. PICK m : m = nsp[p].msg
  OBVIOUS
<1>2. /\ panicked = {} /\ nsp[p].pc = "woken" /\ Attempt(p, m)
      /\ UNCHANGED <<msgs, dcount, refs>>
  BY <1>1 DEF resume
<1>3. nsp[p] # Idle /\ nsp[p].pc \notin Allocating
  BY <1>2 DEF Idle, Allocating
<1>4. Takes(p, m)
  BY <1>1, <1>2, <1>3 DEF Takes, From
<1> QED
  BY <1>2, <1>4, AttemptInv

\* The processes when the map is unlocked: p is done, others may be awake.
LEMMA WokenFacts ==
  ASSUME NEW p \in Servers, nsp \in [Servers -> {Idle} \cup Busy],
         nsp' = [Woken(p) EXCEPT ![p] = Idle],
         \A q \in Servers \ {p} : nsp[q].pc \notin Allocating
  PROVE  /\ nsp' \in [Servers -> {Idle} \cup Busy] /\ Others(p, nsp, nsp') /\ nsp'[p] = Idle
         /\ \A q \in Servers : nsp'[q].pc \notin Allocating
<1>1. Idle.pc \notin Allocating /\ Idle.pc # "wait" /\ "woken" \notin Allocating
  BY DEF Idle, Allocating
<1>2. /\ nsp' = [q \in Servers |-> IF q = p THEN Idle ELSE nsp'[q]] /\ nsp'[p] = Idle
      /\ \A q \in Servers \ {p} :
           \/ nsp'[q] = nsp[q]
           \/ nsp[q].pc = "wait" /\ nsp'[q] = [nsp[q] EXCEPT !.pc = "woken"]
  BY DEF Woken
<1>3. ASSUME NEW x \in Busy
      PROVE  /\ [x EXCEPT !.pc = "woken"] \in Busy
             /\ [x EXCEPT !.pc = "woken"].msg = x.msg
             /\ [x EXCEPT !.pc = "woken"].pc = "woken"
  BY DEF Busy
<1>4. ASSUME NEW q \in Servers \ {p}
      PROVE  /\ nsp'[q] \in {Idle} \cup Busy /\ nsp'[q].pc \notin Allocating
             /\ nsp'[q] = Idle <=> nsp[q] = Idle
             /\ nsp[q] # Idle => nsp'[q].msg = nsp[q].msg
  <2>1. CASE nsp'[q] = nsp[q]
    BY <2>1
  <2>2. CASE nsp[q].pc = "wait" /\ nsp'[q] = [nsp[q] EXCEPT !.pc = "woken"]
    <3>1. nsp[q] \in Busy
      BY <1>1, <2>2
    <3> QED
      BY <1>1, <1>3, <2>2, <3>1, BusyFacts
  <2> QED
    BY <1>2, <2>1, <2>2
<1>5. nsp' \in [Servers -> {Idle} \cup Busy]
  BY <1>2, <1>4
<1> QED
  BY <1>1, <1>2, <1>4, <1>5 DEF Others

\* The first array: the single entry of the map is copied into it.
LEMMA ConvertedFits ==
  ASSUME NEW k \in [Clients -> Nat], MapTypes, Holds(k), s_array = <<>>, s_onesite.s_count > 0,
         NEW m, m.site \in Clients, m.value \in Int, m.value > 0, k[m.site] = 0,
         NEW arrays, arrays = Converted
  PROVE  Fits(k, arrays, 2, 1, 2, m)
<1>1. s_onesite \in SiteEntry /\ s_onesite.s_site \in Clients /\ s_onesite.s_count \in Nat
  BY DEF MapTypes, SiteEntry
<1>2. \A c \in Clients : k[c] = IF s_onesite.s_site = c THEN s_onesite.s_count ELSE 0
  BY DEF Holds
<1>3. 1 \in Slots /\ 2 \in Slots /\ Slots \subseteq Nat
  BY SitemapAssumption DEF Slots
<1>4. Empty \in SiteEntry /\ Empty.s_count = 0
  BY SitemapAssumption DEF Empty, SiteEntry
<1>5. PICK a \in [Slots -> SiteEntry] :
         /\ arrays = <<a>> /\ a[1] = s_onesite /\ \A j \in Slots \ {1} : a[j] = Empty
  <2>1. [NewArray EXCEPT ![1] = s_onesite] = [j \in Slots |-> IF j = 1 THEN s_onesite ELSE Empty]
    BY <1>3 DEF NewArray
  <2>2. PICK a : a = [j \in Slots |-> IF j = 1 THEN s_onesite ELSE Empty]
    OBVIOUS
  <2>3. arrays = <<a>>
    BY <2>1, <2>2 DEF Converted
  <2> QED
    BY <1>1, <1>3, <1>4, <2>2, <2>3
<1>6. arrays \in Seq([Slots -> SiteEntry]) /\ Len(arrays) = 1 /\ arrays[1] = a
  BY <1>5
<1>7. ArraysHold(arrays, k)
  <2>1. \A i \in 1..Len(arrays), j \in Slots :
           /\ arrays[i][j] = a[j] /\ i = 1
           /\ arrays[i][j].s_count # 0 => j = 1 /\ arrays[i][j] = s_onesite
    BY <1>4, <1>5, <1>6
  <2>2. \A c \in Clients : k[c] # 0 => c = s_onesite.s_site
    BY <1>2
  <2>3. 1 \in 1..Len(arrays) /\ arrays[1][1] = s_onesite
    BY <1>5, <1>6
  <2> QED
    BY <1>1, <1>2, <1>3, <2>1, <2>2, <2>3 DEF ArraysHold
<1>8. Cardinality(Used(k) \cup {m.site}) = 2
  <2>1. Used(k) = {s_onesite.s_site}
    BY <1>1, <1>2 DEF Used
  <2>2. Cardinality(Used(k)) = 1
    BY <2>1, FS_Singleton
  <2>3. Cardinality(Used(k) \cup {m.site}) = Cardinality(Used(k)) + 1
    BY NewSite
  <2> QED
    BY <2>2, <2>3
<1>9. arrays[1][2].s_count = 0
  BY <1>3, <1>4, <1>5, <1>6
<1> QED
  BY <1>3, <1>6, <1>7, <1>8, <1>9 DEF Fits

\* One more array, in front of the others.
LEMMA PrependedFits ==
  ASSUME NEW k \in [Clients -> Nat], MapTypes, Holds(k), s_array # <<>>,
         NEW m, m.site \in Clients, m.value \in Int, m.value > 0, k[m.site] = 0,
         NEW arrays, arrays = Prepended,
         NEW total, total = Cardinality(Used(k)) + 1
  PROVE  Fits(k, arrays, total, 1, 1, m)
<1>1. PICK old \in Seq([Slots -> SiteEntry]) : old = s_array
  BY DEF MapTypes
<1>2. ArraysHold(old, k) /\ Len(old) \in Nat
  BY <1>1 DEF Holds
<1>3. 1 \in Slots
  BY SitemapAssumption DEF Slots
<1>4. Empty \in SiteEntry /\ Empty.s_count = 0
  BY SitemapAssumption DEF Empty, SiteEntry
<1>5. PICK a \in [Slots -> SiteEntry] : a = NewArray /\ \A j \in Slots : a[j] = Empty
  <2>1. NewArray \in [Slots -> SiteEntry] /\ \A j \in Slots : NewArray[j] = Empty
    BY <1>4 DEF NewArray
  <2> HIDE DEF NewArray
  <2> QED
    BY <2>1, Zenon
<1>6. arrays = <<a>> \o old
  BY <1>1, <1>5 DEF Prepended
<1>7. /\ arrays \in Seq([Slots -> SiteEntry]) /\ Len(arrays) = Len(old) + 1 /\ arrays[1] = a
      /\ \A i \in 1..Len(old) : arrays[i + 1] = old[i]
  BY <1>6
<1>8. ASSUME NEW i \in 1..Len(arrays), NEW j \in Slots, arrays[i][j].s_count # 0
      PROVE  i - 1 \in 1..Len(old) /\ arrays[i] = old[i - 1]
  <2>1. i # 1
    BY <1>4, <1>5, <1>7, <1>8
  <2>2. i - 1 \in 1..Len(old) /\ (i - 1) + 1 = i
    BY <1>2, <1>7, <2>1
  <2> QED
    BY <1>7, <2>2
<1>8a. /\ \A i \in 1..Len(old), j \in Slots :
            old[i][j].s_count # 0 => k[old[i][j].s_site] = old[i][j].s_count
       /\ \A i1, i2 \in 1..Len(old), j1, j2 \in Slots :
            /\ old[i1][j1].s_count # 0 /\ old[i2][j2].s_count # 0
            /\ old[i1][j1].s_site = old[i2][j2].s_site
            => i1 = i2 /\ j1 = j2
  BY <1>2 DEF ArraysHold
<1>9. ArraysHold(arrays, k)
  <2>1. ASSUME NEW i \in 1..Len(arrays), NEW j \in Slots, arrays[i][j].s_count # 0
        PROVE  k[arrays[i][j].s_site] = arrays[i][j].s_count
    <3>1. PICK h \in 1..Len(old) : arrays[i] = old[h]
      BY <1>8, <2>1
    <3>2. k[old[h][j].s_site] = old[h][j].s_count
      <4>1. old[h][j].s_count # 0
        BY <2>1, <3>1
      <4> QED
        BY <1>8a, <4>1
    <3> QED
      BY <3>1, <3>2
  <2>2. ASSUME NEW c \in Clients, k[c] # 0
        PROVE  \E i \in 1..Len(arrays), j \in Slots :
                  arrays[i][j].s_count # 0 /\ arrays[i][j].s_site = c
    <3>1. PICK i \in 1..Len(old), j \in Slots : old[i][j].s_count # 0 /\ old[i][j].s_site = c
      BY <1>2, <2>2 DEF ArraysHold
    <3>2. i + 1 \in 1..Len(arrays) /\ arrays[i + 1] = old[i]
      <4>1. arrays[i + 1] = old[i]
        BY <1>7
      <4>2. PICK l \in Nat : l = Len(old) /\ Len(arrays) = l + 1
        BY <1>2, <1>7
      <4> QED
        BY <4>1, <4>2
    <3> QED
      BY <3>1, <3>2
  <2>3. ASSUME NEW i1 \in 1..Len(arrays), NEW i2 \in 1..Len(arrays), NEW j1 \in Slots, NEW j2 \in Slots,
               arrays[i1][j1].s_count # 0, arrays[i2][j2].s_count # 0,
               arrays[i1][j1].s_site = arrays[i2][j2].s_site
        PROVE  i1 = i2 /\ j1 = j2
    <3>1. /\ i1 - 1 \in 1..Len(old) /\ arrays[i1] = old[i1 - 1]
          /\ i2 - 1 \in 1..Len(old) /\ arrays[i2] = old[i2 - 1]
      BY <1>8, <2>3
    <3>2. PICK h1 \in 1..Len(old), h2 \in 1..Len(old) :
             h1 = i1 - 1 /\ h2 = i2 - 1 /\ arrays[i1] = old[h1] /\ arrays[i2] = old[h2]
      BY <3>1
    <3>3. h1 = h2 /\ j1 = j2
      <4>1. /\ old[h1][j1].s_count # 0 /\ old[h2][j2].s_count # 0
            /\ old[h1][j1].s_site = old[h2][j2].s_site
        BY <2>3, <3>2
      <4> QED
        BY <1>8a, <4>1
    <3> QED
      BY <3>2, <3>3
  <2> QED
    BY <2>1, <2>2, <2>3 DEF ArraysHold
<1>10. total = Cardinality(Used(k) \cup {m.site})
  BY NewSite
<1>11. arrays[1][1].s_count = 0 /\ 1 \in 1..Len(arrays)
  BY <1>2, <1>3, <1>4, <1>5, <1>7
<1>12. k[m.site] + m.value >= 0
  OBVIOUS
<1> QED
  BY <1>3, <1>7, <1>9, <1>10, <1>11, <1>12 DEF Fits

\* kmem_alloc() returns: the array is put into the map, which is unlocked.
LEMMA KmemAllocInv ==
  ASSUME SitemapInv, NEW p \in Servers, kmem_alloc(p)
  PROVE  SitemapInv'
<1>1. PICK m : m = nsp[p].msg
  OBVIOUS
<1>2. /\ panicked = {} /\ nsp[p].pc \in Allocating /\ Answer(m)
      /\ nsp' = [Woken(p) EXCEPT ![p] = Idle]
      /\ UNCHANGED <<dcount, msgs, refs>>
      /\ nsp[p].pc = "second" => InArray(Converted, 2, <<1, 2>>, m)
      /\ nsp[p].pc # "second" => InArray(Prepended, s_count, <<1, 1>>, m)
  BY <1>1 DEF kmem_alloc, Allocating
<1>3. PICK k \in [Clients -> Nat] : Holds(k) /\ Shape(k) /\ Level(k)
  BY <1>2 DEF SitemapInv
<1>4. Types /\ MapTypes /\ nsp \in [Servers -> {Idle} \cup Busy]
  BY DEF SitemapInv, Types
<1>5. Allocates(p, k) /\ \A q \in Servers \ {p} : nsp[q].pc \notin Allocating
  <2>1. Locked
    BY <1>2, <1>3 DEF Shape
  <2> QED
    BY <2>1, <1>2, <1>3 DEF Shape
<1>6. /\ nsp' \in [Servers -> {Idle} \cup Busy] /\ Others(p, nsp, nsp') /\ nsp'[p] = Idle
      /\ \A q \in Servers : nsp'[q].pc \notin Allocating
  BY <1>2, <1>4, <1>5, WokenFacts
<1>7. Serves(p, m, k)
  <2>1. nsp[p] # Idle
    BY <1>2 DEF Idle, Allocating
  <2> QED
    BY <1>1, <1>2, <1>3, <1>6, <2>1 DEF Serves, From
<1>8. m.site \in Clients /\ m.value \in Int
  BY <1>7, ServedTotals, SitemapAssumption
<1>9. m.value > 0 /\ k[m.site] = 0
  BY <1>1, <1>5 DEF Allocates
<1>10. MapUpdated(k, m)
  <2>1. CASE nsp[p].pc = "second"
    <3>1. PICK arrays : arrays = Converted
      OBVIOUS
    <3>2. InArray(arrays, 2, <<1, 2>>, m)
      BY <1>2, <2>1, <3>1
    <3>3. s_array = <<>> /\ s_onesite.s_count > 0
      BY <1>5, <2>1 DEF Allocates
    <3>4. Fits(k, arrays, 2, 1, 2, m)
      BY <1>3, <1>4, <1>8, <1>9, <3>1, <3>3, ConvertedFits
    <3> QED
      BY <1>6, <3>2, <3>4, InArrayMap
  <2>2. CASE nsp[p].pc # "second"
    <3>1. PICK arrays, total : arrays = Prepended /\ total = s_count
      OBVIOUS
    <3>2. InArray(arrays, total, <<1, 1>>, m)
      BY <1>2, <2>2, <3>1
    <3>3. s_array # <<>> /\ total = Cardinality(Used(k)) + 1
      BY <1>2, <1>5, <2>2, <3>1 DEF Allocates, Allocating
    <3>4. Fits(k, arrays, total, 1, 1, m)
      BY <1>3, <1>4, <1>8, <1>9, <3>1, <3>3, PrependedFits
    <3> QED
      BY <1>6, <3>2, <3>4, InArrayMap
  <2> QED
    BY <2>1, <2>2
<1> QED
  BY <1>2, <1>6, <1>7, <1>10, DoneInv DEF MapUpdated

-----------------------------------------------------------------------------
(* The specification.                                                      *)

\* Nothing is under way.
LEMMA TotalNone ==
  ASSUME NEW w \in [Message -> Int], NEW B, IsBag(B), NEW N \in [Servers -> {Idle} \cup Busy],
         \A m \in Msg : ~IsIn(m, B, N)
  PROVE  TotalOf(w, B, N) = 0
<1>1. PICK z \in [Message -> Int] : \A m \in Message : z[m] = 0
  <2>1. [m \in Message |-> 0] \in [Message -> Int] /\ \A m \in Message : [x \in Message |-> 0][m] = 0
    OBVIOUS
  <2> QED
    BY <2>1, Zenon
<1>2. PICK u \in [Message -> Int], v \in [Message -> Int] :
         u = z /\ v = z /\ \A m \in Message : z[m] = u[m] + v[m]
  <2>1. \A m \in Message : z[m] = z[m] + z[m]
    BY <1>1
  <2> QED
    BY <2>1, Zenon
<1>3. TotalOf(z, B, N) = TotalOf(z, B, N) + TotalOf(z, B, N)
  <2>1. \A m \in Message : z[m] = u[m] + v[m]
    BY <1>2
  <2>2. TotalOf(z, B, N) = TotalOf(u, B, N) + TotalOf(v, B, N)
    BY <2>1, TotalAdd
  <2> QED
    BY <1>2, <2>2
<1>4. TotalOf(z, B, N) <= TotalOf(w, B, N) /\ TotalOf(w, B, N) <= TotalOf(z, B, N)
  BY TotalLe
<1>5. TotalOf(z, B, N) \in Int /\ TotalOf(w, B, N) \in Int
  BY TotalInt
<1>6. PICK s \in Int, t \in Int : s = TotalOf(z, B, N) /\ t = TotalOf(w, B, N)
  BY <1>5, Zenon
<1>7. s = s + s /\ s <= t /\ t <= s
  BY <1>3, <1>4, <1>6
<1>8. t = 0
  BY <1>7
<1> QED
  BY <1>6, <1>8

\* The invariant holds at the start.
LEMMA InitInv ==
  ASSUME Init
  PROVE  SitemapInv
<1>1. Empty \in SiteEntry /\ Empty.s_count = 0
  BY SitemapAssumption DEF Empty, SiteEntry
<1>2. IsBag(msgs) /\ DOMAIN msgs = {}
  <2>1. msgs = [e \in {} |-> 1]
    BY DEF Init, EmptyBag, SetToBag
  <2>2. DOMAIN msgs = {} /\ msgs \in [DOMAIN msgs -> Nat \ {0}]
    BY <2>1
  <2> QED
    BY <2>2, FS_EmptySet DEF IsBag
<1>3. nsp = [p \in Servers |-> Idle] /\ nsp \in [Servers -> {Idle} \cup Busy]
  BY DEF Init
<1>4. MapTypes
  BY <1>1 DEF Init, MapTypes
<1>5. Types
  <2>1. refs \in 0..MaxRefs
    BY SitemapAssumption DEF Init
  <2> QED
    BY <1>2, <1>3, <1>4, <2>1 DEF Init, Types
<1>6. ASSUME NEW w \in [Message -> Int] PROVE Total(w) = 0
  <2>1. \A m \in Msg : ~IsIn(m, msgs, nsp)
    BY <1>2, <1>3 DEF IsIn
  <2>2. TotalOf(w, msgs, nsp) = 0
    BY <1>2, <1>3, <2>1, TotalNone
  <2> QED
    BY <2>2, TotalIs
<1>7. ASSUME NEW c \in Clients
      PROVE  /\ Total(Values(c)) = 0 /\ Total(IsLookup(c)) = 0 /\ Total(Additions(c)) = 0
             /\ dcount[c].d_rcount = 0 /\ dcount[c].d_vcount = 0
             /\ replies[c] = 0 /\ adding[c] = 0
  BY <1>6, Weights DEF Init
<1>8. Doubles
  BY <1>7 DEF Doubles
<1>9. Decrements
  BY DEF Init, Decrements
<1>10. PICK k \in [Clients -> Nat] : \A c \in Clients : k[c] = 0
  <2>1. [c \in Clients |-> 0] \in [Clients -> Nat] /\ \A c \in Clients : [x \in Clients |-> 0][c] = 0
    OBVIOUS
  <2> QED
    BY <2>1, Zenon
<1>11. s_maptype = "S_MAPEMPTY" /\ s_array = <<>> /\ s_onesite = Empty /\ s_count = 0
  BY DEF Init
<1>12. Holds(k)
  BY <1>1, <1>10, <1>11 DEF Holds
<1>13. Shape(k)
  <2>1. Idle.pc \notin Allocating
    BY DEF Idle, Allocating
  <2> QED
    BY <1>1, <1>3, <1>11, <2>1 DEF Shape, Locked
<1>14. Level(k)
  BY <1>7, <1>10 DEF Level, Pending, Lookups
<1> QED
  BY <1>5, <1>8, <1>9, <1>12, <1>13, <1>14 DEF SitemapInv

\* Nothing changes.
LEMMA StutterInv ==
  ASSUME SitemapInv, UNCHANGED vars
  PROVE  SitemapInv'
<1>1. /\ UNCHANGED <<s_maptype, s_count, s_onesite, s_array>>
      /\ UNCHANGED <<nsp, dcount, msgs, replies, adding, refs, panicked>>
  BY DEF vars, map
<1>2. \A w : Total(w)' = Total(w)
  BY <1>1 DEF Total
<1>3. Types'
  BY <1>1 DEF SitemapInv, Types, MapTypes
<1>4. Doubles'
  BY <1>1, <1>2 DEF SitemapInv, Doubles
<1>5. Decrements'
  BY <1>1 DEF SitemapInv, Decrements, Underway
<1>6. PICK k \in [Clients -> Nat] : Holds(k) /\ Shape(k) /\ (panicked = {} => Level(k))
  BY DEF SitemapInv
<1>7. Holds(k)' /\ Shape(k)'
  BY <1>1, <1>6 DEF Holds, Shape, Locked, Allocates
<1>8. panicked' = {} => Level(k)'
  BY <1>1, <1>2, <1>6 DEF Level, Pending, Lookups
<1> QED
  BY <1>3, <1>4, <1>5, <1>7, <1>8 DEF SitemapInv

\* Every step keeps the invariant.
LEMMA NextInv ==
  ASSUME SitemapInv, [Next]_vars
  PROVE  SitemapInv'
<1>1. ASSUME NEW p \in Servers, serve(p) \/ resume(p) \/ kmem_alloc(p) PROVE SitemapInv'
  BY <1>1, ServeInv, ResumeInv, KmemAllocInv
<1>2. ASSUME NEW c \in Clients,
             lookup(c) \/ lookup_reply(c) \/ lookup_fails(c) \/ hold(c) \/ release(c)
      PROVE  SitemapInv'
  BY <1>2, LookupInv, LookupFailsInv, UpdatesInv
<1> QED
  BY <1>1, <1>2, StutterInv DEF Next

\* SitemapInv is an invariant of the specification.
THEOREM SitemapInvariant == Spec => []SitemapInv
BY InitInv, NextInv, PTL DEF Spec

\* The map, the requests and the double counts keep their types; the panic of
\* updatedcount(), "count less than 0", does not happen.
THEOREM MapIsTyped == Spec => []TypeOK
BY SitemapInvariant, InvImplies, PTL

\* What the server counts for a site, with what is under way, is what the site
\* takes it to count.
THEOREM CountsBalance == Spec => []Balanced
BY SitemapInvariant, InvImplies, PTL

\* A site has one entry at most, s_count is the number of the entries, and the
\* map is locked exactly while an array is being allocated.
THEOREM TotalsAreExact == Spec => []TotalExact
BY SitemapInvariant, InvImplies, PTL

\* The server knows of every site that uses the file and does not still tell it.
THEOREM UsersAreKnown == Spec => []KnownInUse
BY SitemapInvariant, InvImplies, PTL

\* A decrement that makes the server panic has overtaken an addition made at the
\* limit CHECKVCOUNT.
THEOREM DecrementsAreCounted == Spec => []Decrements
BY SitemapInvariant, InvImplies, PTL
=============================================================================
