--------------------------- MODULE ContentProofs ----------------------------
(***************************************************************************)
(* What the site gives its visitors, proved for every value of the         *)
(* constants: WapInv of the WAP gateway, LookInv of the site's looks,      *)
(* EditsKept, AuthorConfined and ShownAsSaved of the entries, and          *)
(* BrowsersInv of the epochs browsers are told apart by.                   *)
(*                                                                         *)
(* The limit of the gateway needs an invariant about histories: a source's *)
(* grants before its window, inside it and, when it has lost its slot, up  *)
(* to the clock.  It is stated on a sequence g of times, an entry e of the *)
(* table and a clock c, so that the counting lemmas know nothing of the    *)
(* state.                                                                  *)
(***************************************************************************)
EXTENDS Wap, Appearance, Entries, Browsers, FiniteSetTheorems, SequenceTheorems, WellFoundedInduction, TLAPS

\* The grants of g from a to b.
Within(g, a, b) == {i \in DOMAIN g : g[i] \in a .. b}

\* Nothing of g is later than c.
NotAfter(g, c) == \A k \in DOMAIN g : g[k] <= c

\* The source has an entry: what was granted in its window it counts, and the
\* Window ticks before it had a window's worth.
FairEntry(g, e, c) ==
    /\ \A k \in DOMAIN g : g[k] < e.start + Window
    /\ Cardinality(Within(g, e.start, c)) <= e.count
    /\ Cardinality(Within(g, e.start, c)) <= RateLimit
    /\ \A t \in 1 .. c : t + Window > e.start => Cardinality(Within(g, t, e.start - 1)) <= RateLimit

\* The source has none: its last window is over.
FairAway(g, c) ==
    /\ \A k \in DOMAIN g : g[k] < c
    /\ \A t \in 1 .. c : t + Window > c => Cardinality(Within(g, t, c)) <= RateLimit

FairPast(g, c) == \A t \in 1 .. c : Cardinality(Within(g, t, t + Window - 1)) <= 2 * RateLimit

RateEntry == [ip : Phones \cup {NoSource}, start : Nat, count : Nat]

RateType ==
    /\ clock \in Nat \ {0}
    /\ rate \in [1 .. TableSize -> RateEntry]
    /\ \A i \in 1 .. TableSize : rate[i].start <= clock
    /\ \A i, j \in 1 .. TableSize : rate[i].ip = rate[j].ip => i = j \/ rate[i].ip = NoSource
    /\ granted \in [Phones -> Seq(Nat)]
    /\ \A s \in Phones : NotAfter(granted[s], clock)

Fair ==
    RateLimit > 0 =>
        \A s \in Phones \ crowded :
            /\ \A i \in 1 .. TableSize : rate[i].ip = s => FairEntry(granted[s], rate[i], clock)
            /\ (\A i \in 1 .. TableSize : rate[i].ip # s) => FairAway(granted[s], clock)
            /\ FairPast(granted[s], clock)

\* The thread: a form has not gone upstream before the first hop, and the
\* sockets close behind it.
GatewayInv ==
    /\ received \in 0 .. MaxReceived
    /\ gw = [pc |-> gw.pc, dg |-> gw.dg, hop |-> gw.hop, at |-> gw.at, posted |-> gw.posted]
    /\ gw.pc \in {"poll", "fetch", "ended"} /\ gw.dg \in Datagram \cup {NoDatagram}
    /\ gw.hop \in 0 .. MaxRedirects + 1 /\ gw.posted \in {0, 1}
    /\ gw.hop = 0 => gw.posted = 0
    /\ gw.posted = 1 => gw.dg.kind = "post"
    /\ LandingShown
    /\ SocketsOutlive

WapIInv == RateType /\ Fair /\ GatewayInv

-----------------------------------------------------------------------------
(* Counting.                                                               *)

LEMMA WithinFinite ==
  ASSUME NEW g \in Seq(Nat), NEW a \in Int, NEW b \in Int
  PROVE  /\ IsFiniteSet(Within(g, a, b))
         /\ Cardinality(Within(g, a, b)) \in Nat
  <1>1. DOMAIN g = 1 .. Len(g) /\ Len(g) \in Nat
    OBVIOUS
  <1>2. IsFiniteSet(1 .. Len(g))
    BY <1>1, FS_Interval
  <1>3. Within(g, a, b) \subseteq 1 .. Len(g)
    BY <1>1 DEF Within
  <1> QED
    BY <1>2, <1>3, FS_Subset, FS_CardinalityType

\* A part of a window holds no more than the window.
LEMMA WithinPart ==
  ASSUME NEW g \in Seq(Nat), NEW a \in Int, NEW b \in Int, NEW u \in Int, NEW v \in Int,
         \A k \in DOMAIN g : g[k] \in a .. b => g[k] \in u .. v
  PROVE  Cardinality(Within(g, a, b)) <= Cardinality(Within(g, u, v))
  <1>1. Within(g, a, b) \subseteq Within(g, u, v)
    BY DEF Within
  <1> QED
    BY <1>1, WithinFinite, FS_Subset

LEMMA WithinNone ==
  ASSUME NEW g \in Seq(Nat), NEW a \in Int, NEW b \in Int,
         \A k \in DOMAIN g : g[k] \notin a .. b
  PROVE  Cardinality(Within(g, a, b)) = 0
  <1>1. Within(g, a, b) = {}
    BY DEF Within
  <1> QED
    BY <1>1, FS_EmptySet

\* Two windows hold no more than the sum.
LEMMA WithinSum ==
  ASSUME NEW g \in Seq(Nat), NEW a \in Int, NEW b \in Int, NEW m \in Int, NEW c \in Int,
         \A k \in DOMAIN g : g[k] \in a .. b => g[k] \in a .. m - 1 \/ g[k] \in m .. c
  PROVE  Cardinality(Within(g, a, b))
            <= Cardinality(Within(g, a, m - 1)) + Cardinality(Within(g, m, c))
  <1> DEFINE S == Within(g, a, m - 1)
             T == Within(g, m, c)
  <1>1. Within(g, a, b) \subseteq S \cup T
    BY DEF Within
  <1>2. IsFiniteSet(S) /\ IsFiniteSet(T) /\ Cardinality(S) \in Nat /\ Cardinality(T) \in Nat
    BY WithinFinite
  <1> HIDE DEF S, T
  <1>3. IsFiniteSet(S \cup T) /\ Cardinality(S \cup T) <= Cardinality(S) + Cardinality(T)
    <2>1. /\ IsFiniteSet(S \cup T)
          /\ Cardinality(S \cup T) = Cardinality(S) + Cardinality(T) - Cardinality(S \cap T)
      BY <1>2, FS_Union
    <2>2. Cardinality(S \cap T) \in Nat
      BY <1>2, FS_Subset, FS_CardinalityType
    <2> QED
      BY <1>2, <2>1, <2>2
  <1>4. Cardinality(Within(g, a, b)) <= Cardinality(S \cup T)
    BY <1>1, <1>3, FS_Subset
  <1>5. Cardinality(Within(g, a, b)) \in Nat /\ Cardinality(S \cup T) \in Nat
    BY <1>3, WithinFinite, FS_CardinalityType
  <1>6. Cardinality(Within(g, a, b)) <= Cardinality(S) + Cardinality(T)
    BY <1>2, <1>3, <1>4, <1>5
  <1> QED
    BY <1>6 DEF S, T

\* What one more grant changes.
LEMMA WithinAppend ==
  ASSUME NEW g \in Seq(Nat), NEW c \in Nat, NEW a \in Int, NEW b \in Int
  PROVE  /\ c \notin a .. b => Within(Append(g, c), a, b) = Within(g, a, b)
         /\ Cardinality(Within(Append(g, c), a, b)) <= Cardinality(Within(g, a, b)) + 1
  <1> DEFINE h == Append(g, c)
             n == Len(g) + 1
  <1>1. /\ h \in Seq(Nat) /\ DOMAIN h = DOMAIN g \cup {n} /\ h[n] = c /\ n \notin DOMAIN g
        /\ \A k \in DOMAIN g : h[k] = g[k]
    <2>1. h \in Seq(Nat) /\ Len(h) = n /\ h[n] = c /\ \A k \in 1 .. Len(g) : h[k] = g[k]
      BY AppendProperties
    <2>2. DOMAIN h = 1 .. n /\ DOMAIN g = 1 .. Len(g) /\ Len(g) \in Nat
      BY <2>1
    <2> QED
      BY <2>1, <2>2
  <1> HIDE DEF h, n
  <1>2. ASSUME c \notin a .. b PROVE Within(h, a, b) = Within(g, a, b)
    BY <1>1, <1>2 DEF Within
  <1>3. Within(h, a, b) \subseteq Within(g, a, b) \cup {n}
    BY <1>1 DEF Within
  <1>4. n \notin Within(g, a, b)
    BY <1>1 DEF Within
  <1>5. IsFiniteSet(Within(g, a, b)) /\ Cardinality(Within(g, a, b)) \in Nat /\ Cardinality(Within(h, a, b)) \in Nat
    BY <1>1, WithinFinite
  <1>6. /\ IsFiniteSet(Within(g, a, b) \cup {n})
        /\ Cardinality(Within(g, a, b) \cup {n}) = Cardinality(Within(g, a, b)) + 1
    BY <1>4, <1>5, FS_AddElement
  <1>7. Cardinality(Within(h, a, b)) <= Cardinality(Within(g, a, b) \cup {n})
    BY <1>3, <1>6, FS_Subset
  <1> QED
    BY <1>2, <1>5, <1>6, <1>7 DEF h

LEMMA AppendAfter ==
  ASSUME NEW g \in Seq(Nat), NEW c \in Nat
  PROVE  /\ Append(g, c) \in Seq(Nat)
         /\ \A k \in DOMAIN Append(g, c) : Append(g, c)[k] = c \/ \E j \in DOMAIN g : Append(g, c)[k] = g[j]
  <1>1. Append(g, c) \in Seq(Nat) /\ Len(Append(g, c)) = Len(g) + 1 /\ Append(g, c)[Len(g) + 1] = c
        /\ \A k \in 1 .. Len(g) : Append(g, c)[k] = g[k]
    BY AppendProperties
  <1>2. DOMAIN Append(g, c) = 1 .. (Len(g) + 1) /\ DOMAIN g = 1 .. Len(g) /\ Len(g) \in Nat
    BY <1>1
  <1> QED
    BY <1>1, <1>2
-----------------------------------------------------------------------------
(* One source's grants, through what rate_allow() and the clock do.        *)

\* A window that is over may be forgotten.
LEMMA ForgetEntry ==
  ASSUME NEW g \in Seq(Nat), NEW e \in RateEntry, NEW c \in Nat,
         FairEntry(g, e, c), c - e.start >= Window
  PROVE  FairAway(g, c)
  <1>1. e.start \in Nat /\ Window \in Nat
    BY WapAssumption DEF RateEntry
  <1>2. \A k \in DOMAIN g : g[k] < c
    BY <1>1 DEF FairEntry
  <1>3. ASSUME NEW t \in 1 .. c, t + Window > c
        PROVE  Cardinality(Within(g, t, c)) <= RateLimit
    <2>1. Cardinality(Within(g, t, c)) <= Cardinality(Within(g, e.start, c))
      <3>1. t \in Int /\ c \in Int /\ e.start \in Int /\ e.start <= t
        BY <1>1, <1>3
      <3>2. \A k \in DOMAIN g : g[k] \in t .. c => g[k] \in e.start .. c
        BY <3>1
      <3> QED
        BY <3>1, <3>2, WithinPart
    <2>2. Cardinality(Within(g, t, c)) \in Nat /\ Cardinality(Within(g, e.start, c)) \in Nat
      BY <1>1, WithinFinite
    <2> QED
      BY <2>1, <2>2, WapAssumption DEF FairEntry
  <1> QED
    BY <1>2, <1>3 DEF FairAway

\* A first request of a window.
LEMMA BeginEntry ==
  ASSUME NEW g \in Seq(Nat), NEW e \in RateEntry, NEW c \in Nat \ {0},
         FairAway(g, c), e.start = c, e.count = 1, RateLimit > 0
  PROVE  FairEntry(Append(g, c), e, c)
  <1> DEFINE h == Append(g, c)
  <1>1. h \in Seq(Nat) /\ \A k \in DOMAIN h : h[k] = c \/ \E j \in DOMAIN g : h[k] = g[j]
    BY AppendAfter
  <1>2. \A k \in DOMAIN h : h[k] < e.start + Window
    BY <1>1, WapAssumption DEF FairAway
  <1>3. Cardinality(Within(g, c, c)) = 0
    <2>1. \A k \in DOMAIN g : g[k] \notin c .. c
      BY DEF FairAway
    <2> QED
      BY <2>1, WithinNone
  <1>4. Cardinality(Within(h, c, c)) <= 1
    <2>1. Cardinality(Within(h, c, c)) <= Cardinality(Within(g, c, c)) + 1
      BY WithinAppend
    <2> QED
      BY <1>3, <2>1
  <1>5. Cardinality(Within(h, c, c)) \in Nat
    <2> HIDE DEF h
    <2> QED
      BY <1>1, WithinFinite
  <1>6. ASSUME NEW t \in 1 .. c, t + Window > c
        PROVE  Cardinality(Within(h, t, c - 1)) <= RateLimit
    <2>1. Within(h, t, c - 1) = Within(g, t, c - 1)
      BY WithinAppend
    <2>2. Cardinality(Within(g, t, c - 1)) <= Cardinality(Within(g, t, c))
      <3>1. \A k \in DOMAIN g : g[k] \in t .. c - 1 => g[k] \in t .. c
        OBVIOUS
      <3> QED
        BY <3>1, WithinPart
    <2>3. Cardinality(Within(g, t, c - 1)) \in Nat /\ Cardinality(Within(g, t, c)) \in Nat
      BY WithinFinite
    <2> QED
      BY <1>6, <2>1, <2>2, <2>3, WapAssumption DEF FairAway
  <1> HIDE DEF h
  <1>7. FairEntry(h, e, c)
    BY <1>2, <1>4, <1>5, <1>6, WapAssumption DEF FairEntry
  <1> QED
    BY <1>7 DEF h

\* A later one that is let through.
LEMMA CountEntry ==
  ASSUME NEW g \in Seq(Nat), NEW e \in RateEntry, NEW f \in RateEntry, NEW c \in Nat \ {0},
         FairEntry(g, e, c), e.start <= c, c - e.start < Window,
         f.start = e.start, f.count = e.count + 1, f.count <= RateLimit
  PROVE  FairEntry(Append(g, c), f, c)
  <1> DEFINE h == Append(g, c)
  <1>0. e.start \in Nat /\ e.count \in Nat /\ Window \in Nat /\ RateLimit \in Nat
    BY WapAssumption DEF RateEntry
  <1>1. h \in Seq(Nat) /\ \A k \in DOMAIN h : h[k] = c \/ \E j \in DOMAIN g : h[k] = g[j]
    BY AppendAfter
  <1>2. \A k \in DOMAIN h : h[k] < f.start + Window
    BY <1>0, <1>1 DEF FairEntry
  <1>3. Cardinality(Within(h, e.start, c)) <= e.count + 1
    <2>1. Cardinality(Within(h, e.start, c)) <= Cardinality(Within(g, e.start, c)) + 1
      BY <1>0, WithinAppend
    <2>2. Cardinality(Within(g, e.start, c)) \in Nat
      BY <1>0, WithinFinite
    <2> HIDE DEF h
    <2>3. Cardinality(Within(h, e.start, c)) \in Nat
      BY <1>0, <1>1, WithinFinite
    <2> QED
      BY <1>0, <2>1, <2>2, <2>3 DEF FairEntry
  <1>4. Cardinality(Within(h, e.start, c)) \in Nat
    <2> HIDE DEF h
    <2> QED
      BY <1>0, <1>1, WithinFinite
  <1>5. ASSUME NEW t \in 1 .. c, t + Window > e.start
        PROVE  Cardinality(Within(h, t, e.start - 1)) <= RateLimit
    <2>1. c \notin t .. e.start - 1
      BY <1>0
    <2>2. Within(h, t, e.start - 1) = Within(g, t, e.start - 1)
      BY <1>0, <2>1, WithinAppend
    <2> QED
      BY <1>5, <2>2 DEF FairEntry
  <1> HIDE DEF h
  <1>6. FairEntry(h, f, c)
    BY <1>0, <1>2, <1>3, <1>4, <1>5 DEF FairEntry
  <1> QED
    BY <1>6 DEF h

\* A later one that is not: the count goes up alone.
LEMMA RefuseEntry ==
  ASSUME NEW g \in Seq(Nat), NEW e \in RateEntry, NEW f \in RateEntry, NEW c \in Nat \ {0},
         FairEntry(g, e, c), f.start = e.start, f.count = e.count + 1
  PROVE  FairEntry(g, f, c)
  <1>1. e.start \in Nat /\ e.count \in Nat
    BY DEF RateEntry
  <1>2. Cardinality(Within(g, e.start, c)) \in Nat
    BY <1>1, WithinFinite
  <1> QED
    BY <1>1, <1>2 DEF FairEntry

\* Any window is the end of one and the start of the next.
LEMMA PastAppend ==
  ASSUME NEW g \in Seq(Nat), NEW e \in RateEntry, NEW c \in Nat \ {0},
         FairPast(g, c), FairEntry(Append(g, c), e, c), e.start <= c, NotAfter(g, c)
  PROVE  FairPast(Append(g, c), c)
  <1> DEFINE h == Append(g, c)
  <1>0. e.start \in Nat /\ e.count \in Nat /\ Window \in Nat /\ RateLimit \in Nat
    BY WapAssumption DEF RateEntry
  <1>1. h \in Seq(Nat) /\ \A k \in DOMAIN h : h[k] = c \/ \E j \in DOMAIN g : h[k] = g[j]
    BY AppendAfter
  <1>2. \A k \in DOMAIN h : h[k] <= c /\ h[k] \in Nat
    BY <1>1 DEF NotAfter
  <1>3. ASSUME NEW t \in 1 .. c
        PROVE  Cardinality(Within(h, t, t + Window - 1)) <= 2 * RateLimit
    <2>1. CASE t + Window <= c
      <3>1. c \notin t .. t + Window - 1
        BY <1>0, <2>1
      <3>2. Within(h, t, t + Window - 1) = Within(g, t, t + Window - 1)
        BY <1>0, <3>1, WithinAppend
      <3> QED
        BY <3>2 DEF FairPast
    <2>2. CASE t + Window > c
      <3>1. t \in Int /\ t + Window - 1 \in Int /\ e.start \in Int /\ c \in Int
        BY <1>0
      <3>2. \A k \in DOMAIN h : h[k] \in t .. t + Window - 1 => h[k] \in t .. e.start - 1 \/ h[k] \in e.start .. c
        BY <1>0, <1>2
      <3> HIDE DEF h
      <3>3. Cardinality(Within(h, t, t + Window - 1))
              <= Cardinality(Within(h, t, e.start - 1)) + Cardinality(Within(h, e.start, c))
        BY <1>1, <3>1, <3>2, WithinSum
      <3>4. t + Window > e.start
        BY <1>0, <2>2
      <3>5. Cardinality(Within(h, t, e.start - 1)) <= RateLimit /\ Cardinality(Within(h, e.start, c)) <= RateLimit
        BY <3>4 DEF FairEntry, h
      <3>6. /\ Cardinality(Within(h, t, t + Window - 1)) \in Nat
            /\ Cardinality(Within(h, t, e.start - 1)) \in Nat
            /\ Cardinality(Within(h, e.start, c)) \in Nat
        BY <1>0, <1>1, <3>1, WithinFinite
      <3> QED
        BY <1>0, <3>3, <3>5, <3>6
    <2> QED
      BY <1>0, <2>1, <2>2
  <1> QED
    BY <1>3 DEF FairPast

\* A second goes by.
LEMMA FairTick ==
  ASSUME NEW g \in Seq(Nat), NEW c \in Nat \ {0}, NotAfter(g, c)
  PROVE  /\ NotAfter(g, c + 1)
         /\ FairAway(g, c) => FairAway(g, c + 1)
         /\ FairPast(g, c) => FairPast(g, c + 1)
         /\ \A e \in RateEntry : FairEntry(g, e, c) /\ e.start <= c => FairEntry(g, e, c + 1)
  <1>0. Window \in Nat /\ Window > 0 /\ RateLimit \in Nat
    BY WapAssumption
  <1>1. NotAfter(g, c + 1)
    BY DEF NotAfter
  <1>2. \A k \in DOMAIN g : g[k] <= c /\ g[k] \in Nat
    BY DEF NotAfter
  <1>3. \A a \in Int : Within(g, a, c + 1) = Within(g, a, c)
    BY <1>2 DEF Within
  <1>4. \A b \in Int : Cardinality(Within(g, c + 1, b)) = 0
    BY <1>2, WithinNone
  <1>5. ASSUME FairAway(g, c) PROVE FairAway(g, c + 1)
    <2>1. ASSUME NEW t \in 1 .. c + 1, t + Window > c + 1
          PROVE  Cardinality(Within(g, t, c + 1)) <= RateLimit
      <3>1. CASE t = c + 1
        BY <1>0, <1>4, <3>1
      <3>2. CASE t \in 1 .. c
        BY <1>0, <1>3, <1>5, <2>1, <3>2 DEF FairAway
      <3> QED
        BY <3>1, <3>2
    <2>2. \A k \in DOMAIN g : g[k] < c + 1
      BY <1>2
    <2> QED
      BY <2>1, <2>2 DEF FairAway
  <1>6. ASSUME FairPast(g, c) PROVE FairPast(g, c + 1)
    <2>1. ASSUME NEW t \in 1 .. c + 1
          PROVE  Cardinality(Within(g, t, t + Window - 1)) <= 2 * RateLimit
      <3>1. CASE t = c + 1
        <4>1. t + Window - 1 \in Int
          BY <1>0
        <4>2. Cardinality(Within(g, t, t + Window - 1)) = 0
          BY <1>4, <3>1, <4>1
        <4> QED
          BY <1>0, <4>2
      <3>2. CASE t \in 1 .. c
        BY <1>6, <3>2 DEF FairPast
      <3> QED
        BY <3>1, <3>2
    <2> QED
      BY <2>1 DEF FairPast
  <1>7. ASSUME NEW e \in RateEntry, FairEntry(g, e, c), e.start <= c PROVE FairEntry(g, e, c + 1)
    <2>0. e.start \in Nat
      BY DEF RateEntry
    <2>1. Within(g, e.start, c + 1) = Within(g, e.start, c)
      BY <1>3, <2>0
    <2>2. ASSUME NEW t \in 1 .. c + 1, t + Window > e.start
          PROVE  Cardinality(Within(g, t, e.start - 1)) <= RateLimit
      <3>1. CASE t = c + 1
        BY <1>0, <1>4, <2>0, <3>1
      <3>2. CASE t \in 1 .. c
        BY <1>7, <2>2, <3>2 DEF FairEntry
      <3> QED
        BY <3>1, <3>2
    <2> QED
      BY <1>7, <2>1, <2>2 DEF FairEntry
  <1> QED
    BY <1>1, <1>5, <1>6, <1>7
-----------------------------------------------------------------------------
(* The table.                                                              *)

LEMMA LeastExists ==
  ASSUME NEW S \in SUBSET Nat, S # {}
  PROVE  \E m \in S : \A k \in S : m <= k
  <1> DEFINE R == OpToRel(<, Nat)
  <1>1. IsWellFoundedOn(R, Nat)
    BY NatLessThanWellFounded
  <1>2. PICK m \in S : \A k \in S : <<k, m>> \notin R
    <2> HIDE DEF R
    <2> QED
      BY <1>1, WFMin
  <1>3. ASSUME NEW k \in S PROVE m <= k
    <2>1. ~(k < m)
      BY <1>2 DEF OpToRel
    <2> QED
      BY <2>1
  <1> QED
    BY <1>3

\* There is a slot to take over.
LEMMA VictimIs ==
  ASSUME RateType
  PROVE  Victim \in 1 .. TableSize
  <1>0. TableSize \in Nat /\ TableSize > 0 /\ \A i \in 1 .. TableSize : rate[i].start \in Nat
    BY WapAssumption DEF RateType, RateEntry
  <1> DEFINE S == {rate[i].start : i \in 1 .. TableSize}
  <1>1. S \in SUBSET Nat /\ S # {}
    <2>1. 1 \in 1 .. TableSize
      BY <1>0
    <2> QED
      BY <1>0, <2>1
  <1>2. PICK m \in S : \A k \in S : m <= k
    <2> HIDE DEF S
    <2> QED
      BY <1>1, LeastExists
  <1> DEFINE T == {i \in 1 .. TableSize : rate[i].start = m}
  <1>3. T \in SUBSET Nat /\ T # {}
    BY <1>2
  <1>4. PICK i \in T : \A k \in T : i <= k
    <2> HIDE DEF T
    <2> QED
      BY <1>3, LeastExists
  <1>5. i \in 1 .. TableSize /\ rate[i].start = m /\ m \in Nat
    BY <1>0, <1>4
  <1>6. \A j \in 1 .. TableSize : rate[i].start <= rate[j].start
    BY <1>2, <1>5
  <1>7. ASSUME NEW j \in 1 .. i - 1 PROVE rate[j].start > rate[i].start
    <2>1. j \in 1 .. TableSize /\ j < i
      BY <1>0, <1>5
    <2>2. rate[j].start # m
      BY <1>4, <1>5, <2>1
    <2> QED
      BY <1>0, <1>5, <1>6, <2>1, <2>2
  <1> QED
    BY <1>5, <1>6, <1>7 DEF Victim

LEMMA SlotIs ==
  ASSUME RateType, NEW s \in Phones
  PROVE  /\ SlotOf(s) \in 1 .. TableSize
         /\ (\E j \in 1 .. TableSize : rate[j].ip = s) => rate[SlotOf(s)].ip = s
  BY VictimIs DEF SlotOf

\* The entry rate_allow() leaves.
LEMMA EntryIs ==
  ASSUME RateType, NEW s \in Phones
  PROVE  /\ Entry(s) \in RateEntry /\ Entry(s).ip = s /\ Entry(s).start <= clock
         /\ LET e == rate[SlotOf(s)]
            IN  IF e.ip # s \/ clock - e.start >= Window
                THEN Entry(s).start = clock /\ Entry(s).count = 1
                ELSE Entry(s).start = e.start /\ Entry(s).count = e.count + 1
  <1>1. PICK e : e = rate[SlotOf(s)]
    OBVIOUS
  <1>2. e \in RateEntry /\ e.start <= clock /\ clock \in Nat
    BY <1>1, SlotIs DEF RateType
  <1>3. Entry(s) = IF e.ip # s THEN [ip |-> s, start |-> clock, count |-> 1]
                   ELSE IF clock - e.start >= Window THEN [ip |-> s, start |-> clock, count |-> 1]
                   ELSE [e EXCEPT !.count = e.count + 1]
    BY <1>1 DEF Entry
  <1> QED
    BY <1>1, <1>2, <1>3 DEF RateEntry

\* A request of s that rate_allow() has seen.
Asked(s) ==
    /\ RateLimit > 0
    /\ Counted(s)
    /\ granted' = IF Allowed(s) THEN [granted EXCEPT ![s] = Append(@, clock)] ELSE granted
    /\ UNCHANGED clock

LEMMA AskedTypes ==
  ASSUME RateType, NEW s \in Phones, Asked(s)
  PROVE  RateType'
  <1>1. PICK i : i = SlotOf(s)
    OBVIOUS
  <1>2. PICK n : n = Entry(s)
    OBVIOUS
  <1>3. i \in 1 .. TableSize /\ ((\E j \in 1 .. TableSize : rate[j].ip = s) => rate[i].ip = s)
    BY <1>1, SlotIs
  <1>4. n \in RateEntry /\ n.ip = s /\ n.start <= clock
    BY <1>2, EntryIs
  <1>5. rate' = [rate EXCEPT ![i] = n] /\ clock' = clock
    BY <1>1, <1>2 DEF Asked, Counted
  <1>6. clock \in Nat \ {0} /\ rate \in [1 .. TableSize -> RateEntry]
    BY DEF RateType
  <1>7. rate' \in [1 .. TableSize -> RateEntry] /\ \A j \in 1 .. TableSize : rate'[j] = IF j = i THEN n ELSE rate[j]
    BY <1>3, <1>4, <1>5, <1>6
  <1>8. \A j \in 1 .. TableSize : rate'[j].start <= clock'
    BY <1>4, <1>5, <1>7 DEF RateType
  <1>9. \A j, k \in 1 .. TableSize : rate'[j].ip = rate'[k].ip => j = k \/ rate'[j].ip = NoSource
    BY <1>3, <1>4, <1>7 DEF RateType
  <1>10. /\ granted' \in [Phones -> Seq(Nat)]
         /\ \A p \in Phones : NotAfter(granted'[p], clock)
    <2>1. granted \in [Phones -> Seq(Nat)] /\ \A p \in Phones : NotAfter(granted[p], clock)
      BY DEF RateType
    <2>2. CASE ~Allowed(s)
      BY <2>1, <2>2 DEF Asked
    <2>3. CASE Allowed(s)
      <3>1. granted' = [granted EXCEPT ![s] = Append(granted[s], clock)]
        BY <2>3 DEF Asked
      <3>2. PICK g : g = granted[s]
        OBVIOUS
      <3>3. g \in Seq(Nat) /\ NotAfter(g, clock)
        BY <2>1, <3>2
      <3>4. Append(g, clock) \in Seq(Nat) /\ NotAfter(Append(g, clock), clock)
        <4>1. /\ Append(g, clock) \in Seq(Nat)
              /\ \A k \in DOMAIN Append(g, clock) :
                    Append(g, clock)[k] = clock \/ \E j \in DOMAIN g : Append(g, clock)[k] = g[j]
          BY <1>6, <3>3, AppendAfter
        <4> QED
          BY <1>6, <3>3, <4>1 DEF NotAfter
      <3> QED
        BY <2>1, <3>1, <3>2, <3>4
    <2> QED
      BY <2>2, <2>3
  <1> QED
    BY <1>5, <1>6, <1>7, <1>8, <1>9, <1>10 DEF RateType

\* The source that asks: its window begins, goes on, or is full.
LEMMA AskedOwn ==
  ASSUME RateType, Fair, NEW s \in Phones \ crowded, Asked(s)
  PROVE  /\ FairEntry(granted'[s], Entry(s), clock)
         /\ FairPast(granted'[s], clock)
  <1> DEFINE n == Entry(s)
  <1>1. PICK i : i = SlotOf(s)
    OBVIOUS
  <1>2. PICK e : e = rate[i]
    OBVIOUS
  <1>3. PICK g : g = granted[s]
    OBVIOUS
  <1>4. i \in 1 .. TableSize /\ ((\E j \in 1 .. TableSize : rate[j].ip = s) => e.ip = s)
    BY <1>1, <1>2, SlotIs
  <1>5. /\ n \in RateEntry /\ n.ip = s /\ n.start <= clock
        /\ IF e.ip # s \/ clock - e.start >= Window
           THEN n.start = clock /\ n.count = 1
           ELSE n.start = e.start /\ n.count = e.count + 1
    BY <1>1, <1>2, EntryIs
  <1>6. e \in RateEntry /\ e.start <= clock /\ clock \in Nat \ {0}
    BY <1>2, <1>4 DEF RateType
  <1>7. g \in Seq(Nat) /\ NotAfter(g, clock)
    BY <1>3 DEF RateType
  <1>8. RateLimit > 0 /\ RateLimit \in Nat /\ Window \in Nat
    BY WapAssumption DEF Asked
  <1>9. FairPast(g, clock)
    BY <1>3, <1>8 DEF Fair
  <1>10. granted'[s] = IF n.count <= RateLimit THEN Append(g, clock) ELSE g
    <2>1. granted' = IF Allowed(s) THEN [granted EXCEPT ![s] = Append(granted[s], clock)] ELSE granted
      BY DEF Asked
    <2>2. Allowed(s) <=> n.count <= RateLimit
      BY <1>8 DEF Allowed
    <2>3. s \in DOMAIN granted
      BY DEF RateType
    <2> HIDE DEF n
    <2> QED
      BY <1>3, <2>1, <2>2, <2>3
  <1> HIDE DEF n
  <1>11. CASE e.ip # s \/ clock - e.start >= Window
    <2>1. FairAway(g, clock)
      <3>1. CASE e.ip # s
        <4>1. \A j \in 1 .. TableSize : rate[j].ip # s
          BY <1>4, <3>1
        <4> QED
          BY <1>3, <1>8, <4>1 DEF Fair
      <3>2. CASE e.ip = s
        <4>1. FairEntry(g, e, clock)
          BY <1>2, <1>3, <1>4, <1>8, <3>2 DEF Fair
        <4> QED
          BY <1>6, <1>7, <1>11, <3>2, <4>1, ForgetEntry
      <3> QED
        BY <3>1, <3>2
    <2>2. n.start = clock /\ n.count = 1
      BY <1>5, <1>11
    <2>3. FairEntry(Append(g, clock), n, clock)
      BY <1>5, <1>6, <1>7, <1>8, <2>1, <2>2, BeginEntry
    <2>4. FairPast(Append(g, clock), clock)
      BY <1>5, <1>6, <1>7, <1>9, <2>3, PastAppend
    <2>5. granted'[s] = Append(g, clock)
      BY <1>8, <1>10, <2>2
    <2> QED
      BY <2>3, <2>4, <2>5 DEF n
  <1>12. CASE e.ip = s /\ clock - e.start < Window
    <2>1. FairEntry(g, e, clock)
      BY <1>2, <1>3, <1>4, <1>8, <1>12 DEF Fair
    <2>2. n.start = e.start /\ n.count = e.count + 1
      BY <1>5, <1>6, <1>8, <1>12 DEF RateEntry
    <2>3. CASE n.count <= RateLimit
      <3>1. FairEntry(Append(g, clock), n, clock)
        BY <1>5, <1>6, <1>7, <1>12, <2>1, <2>2, <2>3, CountEntry
      <3>2. FairPast(Append(g, clock), clock)
        BY <1>5, <1>6, <1>7, <1>9, <3>1, PastAppend
      <3> QED
        BY <1>10, <2>3, <3>1, <3>2 DEF n
    <2>4. CASE ~(n.count <= RateLimit)
      <3>1. FairEntry(g, n, clock)
        BY <1>5, <1>6, <1>7, <2>1, <2>2, RefuseEntry
      <3> QED
        BY <1>9, <1>10, <2>4, <3>1 DEF n
    <2> QED
      BY <2>3, <2>4
  <1> QED
    BY <1>6, <1>8, <1>11, <1>12 DEF RateEntry

\* The limit holds after a request: for its source, for the one whose slot it
\* took, and for the others.
LEMMA AskedKeeps ==
  ASSUME RateType, Fair, NEW s \in Phones, Asked(s)
  PROVE  Fair'
  <1>1. PICK i : i = SlotOf(s)
    OBVIOUS
  <1>2. PICK n : n = Entry(s)
    OBVIOUS
  <1>3. PICK e : e = rate[i]
    OBVIOUS
  <1>4. i \in 1 .. TableSize /\ ((\E j \in 1 .. TableSize : rate[j].ip = s) => e.ip = s)
    BY <1>1, <1>3, SlotIs
  <1>5. rate' = [rate EXCEPT ![i] = n] /\ clock' = clock
    BY <1>1, <1>2 DEF Asked, Counted
  <1>6. rate \in [1 .. TableSize -> RateEntry] /\ e \in RateEntry /\ clock \in Nat \ {0} /\ e.start \in Nat
    BY <1>3, <1>4 DEF RateType, RateEntry
  <1>7. \A j \in 1 .. TableSize : rate'[j] = IF j = i THEN n ELSE rate[j]
    BY <1>4, <1>5, <1>6
  <1>8. RateLimit > 0 /\ RateLimit \in Nat /\ Window \in Nat
    BY WapAssumption DEF Asked
  <1>9. n.ip = s
    BY <1>2, EntryIs
  <1>10. crowded' = IF e.ip \notin {s, NoSource} /\ clock - e.start < Window THEN crowded \cup {e.ip} ELSE crowded
    BY <1>1, <1>3, <1>8 DEF Asked, Counted
  <1>11. \A j \in 1 .. TableSize : rate'[j].ip = s => j = i
    <2>1. ASSUME NEW j \in 1 .. TableSize, rate[j].ip = s PROVE j = i
      <3>1. rate[i].ip = s /\ s # NoSource
        BY <1>3, <1>4, <2>1, WapAssumption
      <3> QED
        BY <1>4, <2>1, <3>1 DEF RateType
    <2> QED
      BY <1>7, <2>1
  <1>12. ASSUME NEW p \in Phones \ crowded'
         PROVE  /\ \A j \in 1 .. TableSize : rate'[j].ip = p => FairEntry(granted'[p], rate'[j], clock')
                /\ (\A j \in 1 .. TableSize : rate'[j].ip # p) => FairAway(granted'[p], clock')
                /\ FairPast(granted'[p], clock')
    <2>0. p \in Phones \ crowded
      BY <1>10
    <2>1. CASE p = s
      <3>1. FairEntry(granted'[s], n, clock) /\ FairPast(granted'[s], clock)
        BY <1>2, <2>0, <2>1, AskedOwn
      <3>2. rate'[i] = n
        BY <1>4, <1>7
      <3> QED
        BY <1>4, <1>5, <1>9, <1>11, <2>1, <3>1, <3>2
    <2>2. CASE p # s
      <3>1. granted'[p] = granted[p]
        BY <2>2 DEF Asked, RateType
      <3>2. /\ \A j \in 1 .. TableSize : rate[j].ip = p => FairEntry(granted[p], rate[j], clock)
            /\ (\A j \in 1 .. TableSize : rate[j].ip # p) => FairAway(granted[p], clock)
            /\ FairPast(granted[p], clock)
        BY <1>8, <2>0 DEF Fair
      <3>3. ASSUME NEW j \in 1 .. TableSize, rate'[j].ip = p
            PROVE  FairEntry(granted'[p], rate'[j], clock')
        BY <1>5, <1>7, <1>9, <2>2, <3>1, <3>2, <3>3
      <3>4. ASSUME \A j \in 1 .. TableSize : rate'[j].ip # p
            PROVE  FairAway(granted'[p], clock')
        <4>1. CASE e.ip = p
          <5>1. FairEntry(granted[p], e, clock)
            BY <1>3, <1>4, <3>2, <4>1
          <5>2. clock - e.start >= Window
            <6>1. p # NoSource
              BY WapAssumption
            <6>2. ~(clock - e.start < Window)
              BY <1>10, <1>12, <2>2, <4>1, <6>1
            <6> QED
              BY <1>6, <1>8, <6>2
          <5>3. granted[p] \in Seq(Nat)
            BY DEF RateType
          <5> QED
            BY <1>5, <1>6, <3>1, <5>1, <5>2, <5>3, ForgetEntry
        <4>2. CASE e.ip # p
          <5>1. \A j \in 1 .. TableSize : rate[j].ip # p
            BY <1>3, <1>7, <3>4, <4>2
          <5> QED
            BY <1>5, <3>1, <3>2, <5>1
        <4> QED
          BY <4>1, <4>2
      <3> QED
        BY <1>5, <3>1, <3>2, <3>3, <3>4
    <2> QED
      BY <2>1, <2>2
  <1> QED
    BY <1>12 DEF Fair
-----------------------------------------------------------------------------
(* The steps of the gateway.                                               *)

LEMMA TickRate ==
  ASSUME RateType, Fair, Tick
  PROVE  RateType' /\ Fair'
  <1>1. clock' = clock + 1 /\ rate' = rate /\ granted' = granted /\ crowded' = crowded
    BY DEF Tick
  <1>2. PICK c : c = clock
    OBVIOUS
  <1>3. c \in Nat \ {0} /\ \A i \in 1 .. TableSize : rate[i] \in RateEntry /\ rate[i].start <= c /\ rate[i].start \in Nat
    BY <1>2 DEF RateType, RateEntry
  <1>4. \A s \in Phones : granted[s] \in Seq(Nat) /\ NotAfter(granted[s], c)
    BY <1>2 DEF RateType
  <1>5. ASSUME NEW s \in Phones
        PROVE  /\ NotAfter(granted[s], c + 1)
               /\ FairAway(granted[s], c) => FairAway(granted[s], c + 1)
               /\ FairPast(granted[s], c) => FairPast(granted[s], c + 1)
               /\ \A e \in RateEntry : FairEntry(granted[s], e, c) /\ e.start <= c => FairEntry(granted[s], e, c + 1)
    <2>1. PICK g : g = granted[s]
      OBVIOUS
    <2>2. g \in Seq(Nat) /\ NotAfter(g, c)
      BY <1>4, <2>1
    <2> QED
      BY <1>3, <2>1, <2>2, FairTick
  <1>6. RateType'
    <2>1. \A s \in Phones : NotAfter(granted'[s], clock')
      BY <1>1, <1>2, <1>5
    <2>2. clock' \in Nat \ {0} /\ \A i \in 1 .. TableSize : rate'[i].start <= clock'
      BY <1>1, <1>2, <1>3
    <2> QED
      BY <1>1, <2>1, <2>2 DEF RateType
  <1>7. Fair'
    <2>1. ASSUME RateLimit > 0, NEW s \in Phones \ crowded
          PROVE  /\ \A i \in 1 .. TableSize : rate[i].ip = s => FairEntry(granted[s], rate[i], c + 1)
                 /\ (\A i \in 1 .. TableSize : rate[i].ip # s) => FairAway(granted[s], c + 1)
                 /\ FairPast(granted[s], c + 1)
      <3>1. /\ \A i \in 1 .. TableSize : rate[i].ip = s => FairEntry(granted[s], rate[i], c)
            /\ (\A i \in 1 .. TableSize : rate[i].ip # s) => FairAway(granted[s], c)
            /\ FairPast(granted[s], c)
        BY <1>2, <2>1 DEF Fair
      <3> QED
        BY <1>3, <1>5, <3>1
    <2> QED
      BY <1>1, <1>2, <2>1 DEF Fair
  <1> QED
    BY <1>6, <1>7

\* Without a limit only the history of grants grows.
LEMMA UnlimitedRate ==
  ASSUME RateType, RateLimit = 0, NEW s \in Phones, Counted(s), UNCHANGED clock,
         granted' = [granted EXCEPT ![s] = Append(@, clock)]
  PROVE  RateType' /\ Fair'
  <1>1. rate' = rate /\ clock' = clock
    BY DEF Counted
  <1>2. PICK g : g = granted[s]
    OBVIOUS
  <1>3. g \in Seq(Nat) /\ NotAfter(g, clock) /\ clock \in Nat
    BY <1>2 DEF RateType
  <1>4. /\ Append(g, clock) \in Seq(Nat)
        /\ \A k \in DOMAIN Append(g, clock) :
              Append(g, clock)[k] = clock \/ \E j \in DOMAIN g : Append(g, clock)[k] = g[j]
    BY <1>3, AppendAfter
  <1>5. NotAfter(Append(g, clock), clock)
    BY <1>3, <1>4 DEF NotAfter
  <1>6. granted' \in [Phones -> Seq(Nat)] /\ \A p \in Phones : NotAfter(granted'[p], clock)
    BY <1>2, <1>4, <1>5 DEF RateType
  <1> QED
    BY <1>1, <1>6 DEF RateType, Fair

LEMMA ReceiveRate ==
  ASSUME RateType, Fair, Receive
  PROVE  RateType' /\ Fair'
  <1>1. PICK d \in Datagram :
           \/ UNCHANGED <<rate, crowded, granted, gw>>
           \/ /\ Counted(d.from)
              /\ IF Allowed(d.from) THEN granted' = [granted EXCEPT ![d.from] = Append(@, clock)]
                                    ELSE granted' = granted
    BY DEF Receive
  <1>2. clock' = clock /\ d.from \in Phones
    BY DEF Receive, Datagram
  <1>3. CASE UNCHANGED <<rate, crowded, granted, gw>>
    BY <1>2, <1>3 DEF RateType, Fair
  <1>4. CASE /\ Counted(d.from)
             /\ IF Allowed(d.from) THEN granted' = [granted EXCEPT ![d.from] = Append(@, clock)]
                                   ELSE granted' = granted
    <2>1. PICK s \in Phones : s = d.from
      BY <1>2
    <2>2. CASE RateLimit = 0
      <3>1. Allowed(s)
        BY <2>2 DEF Allowed
      <3> QED
        BY <1>2, <1>4, <2>1, <2>2, <3>1, UnlimitedRate
    <2>3. CASE RateLimit # 0
      <3>1. RateLimit > 0
        BY <2>3, WapAssumption
      <3>2. Asked(s)
        BY <1>2, <1>4, <2>1, <3>1 DEF Asked
      <3> QED
        BY <3>2, AskedTypes, AskedKeeps
    <2> QED
      BY <2>2, <2>3
  <1> QED
    BY <1>1, <1>3, <1>4

LEMMA NextRate ==
  ASSUME RateType, Fair, [WapNext]_wapVars
  PROVE  RateType' /\ Fair'
  <1>1. CASE UNCHANGED <<rate, clock, granted, crowded>>
    BY <1>1 DEF RateType, Fair
  <1>2. Tick \/ Receive \/ UNCHANGED <<rate, clock, granted, crowded>>
    BY DEF WapNext, wapVars, Fetch, GiveUp, Stop, ThreadEnds, CloseSockets
  <1> QED
    BY <1>1, <1>2, TickRate, ReceiveRate

LEMMA ReceiveGateway ==
  ASSUME GatewayInv, Receive
  PROVE  GatewayInv'
  <1>1. received' \in 0 .. MaxReceived
    <2>1. received \in 0 .. MaxReceived /\ MaxReceived \in Nat
      BY WapAssumption DEF GatewayInv
    <2>2. received < MaxReceived /\ received' = received + 1
      BY DEF Receive
    <2> QED
      BY <2>1, <2>2
  <1>2. PICK d \in Datagram : gw' = gw \/ gw' = [Polling EXCEPT !.pc = "fetch", !.dg = d, !.at = d.uri]
    BY DEF Receive
  <1>3. reply' = reply /\ sockets' = sockets /\ gw.pc = "poll"
    BY DEF Receive
  <1>4. sockets
    BY <1>3 DEF GatewayInv, SocketsOutlive
  <1>5. MaxRedirects \in Nat
    BY WapAssumption
  <1>6. CASE gw' = gw
    BY <1>1, <1>3, <1>6 DEF GatewayInv, LandingShown, SocketsOutlive
  <1>7. CASE gw' = [Polling EXCEPT !.pc = "fetch", !.dg = d, !.at = d.uri]
    <2>1. gw' = [pc |-> "fetch", dg |-> d, hop |-> 0, at |-> d.uri, posted |-> 0]
      BY <1>7 DEF Polling
    <2> QED
      BY <1>1, <1>3, <1>4, <1>5, <2>1 DEF GatewayInv, LandingShown, SocketsOutlive
  <1> QED
    BY <1>2, <1>6, <1>7

LEMMA SendReplyGateway ==
  ASSUME GatewayInv, NEW what, SendReply(what), gw.pc = "fetch", UNCHANGED <<received, sockets>>
  PROVE  GatewayInv'
  <1>1. sockets' /\ received' = received
    BY DEF GatewayInv, SocketsOutlive
  <1>2. gw' = [pc |-> "poll", dg |-> NoDatagram, hop |-> 0, at |-> NoDatagram.uri, posted |-> 0]
    BY DEF SendReply, Polling
  <1>3. LandingShown'
    BY DEF SendReply, LandingShown, Shown
  <1>4. MaxRedirects \in Nat
    BY WapAssumption
  <1> QED
    BY <1>1, <1>2, <1>3, <1>4 DEF GatewayInv, SocketsOutlive

LEMMA FetchGateway ==
  ASSUME GatewayInv, Fetch
  PROVE  GatewayInv'
  <1>1. CASE \E what \in {"content", "message"} : SendReply(what)
    BY <1>1, SendReplyGateway DEF Fetch
  <1>2. CASE /\ UNCHANGED reply
             /\ \E to \in Uri :
                  gw' = [gw EXCEPT !.hop = @ + 1, !.at = Moved(@, to),
                                   !.posted = IF PostsOn(gw.hop) /\ @ < 2 THEN @ + 1 ELSE @]
    <2>1. PICK a, n : /\ gw' = [gw EXCEPT !.hop = gw.hop + 1, !.at = a, !.posted = n]
                      /\ n = IF PostsOn(gw.hop) /\ gw.posted < 2 THEN gw.posted + 1 ELSE gw.posted
      BY <1>2
    <2>2. gw.posted \in {0, 1} /\ gw.hop \in 0 .. MaxRedirects /\ gw.pc = "fetch" /\ MaxRedirects \in Nat
      <3>1. gw.posted \in {0, 1} /\ gw.hop \in 0 .. MaxRedirects + 1 /\ MaxRedirects \in Nat
        BY WapAssumption DEF GatewayInv
      <3>2. gw.hop <= MaxRedirects /\ gw.pc = "fetch"
        BY DEF Fetch
      <3> QED
        BY <3>1, <3>2
    <2>3. n \in {0, 1} /\ (n = 1 => gw.dg.kind = "post")
      BY <2>1, <2>2 DEF PostsOn, GatewayInv
    <2>4. gw' = [pc |-> gw.pc, dg |-> gw.dg, hop |-> gw.hop + 1, at |-> a, posted |-> n]
      BY <2>1 DEF GatewayInv
    <2>5. received' = received /\ sockets' = sockets /\ reply' = reply
      BY <1>2 DEF Fetch
    <2>6. gw.hop + 1 \in 0 .. MaxRedirects + 1 /\ gw.hop + 1 # 0
      BY <2>2
    <2> QED
      BY <2>2, <2>3, <2>4, <2>5, <2>6 DEF GatewayInv, LandingShown, SocketsOutlive
  <1> QED
    BY <1>1, <1>2 DEF Fetch

LEMMA NextGateway ==
  ASSUME GatewayInv, [WapNext]_wapVars
  PROVE  GatewayInv'
  <1>1. CASE UNCHANGED <<received, reply, gw, sockets>>
    BY <1>1 DEF GatewayInv, LandingShown, SocketsOutlive
  <1>2. CASE GiveUp
    BY <1>2, SendReplyGateway DEF GiveUp
  <1>3. CASE ThreadEnds
    <2>1. gw' = [pc |-> "ended", dg |-> gw.dg, hop |-> gw.hop, at |-> gw.at, posted |-> gw.posted]
      BY <1>3 DEF ThreadEnds, GatewayInv
    <2> QED
      BY <1>3, <2>1 DEF ThreadEnds, GatewayInv, LandingShown, SocketsOutlive
  <1>4. CASE CloseSockets
    BY <1>4 DEF CloseSockets, Joined, GatewayInv, LandingShown, SocketsOutlive
  <1>5. Receive \/ Fetch \/ GiveUp \/ ThreadEnds \/ CloseSockets \/ UNCHANGED <<received, reply, gw, sockets>>
    BY DEF WapNext, wapVars, Tick, Stop
  <1> QED
    BY <1>1, <1>2, <1>3, <1>4, <1>5, ReceiveGateway, FetchGateway

LEMMA WapInductive == WapSpec => []WapIInv
  <1>1. WapInit => WapIInv
    <2> SUFFICES ASSUME WapInit PROVE WapIInv
      OBVIOUS
    <2>1. RateType
      <3>1. \A s \in Phones : granted[s] = << >>
        BY DEF WapInit
      <3>2. \A s \in Phones : NotAfter(granted[s], clock)
        BY <3>1 DEF NotAfter
      <3>3. granted \in [Phones -> Seq(Nat)]
        BY DEF WapInit
      <3>4. rate \in [1 .. TableSize -> RateEntry] /\ \A i \in 1 .. TableSize : rate[i] = Free
        BY DEF WapInit, Free, RateEntry
      <3> QED
        BY <3>2, <3>3, <3>4 DEF WapInit, RateType, Free
    <2>2. Fair
      <3>1. ASSUME NEW s \in Phones, NEW i \in 1 .. TableSize PROVE rate[i].ip # s
        BY <3>1, WapAssumption DEF WapInit, Free
      <3>2. ASSUME NEW s \in Phones, NEW a \in Int, NEW b \in Int PROVE Cardinality(Within(granted[s], a, b)) = 0
        <4>0. granted[s] = << >>
          BY <3>2 DEF WapInit
        <4>1. PICK g : g = << >>
          OBVIOUS
        <4>2. g \in Seq(Nat)
          BY <4>1
        <4>3. \A k \in DOMAIN g : g[k] \notin a .. b
          BY <4>1
        <4>4. Cardinality(Within(g, a, b)) = 0
          BY <4>2, <4>3, WithinNone
        <4> QED
          BY <4>0, <4>1, <4>4
      <3>3. \A s \in Phones : FairAway(granted[s], clock)
        BY <3>2, WapAssumption DEF WapInit, FairAway
      <3>4. ASSUME NEW s \in Phones PROVE FairPast(granted[s], clock)
        <4>1. ASSUME NEW t \in 1 .. clock PROVE Cardinality(Within(granted[s], t, t + Window - 1)) <= 2 * RateLimit
          <5>1. t \in Int /\ t + Window - 1 \in Int /\ RateLimit \in Nat
            BY WapAssumption DEF WapInit
          <5>2. Cardinality(Within(granted[s], t, t + Window - 1)) = 0
            BY <3>2, <5>1
          <5> QED
            BY <5>1, <5>2
        <4> QED
          BY <4>1 DEF FairPast
      <3> QED
        BY <3>1, <3>3, <3>4 DEF Fair
    <2>3. GatewayInv
      <3>1. gw = [pc |-> "poll", dg |-> NoDatagram, hop |-> 0, at |-> NoDatagram.uri, posted |-> 0]
        BY DEF WapInit, Polling
      <3>2. received = 0 /\ sockets = TRUE /\ MaxReceived \in Nat /\ MaxRedirects \in Nat
        BY WapAssumption DEF WapInit
      <3>3. LandingShown
        BY DEF WapInit, NoReply, NoDatagram, LandingShown
      <3> QED
        BY <3>1, <3>2, <3>3 DEF GatewayInv, SocketsOutlive
    <2> QED
      BY <2>1, <2>2, <2>3 DEF WapIInv
  <1>2. WapIInv /\ [WapNext]_wapVars => WapIInv'
    BY NextRate, NextGateway DEF WapIInv
  <1> QED
    BY <1>1, <1>2, PTL DEF WapSpec

\* wap_gateway.c, for any number of phones, any table and any limit: in any
\* window a source that the table did not crowd out is answered at most twice the
\* limit, a form goes upstream at most once per datagram, a reply's links are
\* those of the page a post led to, and the sockets outlive the thread.
THEOREM WapInvThm == WapSpec => []WapInv
  <1>1. WapIInv => WapInv
    <2> SUFFICES ASSUME WapIInv PROVE WapInv
      OBVIOUS
    <2>1. RateType /\ Fair
      BY DEF WapIInv
    <2>2. GatewayInv
      BY DEF WapIInv
    <2>3. WapTypeOK
      <3>1. \A i \in 1 .. TableSize : rate[i].ip \in Phones \cup {NoSource} /\ rate[i].start \in 0 .. clock
        BY <2>1 DEF RateType, RateEntry
      <3>2. \A i, j \in 1 .. TableSize : rate[i].ip = rate[j].ip => i = j \/ rate[i].ip = NoSource
        BY <2>1 DEF RateType
      <3>3. /\ received \in 0 .. MaxReceived /\ gw.dg \in Datagram \cup {NoDatagram}
            /\ gw.pc \in {"poll", "fetch", "ended"} /\ gw.hop \in 0 .. MaxRedirects + 1
        BY <2>2 DEF GatewayInv
      <3> QED
        BY <3>1, <3>2, <3>3 DEF WapTypeOK
    <2>4. RateBound
      BY <2>1 DEF RateBound, Fair, FairPast, Within
    <2>5. PostOnce
      BY <2>2 DEF GatewayInv, PostOnce
    <2>6. LandingShown /\ SocketsOutlive
      BY <2>2 DEF GatewayInv
    <2> QED
      BY <2>3, <2>4, <2>5, <2>6 DEF WapInv
  <1> QED
    BY <1>1, WapInductive, PTL
-----------------------------------------------------------------------------
(* The site's looks.  What each kind of request is in the middle of is      *)
(* related to the documents and files it writes; the four kinds share only  *)
(* look.                                                                    *)

Filenames == FontFileNames \cup {"none", "png", "wbmp"}

LookRec ==
    [op : {"none", "save", "font", "unfont", "asset", "unasset", "icon"}, step : 0 .. 4, n : Nat, key : ThemeKeys,
     todo : Seq(Parts \X Nat), name : Nat, file : Filenames, id : Nat, fd : Nat]

LookTypes ==
    /\ look \in [Admins -> LookRec]
    /\ looks \in 0 .. MaxLooks
    /\ \A a \in Admins : look[a].op # "none" => look[a].n \in 1 .. looks

\* Settings: a theme whose first saves did not overlap shows what was saved.
ThemeDoc == [key : ThemeKeys, parts : [Parts -> Nat]]

ThemesOK ==
    /\ themeDocs \in Seq(ThemeDoc)
    /\ saved \in [ThemeKeys -> [Parts -> Nat]]
    /\ active \in ThemeKeys /\ ConfigTheme \in installed
    /\ \A a \in Admins : look[a].op = "save" => look[a].todo # << >>
    /\ SavedShown

\* Fonts: a file name not used twice has one upload, still to be added or
\* recorded, whose bytes it holds until its record is being deleted.
Adding(a, f) == look[a].op = "font" /\ look[a].step = 2 /\ look[a].file = f
Deleting(a, f) == look[a].op = "unfont" /\ look[a].file = f
Holds(f, n) == f \in DOMAIN fontFiles /\ fontFiles[f] = n

FontTypes ==
    /\ fonts \in Seq([name : Nat, file : FontFileNames, n : Nat, exists : BOOLEAN])
    /\ \A i \in DOMAIN fonts : fonts[i].n \in 1 .. looks
    /\ \A a \in Admins :
          /\ look[a].op = "font" => look[a].file \in FontFileNames
          /\ look[a].op = "unfont" => look[a].id \in DOMAIN fonts /\ fonts[look[a].id].file = look[a].file

FontOnce(f) ==
    /\ \A i, j \in DOMAIN fonts : fonts[i].file = f /\ fonts[j].file = f => i = j
    /\ \A a, b \in Admins : Adding(a, f) /\ Adding(b, f) => a = b
    /\ \A a \in Admins : Adding(a, f) => Holds(f, look[a].n) /\ \A i \in DOMAIN fonts : fonts[i].file # f
    /\ \A i \in DOMAIN fonts :
          fonts[i].file = f /\ fonts[i].exists => Holds(f, fonts[i].n) \/ \E a \in Admins : Deleting(a, f)

FontsOK == FontTypes /\ \A f \in FontFileNames \ reused : FontOnce(f)

\* The picture: while one request at a time is at it, its stage says how the
\* two files stand to each other.
AssetsOK ==
    /\ asset \in [{"png", "wbmp"} -> 0 .. looks]
    /\ \A a \in Admins : look[a].op = "unasset" => look[a].file \in {"png", "wbmp"} /\ look[a].step \in {1, 2}
    /\ ~mixedAsset =>
          /\ \A a, b \in Admins : look[a].op \in {"asset", "unasset"} /\ look[b].op \in {"asset", "unasset"} => a = b
          /\ ~BusyAsset => asset["png"] = asset["wbmp"]
          /\ \A a \in Admins :
                /\ look[a].op = "unasset" /\ look[a].step = 2 => asset[look[a].file] = 0
                /\ look[a].op = "unasset" /\ look[a].step = 1 => asset["png"] = asset["wbmp"]

\* The favicon: the one being written is not the one served, and is whole
\* when it is renamed.
IconsOK ==
    /\ icon \in 0 .. looks /\ iconTmp \in 0 .. looks
    /\ inodes \in [1 .. MaxLooks -> [1 .. 2 -> Nat]]
    /\ \A a \in Admins : look[a].op = "icon" /\ look[a].step \in {2, 3, 4} => look[a].fd \in 1 .. looks
    /\ ~mixedIcon =>
          /\ \A a, b \in Admins : look[a].op = "icon" /\ look[b].op = "icon" => a = b
          /\ icon # 0 => Whole(icon)
          /\ (\A a \in Admins : look[a].op # "icon") => iconTmp = 0
          /\ \A a \in Admins : look[a].op = "icon" =>
                LET r == look[a] IN
                /\ icon # r.n
                /\ r.step \in 1 .. 4
                /\ r.step = 1 => iconTmp = 0
                /\ r.step > 1 => iconTmp = r.n /\ r.fd = r.n
                /\ r.step > 2 => inodes[r.n][1] = r.n
                /\ r.step > 3 => inodes[r.n][2] = r.n

LookIInv == LookTypes /\ ThemesOK /\ FontsOK /\ AssetsOK /\ IconsOK

\* What is stored, of a sequence d of documents.
DocsIn(d, k) == {i \in DOMAIN d : d[i].key = k}
FirstIn(d, k) == CHOOSE i \in DocsIn(d, k) : \A j \in DocsIn(d, k) : i <= j
StoredIn(d, k, p) == IF DocsIn(d, k) = {} THEN 0 ELSE d[FirstIn(d, k)].parts[p]

LEMMA StoredNow ==
  ASSUME NEW k, NEW p
  PROVE  DocsOf(k) = DocsIn(themeDocs, k) /\ FirstDoc(k) = FirstIn(themeDocs, k)
         /\ Stored(k, p) = StoredIn(themeDocs, k, p)
  BY Zenon DEF Stored, StoredIn, DocsOf, DocsIn, FirstDoc, FirstIn

LEMMA StoredNext ==
  ASSUME NEW k, NEW p
  PROVE  Stored(k, p)' = StoredIn(themeDocs', k, p)
  BY Zenon DEF Stored, StoredIn, DocsOf, DocsIn, FirstDoc, FirstIn

\* A step of the request a, which is at q afterwards.
Moves(a, q) ==
    /\ look' = [look EXCEPT ![a] = q]
    /\ q \in LookRec
    /\ looks' \in {looks, looks + 1} /\ looks' <= MaxLooks
    /\ q.op # "none" => q.n \in 1 .. looks'

LEMMA MovesTypes ==
  ASSUME LookTypes, NEW a \in Admins, NEW q, Moves(a, q)
  PROVE  /\ LookTypes'
         /\ \A b \in Admins : look'[b] = IF b = a THEN q ELSE look[b]
         /\ look[a] \in LookRec /\ look'[a] = q /\ looks \in Nat /\ looks' \in Nat /\ looks <= looks'
  <1>1. looks \in 0 .. MaxLooks /\ MaxLooks \in Nat /\ look \in [Admins -> LookRec]
    BY AppearanceAssumption DEF LookTypes
  <1>2. looks' \in 0 .. MaxLooks /\ looks <= looks' /\ looks \in Nat /\ looks' \in Nat
    BY <1>1 DEF Moves
  <1>3. look' \in [Admins -> LookRec] /\ \A b \in Admins : look'[b] = IF b = a THEN q ELSE look[b]
    BY <1>1 DEF Moves
  <1>4. ASSUME NEW b \in Admins, look'[b].op # "none" PROVE look'[b].n \in 1 .. looks'
    <2>1. CASE b = a
      BY <1>3, <1>4, <2>1 DEF Moves
    <2>2. CASE b # a
      <3>1. look[b].n \in 1 .. looks
        BY <1>3, <1>4, <2>2 DEF LookTypes
      <3> QED
        BY <1>2, <1>3, <2>2, <3>1
    <2> QED
      BY <2>1, <2>2
  <1> QED
    BY <1>1, <1>2, <1>3, <1>4 DEF LookTypes

LEMMA NoLookIs == NoLook \in LookRec /\ NoLook.op = "none"
  <1>1. << >> \in Seq(Parts \X Nat)
    OBVIOUS
  <1> QED
    BY <1>1, AppearanceAssumption DEF NoLook, LookRec, Filenames

\* A request is taken up.
LEMMA TakeMoves ==
  ASSUME LookTypes, NEW a \in Admins, NEW r \in LookRec, Take(a, r)
  PROVE  \E q \in LookRec :
            /\ Moves(a, q) /\ look[a].op = "none" /\ q.n = looks + 1 /\ looks' = looks + 1
            /\ q.op = r.op /\ q.step = r.step /\ q.key = r.key /\ q.todo = r.todo
            /\ q.name = r.name /\ q.file = r.file /\ q.id = r.id /\ q.fd = r.fd
  <1>1. looks \in 0 .. MaxLooks /\ MaxLooks \in Nat
    BY AppearanceAssumption DEF LookTypes
  <1>2. looks < MaxLooks /\ looks' = looks + 1 /\ look[a].op = "none"
    BY DEF Take
  <1>3. PICK m : m = looks + 1
    OBVIOUS
  <1>4. PICK q : q = [r EXCEPT !.n = m]
    OBVIOUS
  <1>5. /\ q \in LookRec /\ q.n = m
        /\ q.op = r.op /\ q.step = r.step /\ q.key = r.key /\ q.todo = r.todo
        /\ q.name = r.name /\ q.file = r.file /\ q.id = r.id /\ q.fd = r.fd
    <2>1. m \in Nat
      BY <1>1, <1>3
    <2> QED
      BY <1>4, <2>1 DEF LookRec
  <1>6. look' = [look EXCEPT ![a] = q]
    BY <1>3, <1>4 DEF Take
  <1>7. Moves(a, q)
    BY <1>1, <1>2, <1>3, <1>5, <1>6 DEF Moves
  <1> QED
    BY <1>2, <1>3, <1>5, <1>7

LEMMA TurnMoves ==
  ASSUME LookTypes, NEW a \in Admins, NEW s \in 0 .. 4, Turn(a, s), look[a].op # "none"
  PROVE  \E q \in LookRec :
            /\ Moves(a, q) /\ looks' = looks /\ q.n = look[a].n
            /\ q.op = look[a].op /\ q.step = s /\ q.key = look[a].key /\ q.todo = look[a].todo
            /\ q.name = look[a].name /\ q.file = look[a].file /\ q.id = look[a].id /\ q.fd = look[a].fd
  <1>1. looks \in 0 .. MaxLooks /\ MaxLooks \in Nat /\ look \in [Admins -> LookRec]
    BY AppearanceAssumption DEF LookTypes
  <1>2. PICK r : r = look[a]
    OBVIOUS
  <1>3. r \in LookRec /\ r.op # "none" /\ r.n \in 1 .. looks
    BY <1>1, <1>2 DEF LookTypes
  <1>4. PICK q : q = [r EXCEPT !.step = s]
    OBVIOUS
  <1>5. /\ q \in LookRec /\ q.n = r.n
        /\ q.op = r.op /\ q.step = s /\ q.key = r.key /\ q.todo = r.todo
        /\ q.name = r.name /\ q.file = r.file /\ q.id = r.id /\ q.fd = r.fd
    BY <1>3, <1>4 DEF LookRec
  <1>6. look' = [look EXCEPT ![a] = q] /\ looks' = looks
    BY <1>1, <1>2, <1>4 DEF Turn
  <1>7. Moves(a, q)
    BY <1>1, <1>3, <1>5, <1>6 DEF Moves
  <1> QED
    BY <1>2, <1>5, <1>6, <1>7

LEMMA FinishMoves ==
  ASSUME LookTypes, NEW a \in Admins, Finish(a)
  PROVE  Moves(a, NoLook) /\ looks' = looks
  <1>1. looks \in 0 .. MaxLooks /\ MaxLooks \in Nat
    BY AppearanceAssumption DEF LookTypes
  <1> QED
    BY <1>1, NoLookIs DEF Moves, Finish

\* What a step leaves alone.
LEMMA ThemesQuiet ==
  ASSUME LookTypes, ThemesOK, NEW a \in Admins, NEW q, Moves(a, q), UNCHANGED themeVars,
         q.op = "save" => q.todo # << >>
  PROVE  ThemesOK'
  <1>1. \A b \in Admins : look'[b] = IF b = a THEN q ELSE look[b]
    BY MovesTypes
  <1>2. themeDocs' = themeDocs /\ saved' = saved /\ active' = active /\ installed' = installed /\ doubled' = doubled
    BY DEF themeVars
  <1>3. SavedShown'
    <2>1. ASSUME NEW k \in ThemeKeys \ doubled, NEW p \in Parts PROVE Stored(k, p)' = saved[k][p]
      <3>1. Stored(k, p) = saved[k][p]
        BY DEF ThemesOK, SavedShown
      <3> QED
        BY <1>2, <3>1, StoredNow, StoredNext
    <2> QED
      BY <1>2, <2>1 DEF SavedShown
  <1>4. \A b \in Admins : look'[b].op = "save" => look'[b].todo # << >>
    BY <1>1 DEF ThemesOK
  <1> QED
    BY <1>2, <1>3, <1>4 DEF ThemesOK

LEMMA FontsQuiet ==
  ASSUME LookTypes, FontsOK, NEW a \in Admins, NEW q, Moves(a, q), UNCHANGED fontVars,
         look[a].op \notin {"font", "unfont"}, q.op # "unfont",
         q.op = "font" => q.step = 1 /\ q.file \in FontFileNames
  PROVE  FontsOK'
  <1>1. (\A b \in Admins : look'[b] = IF b = a THEN q ELSE look[b]) /\ looks \in Nat /\ looks' \in Nat /\ looks <= looks'
    BY MovesTypes
  <1>2. fonts' = fonts /\ fontFiles' = fontFiles /\ reused' = reused
    BY DEF fontVars
  <1>3. \A b \in Admins, f \in FontFileNames :
           /\ Adding(b, f)' <=> Adding(b, f)
           /\ Deleting(b, f)' <=> Deleting(b, f)
    BY <1>1 DEF Adding, Deleting
  <1>4. \A b \in Admins, f \in FontFileNames : Adding(b, f) => look'[b] = look[b]
    BY <1>1 DEF Adding
  <1>5. FontTypes
    BY DEF FontsOK
  <1>6. FontTypes'
    <2>1. \A i \in DOMAIN fonts' : fonts'[i].n \in 1 .. looks'
      BY <1>1, <1>2, <1>5 DEF FontTypes
    <2>2. \A b \in Admins :
            /\ look'[b].op = "font" => look'[b].file \in FontFileNames
            /\ look'[b].op = "unfont" => look'[b].id \in DOMAIN fonts /\ fonts[look'[b].id].file = look'[b].file
      BY <1>1, <1>5 DEF FontTypes
    <2> QED
      BY <1>2, <1>5, <2>1, <2>2 DEF FontTypes
  <1>7. ASSUME NEW f \in FontFileNames, FontOnce(f) PROVE FontOnce(f)'
    BY <1>2, <1>3, <1>4, <1>7 DEF FontOnce, Holds
  <1> QED
    BY <1>2, <1>6, <1>7 DEF FontsOK

LEMMA AssetsQuiet ==
  ASSUME LookTypes, AssetsOK, NEW a \in Admins, NEW q, Moves(a, q), UNCHANGED assetVars,
         look[a].op \notin {"asset", "unasset"}, q.op \notin {"asset", "unasset"}
  PROVE  AssetsOK'
  <1>1. (\A b \in Admins : look'[b] = IF b = a THEN q ELSE look[b]) /\ looks \in Nat /\ looks' \in Nat /\ looks <= looks'
    BY MovesTypes
  <1>2. asset' = asset /\ mixedAsset' = mixedAsset
    BY DEF assetVars
  <1>3. BusyAsset' <=> BusyAsset
    BY <1>1 DEF BusyAsset
  <1>4. asset' \in [{"png", "wbmp"} -> 0 .. looks']
    BY <1>1, <1>2 DEF AssetsOK
  <1> QED
    BY <1>1, <1>2, <1>3, <1>4 DEF AssetsOK

LEMMA IconsQuiet ==
  ASSUME LookTypes, IconsOK, NEW a \in Admins, NEW q, Moves(a, q), UNCHANGED iconVars,
         look[a].op # "icon", q.op # "icon"
  PROVE  IconsOK'
  <1>1. (\A b \in Admins : look'[b] = IF b = a THEN q ELSE look[b]) /\ looks \in Nat /\ looks' \in Nat /\ looks <= looks'
    BY MovesTypes
  <1>2. inodes' = inodes /\ icon' = icon /\ iconTmp' = iconTmp /\ mixedIcon' = mixedIcon
    BY DEF iconVars
  <1>3. \A b \in Admins : look'[b].op = "icon" <=> look[b].op = "icon"
    BY <1>1
  <1>4. \A b \in Admins : look'[b].op = "icon" => look'[b] = look[b]
    BY <1>1
  <1>5. icon' \in 0 .. looks' /\ iconTmp' \in 0 .. looks'
    BY <1>1, <1>2 DEF IconsOK
  <1>6. \A b \in Admins : look'[b].op = "icon" /\ look'[b].step \in {2, 3, 4} => look'[b].fd \in 1 .. looks'
    <2>1. \A b \in Admins : look[b].op = "icon" /\ look[b].step \in {2, 3, 4} => look[b].fd \in 1 .. looks
      BY DEF IconsOK
    <2> QED
      BY <1>1, <1>4, <2>1
  <1> QED
    BY <1>2, <1>3, <1>4, <1>5, <1>6 DEF IconsOK, Whole
-----------------------------------------------------------------------------
(* Settings.                                                               *)

LEMMA FirstIs ==
  ASSUME NEW d \in Seq(ThemeDoc), NEW k, DocsIn(d, k) # {}
  PROVE  /\ FirstIn(d, k) \in DOMAIN d /\ d[FirstIn(d, k)].key = k
         /\ \A j \in DocsIn(d, k) : FirstIn(d, k) <= j
  <1>1. DocsIn(d, k) \in SUBSET Nat
    BY DEF DocsIn
  <1>2. \E i \in DocsIn(d, k) : \A j \in DocsIn(d, k) : i <= j
    BY <1>1, LeastExists
  <1>3. FirstIn(d, k) \in DocsIn(d, k) /\ \A j \in DocsIn(d, k) : FirstIn(d, k) <= j
    BY <1>2 DEF FirstIn
  <1> QED
    BY <1>3 DEF DocsIn

\* The first is the same if the documents of the key are.
LEMMA FirstSame ==
  ASSUME NEW d \in Seq(ThemeDoc), NEW e \in Seq(ThemeDoc), NEW k, DocsIn(d, k) = DocsIn(e, k)
  PROVE  FirstIn(d, k) = FirstIn(e, k)
  BY Zenon DEF FirstIn

\* e is d after a $set of the part p of k's document.
IsSet(d, e, k, p, v) == e = [d EXCEPT ![FirstIn(d, k)].parts[p] = v]

LEMMA SetStored ==
  ASSUME NEW d \in Seq(ThemeDoc), NEW k \in ThemeKeys, NEW p \in Parts, NEW v \in Nat, NEW e,
         DocsIn(d, k) # {}, IsSet(d, e, k, p, v)
  PROVE  /\ e \in Seq(ThemeDoc)
         /\ \A l \in ThemeKeys, q \in Parts : StoredIn(e, l, q) = IF l = k /\ q = p THEN v ELSE StoredIn(d, l, q)
  <1>1. PICK i : i = FirstIn(d, k)
    OBVIOUS
  <1>2. i \in DOMAIN d /\ d[i].key = k
    BY <1>1, FirstIs
  <1>3. d[i] \in ThemeDoc
    BY <1>2
  <1>4. PICK x : x = [d[i] EXCEPT !.parts = [d[i].parts EXCEPT ![p] = v]]
    OBVIOUS
  <1>5. x \in ThemeDoc /\ x.key = k /\ x.parts = [d[i].parts EXCEPT ![p] = v] /\ d[i].parts \in [Parts -> Nat]
    BY <1>2, <1>3, <1>4 DEF ThemeDoc
  <1>6. e = [d EXCEPT ![i] = x]
    BY <1>1, <1>2, <1>4 DEF IsSet
  <1>7. e \in Seq(ThemeDoc) /\ DOMAIN e = DOMAIN d /\ \A j \in DOMAIN d : e[j] = IF j = i THEN x ELSE d[j]
    <2>1. DOMAIN d = 1 .. Len(d)
      OBVIOUS
    <2>2. i \in 1 .. Len(d)
      BY <1>2, <2>1
    <2>3. x \in ThemeDoc
      BY <1>5
    <2>4. e \in Seq(ThemeDoc)
      BY <1>6, <2>2, <2>3, ExceptSeq
    <2> QED
      BY <1>2, <1>6, <2>4
  <1>8. ASSUME NEW l \in ThemeKeys, NEW q \in Parts
        PROVE  StoredIn(e, l, q) = IF l = k /\ q = p THEN v ELSE StoredIn(d, l, q)
    <2>1. DocsIn(e, l) = DocsIn(d, l)
      BY <1>2, <1>5, <1>7 DEF DocsIn
    <2>2. FirstIn(e, l) = FirstIn(d, l)
      <3>1. e \in Seq(ThemeDoc) /\ DocsIn(d, l) = DocsIn(e, l)
        BY <1>7, <2>1
      <3> QED
        BY <3>1, FirstSame
    <2>3. CASE DocsIn(d, l) = {}
      <3>1. l # k
        BY <2>3
      <3> QED
        BY <2>1, <2>3, <3>1 DEF StoredIn
    <2>4. CASE DocsIn(d, l) # {}
      <3>1. PICK m : m = FirstIn(d, l)
        OBVIOUS
      <3>2. m \in DOMAIN d /\ d[m].key = l
        BY <2>4, <3>1, FirstIs
      <3>3. StoredIn(d, l, q) = d[m].parts[q] /\ StoredIn(e, l, q) = e[m].parts[q]
        BY <2>1, <2>2, <2>4, <3>1 DEF StoredIn
      <3>4. CASE l = k
        <4>1. m = i
          BY <1>1, <3>1, <3>4
        <4> QED
          BY <1>2, <1>5, <1>7, <3>3, <3>4, <4>1
      <3>5. CASE l # k
        <4>1. m # i
          BY <1>2, <3>2, <3>5
        <4> QED
          BY <1>7, <3>2, <3>3, <3>5, <4>1
      <3> QED
        BY <3>4, <3>5
    <2> QED
      BY <2>3, <2>4
  <1> QED
    BY <1>7, <1>8

LEMMA AddStored ==
  ASSUME NEW d \in Seq(ThemeDoc), NEW x \in ThemeDoc
  PROVE  /\ Append(d, x) \in Seq(ThemeDoc)
         /\ \A l \in ThemeKeys, q \in Parts :
               /\ l # x.key => StoredIn(Append(d, x), l, q) = StoredIn(d, l, q)
               /\ l = x.key /\ DocsIn(d, l) = {} => StoredIn(Append(d, x), l, q) = x.parts[q]
  <1>1. PICK e : e = Append(d, x)
    OBVIOUS
  <1>2. PICK n : n = Len(d) + 1
    OBVIOUS
  <1>3. /\ e \in Seq(ThemeDoc) /\ DOMAIN e = DOMAIN d \cup {n} /\ e[n] = x /\ n \notin DOMAIN d
        /\ \A j \in DOMAIN d : e[j] = d[j]
    <2>1. e \in Seq(ThemeDoc) /\ Len(e) = n /\ e[n] = x /\ \A j \in 1 .. Len(d) : e[j] = d[j]
      BY <1>1, <1>2, AppendProperties
    <2>2. DOMAIN e = 1 .. n /\ DOMAIN d = 1 .. Len(d) /\ Len(d) \in Nat
      BY <2>1
    <2> QED
      BY <1>2, <2>1, <2>2
  <1>4. ASSUME NEW l \in ThemeKeys, NEW q \in Parts, l # x.key
        PROVE  StoredIn(e, l, q) = StoredIn(d, l, q)
    <2>1. DocsIn(e, l) = DocsIn(d, l)
      BY <1>3, <1>4 DEF DocsIn
    <2>2. FirstIn(e, l) = FirstIn(d, l)
      BY <1>3, <2>1, FirstSame
    <2>3. ASSUME DocsIn(d, l) # {} PROVE e[FirstIn(d, l)] = d[FirstIn(d, l)]
      BY <1>3, <2>3, FirstIs
    <2> QED
      BY <2>1, <2>2, <2>3 DEF StoredIn
  <1>5. ASSUME NEW l \in ThemeKeys, NEW q \in Parts, l = x.key, DocsIn(d, l) = {}
        PROVE  StoredIn(e, l, q) = x.parts[q]
    <2>1. DocsIn(e, l) = {n}
      BY <1>3, <1>5 DEF DocsIn
    <2>2. FirstIn(e, l) \in DocsIn(e, l)
      <3>1. DocsIn(e, l) # {}
        BY <2>1
      <3>2. FirstIn(e, l) \in DOMAIN e /\ e[FirstIn(e, l)].key = l
        BY <1>3, <3>1, FirstIs
      <3> QED
        BY <3>2 DEF DocsIn
    <2>3. FirstIn(e, l) = n
      BY <2>1, <2>2
    <2> QED
      BY <1>3, <2>1, <2>3 DEF StoredIn
  <1> QED
    BY <1>1, <1>3, <1>4, <1>5

\* The save of some parts, in a request that writes one after the other.
LEMMA SaveKeeps ==
  ASSUME LookIInv, NEW a \in Admins, NEW k \in ThemeKeys, NEW todo \in Seq(Parts \X Nat), todo # << >>,
         Save(a, k, todo)
  PROVE  LookIInv'
  <1>1. LookTypes
    BY DEF LookIInv
  <1>2. PICK r : r = [NoLook EXCEPT !.op = "save", !.key = k, !.todo = todo]
    OBVIOUS
  <1>3. r = [op |-> "save", step |-> 0, n |-> 0, key |-> k, todo |-> todo, name |-> 0,
             file |-> "none", id |-> 0, fd |-> 0]
    BY <1>2 DEF NoLook
  <1>4. r \in LookRec
    BY <1>3 DEF LookRec, Filenames
  <1>5. Take(a, r)
    BY <1>2 DEF Save
  <1>6. PICK q \in LookRec : Moves(a, q) /\ look[a].op = "none" /\ q.op = r.op /\ q.todo = r.todo
    BY <1>1, <1>4, <1>5, TakeMoves
  <1>7. q.op = "save" /\ q.todo # << >>
    BY <1>3, <1>6
  <1>8. UNCHANGED themeVars /\ UNCHANGED fontVars /\ UNCHANGED assetVars /\ UNCHANGED iconVars
    BY DEF Save
  <1>9. LookTypes' /\ ThemesOK'
    BY <1>1, <1>6, <1>7, <1>8, MovesTypes, ThemesQuiet DEF LookIInv
  <1>10. FontsOK'
    BY <1>1, <1>6, <1>7, <1>8, FontsQuiet DEF LookIInv
  <1>11. AssetsOK' /\ IconsOK'
    BY <1>1, <1>6, <1>7, <1>8, AssetsQuiet, IconsQuiet DEF LookIInv
  <1> QED
    BY <1>9, <1>10, <1>11 DEF LookIInv

\* A request that has written a part goes on to the next, or ends.
LEMMA NextPartMoves ==
  ASSUME LookTypes, ThemesOK, NEW a \in Admins, look[a].op = "save", NextPart(a)
  PROVE  \E q \in LookRec, p \in Parts, v \in Nat :
            /\ Moves(a, q) /\ q.op \in {"none", "save"} /\ (q.op = "save" => q.todo # << >>)
            /\ Head(look[a].todo)[1] = p /\ Head(look[a].todo)[2] = v /\ look[a].key \in ThemeKeys
            /\ saved' = [saved EXCEPT ![look[a].key][p] = v]
            /\ installed' = installed /\ active' = active
            /\ UNCHANGED fontVars /\ UNCHANGED assetVars /\ UNCHANGED iconVars
  <1>1. PICK r : r = look[a]
    OBVIOUS
  <1>2. r \in LookRec /\ r.op = "save" /\ r.todo # << >> /\ r.n \in 1 .. looks
    BY <1>1 DEF LookTypes, ThemesOK
  <1>3. r.todo \in Seq(Parts \X Nat) /\ r.key \in ThemeKeys
    BY <1>2 DEF LookRec
  <1>4. PICK h : h = Head(r.todo)
    OBVIOUS
  <1>5. h \in Parts \X Nat
    BY <1>2, <1>3, <1>4
  <1>6. PICK p \in Parts, v \in Nat : h[1] = p /\ h[2] = v
    BY <1>5
  <1>7. PICK t : t = Tail(r.todo)
    OBVIOUS
  <1>8. t \in Seq(Parts \X Nat) /\ (Len(r.todo) # 1 => t # << >>)
    <2>1. PICK u : u = r.todo
      OBVIOUS
    <2>2. u \in Seq(Parts \X Nat) /\ u # << >>
      BY <1>2, <1>3, <2>1
    <2>3. Tail(u) \in Seq(Parts \X Nat) /\ Len(Tail(u)) = Len(u) - 1
      BY <2>2, HeadTailProperties
    <2>4. ASSUME Len(u) # 1 PROVE Tail(u) # << >>
      <3>1. Len(u) \in Nat /\ Len(<< >>) = 0
        BY <2>2
      <3>2. Len(Tail(u)) # 0
        BY <2>3, <2>4, <3>1
      <3> QED
        BY <3>1, <3>2
    <2> QED
      BY <1>7, <2>1, <2>3, <2>4
  <1>9. PICK s : s = [r EXCEPT !.todo = t, !.step = 0]
    OBVIOUS
  <1>10. s \in LookRec /\ s.op = "save" /\ s.todo = t /\ s.n = r.n
    <2>1. PICK w : w = [r EXCEPT !.todo = t]
      OBVIOUS
    <2>2. w \in LookRec /\ w.op = "save" /\ w.todo = t /\ w.n = r.n
      BY <1>2, <1>8, <2>1 DEF LookRec
    <2>3. s = [w EXCEPT !.step = 0]
      BY <1>9, <2>1
    <2> QED
      BY <2>2, <2>3 DEF LookRec
  <1>11. PICK q : q = IF Len(r.todo) = 1 THEN NoLook ELSE s
    OBVIOUS
  <1>12. q \in LookRec /\ q.op \in {"none", "save"} /\ (q.op = "save" => q.todo # << >> /\ q.n = r.n)
    BY <1>8, <1>10, <1>11, NoLookIs
  <1>13. look' = [look EXCEPT ![a] = q] /\ looks' = looks
    BY <1>1, <1>7, <1>9, <1>11 DEF NextPart
  <1>14. Moves(a, q)
    <2>1. looks \in 0 .. MaxLooks /\ MaxLooks \in Nat
      BY AppearanceAssumption DEF LookTypes
    <2> QED
      BY <1>2, <1>12, <1>13, <2>1 DEF Moves
  <1>15. saved' = [saved EXCEPT ![look[a].key][p] = v]
    BY <1>1, <1>4, <1>6 DEF NextPart
  <1>16. installed' = installed /\ active' = active /\ UNCHANGED fontVars /\ UNCHANGED assetVars /\ UNCHANGED iconVars
    BY DEF NextPart
  <1> QED
    BY <1>1, <1>3, <1>4, <1>6, <1>12, <1>14, <1>15, <1>16

\* It leaves the other kinds of request alone.
LEMMA NextPartAside ==
  ASSUME LookIInv, NEW a \in Admins, look[a].op = "save", NextPart(a)
  PROVE  LookTypes' /\ FontsOK' /\ AssetsOK' /\ IconsOK' /\ \A b \in Admins : look'[b].op = "save" => look'[b].todo # << >>
  <1>1. LookTypes /\ ThemesOK
    BY DEF LookIInv
  <1>2. PICK q \in LookRec :
           /\ Moves(a, q) /\ q.op \in {"none", "save"} /\ (q.op = "save" => q.todo # << >>)
           /\ UNCHANGED fontVars /\ UNCHANGED assetVars /\ UNCHANGED iconVars
    BY <1>1, NextPartMoves
  <1>3. LookTypes' /\ \A b \in Admins : look'[b] = IF b = a THEN q ELSE look[b]
    BY <1>1, <1>2, MovesTypes
  <1>4. \A b \in Admins : look'[b].op = "save" => look'[b].todo # << >>
    BY <1>1, <1>2, <1>3 DEF ThemesOK
  <1>5. FontsOK'
    BY <1>1, <1>2, FontsQuiet DEF LookIInv
  <1>6. AssetsOK' /\ IconsOK'
    BY <1>1, <1>2, AssetsQuiet, IconsQuiet DEF LookIInv
  <1> QED
    BY <1>3, <1>4, <1>5, <1>6

LEMMA UpdatePartKeeps ==
  ASSUME LookIInv, NEW a \in Admins, UpdatePart(a)
  PROVE  LookIInv'
  <1>1. LookTypes /\ ThemesOK /\ look[a].op = "save" /\ NextPart(a)
    BY DEF LookIInv, UpdatePart, Doing
  <1>2. PICK k : k = look[a].key
    OBVIOUS
  <1>3. PICK p \in Parts, v \in Nat :
           /\ Head(look[a].todo)[1] = p /\ Head(look[a].todo)[2] = v /\ k \in ThemeKeys
           /\ saved' = [saved EXCEPT ![k][p] = v] /\ installed' = installed /\ active' = active
    <2>1. PICK q \in LookRec, p \in Parts, v \in Nat :
            /\ Moves(a, q) /\ q.op \in {"none", "save"} /\ (q.op = "save" => q.todo # << >>)
            /\ Head(look[a].todo)[1] = p /\ Head(look[a].todo)[2] = v /\ look[a].key \in ThemeKeys
            /\ saved' = [saved EXCEPT ![look[a].key][p] = v]
            /\ installed' = installed /\ active' = active
            /\ UNCHANGED fontVars /\ UNCHANGED assetVars /\ UNCHANGED iconVars
      BY <1>1, NextPartMoves
    <2> QED
      BY <1>2, <2>1
  <1>4. PICK d : d = themeDocs
    OBVIOUS
  <1>5. d \in Seq(ThemeDoc) /\ DocsIn(d, k) # {} /\ doubled' = doubled
    BY <1>1, <1>2, <1>4, StoredNow DEF ThemesOK, UpdatePart
  <1>6. themeDocs' = [d EXCEPT ![FirstIn(d, k)].parts[p] = v]
    BY <1>2, <1>3, <1>4, StoredNow DEF UpdatePart, SetPart
  <1>7. PICK e : e = themeDocs'
    OBVIOUS
  <1>8. /\ e \in Seq(ThemeDoc)
        /\ \A l \in ThemeKeys, q \in Parts : StoredIn(e, l, q) = IF l = k /\ q = p THEN v ELSE StoredIn(d, l, q)
    <2>1. IsSet(d, e, k, p, v)
      BY <1>6, <1>7 DEF IsSet
    <2>2. k \in ThemeKeys /\ d \in Seq(ThemeDoc) /\ DocsIn(d, k) # {}
      BY <1>3, <1>5
    <2> QED
      BY <2>1, <2>2, SetStored
  <1>9. saved \in [ThemeKeys -> [Parts -> Nat]]
    BY <1>1 DEF ThemesOK
  <1>10. /\ saved' \in [ThemeKeys -> [Parts -> Nat]]
         /\ \A l \in ThemeKeys, q \in Parts : saved'[l][q] = IF l = k /\ q = p THEN v ELSE saved[l][q]
    BY <1>3, <1>9
  <1>11. SavedShown'
    <2>1. ASSUME NEW l \in ThemeKeys \ doubled, NEW q \in Parts PROVE Stored(l, q)' = saved'[l][q]
      <3>1. Stored(l, q) = saved[l][q] /\ Stored(l, q) = StoredIn(d, l, q)
        BY <1>1, <1>4, StoredNow DEF ThemesOK, SavedShown
      <3>2. Stored(l, q)' = StoredIn(e, l, q)
        BY <1>7, StoredNext
      <3> QED
        BY <1>8, <1>10, <3>1, <3>2
    <2> QED
      BY <1>5, <2>1 DEF SavedShown
  <1>12. LookTypes' /\ FontsOK' /\ AssetsOK' /\ IconsOK'
         /\ \A b \in Admins : look'[b].op = "save" => look'[b].todo # << >>
    BY <1>1, NextPartAside
  <1>13. ThemesOK'
    BY <1>1, <1>3, <1>7, <1>8, <1>10, <1>11, <1>12 DEF ThemesOK
  <1> QED
    BY <1>12, <1>13 DEF LookIInv

LEMMA InsertPartKeeps ==
  ASSUME LookIInv, NEW a \in Admins, InsertPart(a)
  PROVE  LookIInv'
  <1>1. LookTypes /\ ThemesOK /\ look[a].op = "save" /\ NextPart(a)
    BY DEF LookIInv, InsertPart, Doing
  <1>2. PICK k : k = look[a].key
    OBVIOUS
  <1>3. PICK p \in Parts, v \in Nat :
           /\ Head(look[a].todo)[1] = p /\ Head(look[a].todo)[2] = v /\ k \in ThemeKeys
           /\ saved' = [saved EXCEPT ![k][p] = v] /\ installed' = installed /\ active' = active
    <2>1. PICK q \in LookRec, p \in Parts, v \in Nat :
            /\ Moves(a, q) /\ q.op \in {"none", "save"} /\ (q.op = "save" => q.todo # << >>)
            /\ Head(look[a].todo)[1] = p /\ Head(look[a].todo)[2] = v /\ look[a].key \in ThemeKeys
            /\ saved' = [saved EXCEPT ![look[a].key][p] = v]
            /\ installed' = installed /\ active' = active
            /\ UNCHANGED fontVars /\ UNCHANGED assetVars /\ UNCHANGED iconVars
      BY <1>1, NextPartMoves
    <2> QED
      BY <1>2, <2>1
  <1>4. PICK d : d = themeDocs
    OBVIOUS
  <1>5. PICK x : x = [key |-> k, parts |-> [[q \in Parts |-> 0] EXCEPT ![p] = v]]
    OBVIOUS
  <1>6. x \in ThemeDoc /\ x.key = k /\ \A q \in Parts : x.parts[q] = IF q = p THEN v ELSE 0
    BY <1>3, <1>5 DEF ThemeDoc
  <1>7. themeDocs' = Append(d, x)
    BY <1>2, <1>3, <1>4, <1>5 DEF InsertPart
  <1>8. d \in Seq(ThemeDoc) /\ doubled' = IF DocsIn(d, k) # {} THEN doubled \cup {k} ELSE doubled
    BY <1>1, <1>2, <1>4, StoredNow DEF ThemesOK, InsertPart
  <1>9. PICK e : e = themeDocs'
    OBVIOUS
  <1>10. /\ e \in Seq(ThemeDoc)
         /\ \A l \in ThemeKeys, q \in Parts :
               /\ l # k => StoredIn(e, l, q) = StoredIn(d, l, q)
               /\ l = k /\ DocsIn(d, l) = {} => StoredIn(e, l, q) = x.parts[q]
    BY <1>6, <1>7, <1>8, <1>9, AddStored
  <1>11. saved \in [ThemeKeys -> [Parts -> Nat]]
    BY <1>1 DEF ThemesOK
  <1>12. /\ saved' \in [ThemeKeys -> [Parts -> Nat]]
         /\ \A l \in ThemeKeys, q \in Parts : saved'[l][q] = IF l = k /\ q = p THEN v ELSE saved[l][q]
    BY <1>3, <1>11
  <1>13. SavedShown'
    <2>1. ASSUME NEW l \in ThemeKeys \ doubled', NEW q \in Parts PROVE Stored(l, q)' = saved'[l][q]
      <3>1. l \in ThemeKeys \ doubled
        BY <1>8
      <3>2. Stored(l, q) = saved[l][q] /\ Stored(l, q) = StoredIn(d, l, q)
        BY <1>1, <1>4, <3>1, StoredNow DEF ThemesOK, SavedShown
      <3>3. Stored(l, q)' = StoredIn(e, l, q)
        BY <1>9, StoredNext
      <3>4. CASE l = k
        <4>1. DocsIn(d, k) = {}
          BY <1>8, <2>1, <3>4
        <4>2. StoredIn(d, l, q) = 0
          BY <3>4, <4>1 DEF StoredIn
        <4> QED
          <5>1. StoredIn(e, l, q) = IF q = p THEN v ELSE 0
            BY <1>6, <1>10, <3>4, <4>1
          <5>2. saved'[l][q] = IF q = p THEN v ELSE saved[l][q]
            BY <1>12, <3>4
          <5> QED
            BY <3>2, <3>3, <4>2, <5>1, <5>2
      <3>5. CASE l # k
        BY <1>10, <1>12, <3>2, <3>3, <3>5
      <3> QED
        BY <3>4, <3>5
    <2> QED
      BY <2>1 DEF SavedShown
  <1>14. LookTypes' /\ FontsOK' /\ AssetsOK' /\ IconsOK'
         /\ \A b \in Admins : look'[b].op = "save" => look'[b].todo # << >>
    BY <1>1, NextPartAside
  <1>15. ThemesOK'
    BY <1>1, <1>3, <1>9, <1>10, <1>12, <1>13, <1>14 DEF ThemesOK
  <1> QED
    BY <1>14, <1>15 DEF LookIInv
LEMMA FindNoneKeeps ==
  ASSUME LookIInv, NEW a \in Admins, FindNone(a)
  PROVE  LookIInv'
  <1>1. LookTypes /\ ThemesOK
    BY DEF LookIInv
  <1>2. look[a].op = "save" /\ Turn(a, 1)
    BY DEF FindNone, Doing
  <1>3. PICK q \in LookRec : Moves(a, q) /\ q.op = look[a].op /\ q.todo = look[a].todo
    BY <1>1, <1>2, TurnMoves
  <1>4. q.op = "save" /\ q.todo # << >>
    BY <1>1, <1>2, <1>3 DEF ThemesOK
  <1>5. UNCHANGED themeVars /\ UNCHANGED fontVars /\ UNCHANGED assetVars /\ UNCHANGED iconVars
    BY DEF FindNone
  <1>6. LookTypes' /\ ThemesOK'
    BY <1>1, <1>3, <1>4, <1>5, MovesTypes, ThemesQuiet
  <1>7. FontsOK'
    BY <1>1, <1>2, <1>3, <1>4, <1>5, FontsQuiet DEF LookIInv
  <1>8. AssetsOK' /\ IconsOK'
    BY <1>1, <1>2, <1>3, <1>4, <1>5, AssetsQuiet, IconsQuiet DEF LookIInv
  <1> QED
    BY <1>6, <1>7, <1>8 DEF LookIInv

\* Nothing moves.
LEMMA StillAside ==
  ASSUME LookIInv, UNCHANGED <<look, looks>>, UNCHANGED fontVars, UNCHANGED assetVars, UNCHANGED iconVars
  PROVE  LookTypes' /\ FontsOK' /\ AssetsOK' /\ IconsOK'
  <1>1. LookTypes'
    BY DEF LookIInv, LookTypes
  <1>2. FontsOK'
    BY DEF LookIInv, FontsOK, FontTypes, FontOnce, Adding, Deleting, Holds, fontVars
  <1>3. AssetsOK'
    BY DEF LookIInv, AssetsOK, BusyAsset, assetVars
  <1>4. IconsOK'
    BY DEF LookIInv, IconsOK, Whole, iconVars
  <1> QED
    BY <1>1, <1>2, <1>3, <1>4

LEMMA ActiveThemes ==
  ASSUME ThemesOK, themeDocs' = themeDocs, saved' = saved, doubled' = doubled, look' = look,
         active' \in ThemeKeys, ConfigTheme \in installed'
  PROVE  ThemesOK'
  <1>1. ASSUME NEW k \in ThemeKeys \ doubled, NEW p \in Parts PROVE Stored(k, p)' = saved[k][p]
    <2>1. Stored(k, p) = saved[k][p]
      BY DEF ThemesOK, SavedShown
    <2> QED
      BY <2>1, StoredNow, StoredNext
  <1>2. SavedShown'
    BY <1>1 DEF SavedShown
  <1> QED
    BY <1>2 DEF ThemesOK

LEMMA ActivateKeeps ==
  ASSUME LookIInv, NEW a \in Admins, NEW k \in ThemeKeys, Activate(a, k)
  PROVE  LookIInv'
  <1>1. LookTypes /\ look[a].op = "none"
    BY DEF LookIInv, Activate
  <1>2. PICK q : q = look[a]
    OBVIOUS
  <1>3. Moves(a, q)
    <2>1. looks \in 0 .. MaxLooks /\ MaxLooks \in Nat /\ look \in [Admins -> LookRec]
      BY <1>1, AppearanceAssumption DEF LookTypes
    <2>2. look' = look /\ looks' = looks + 1 /\ looks < MaxLooks
      BY DEF Activate
    <2> QED
      BY <1>1, <1>2, <2>1, <2>2 DEF Moves
  <1>4. UNCHANGED fontVars /\ UNCHANGED assetVars /\ UNCHANGED iconVars
    BY DEF Activate
  <1>5. LookTypes' /\ FontsOK'
    BY <1>1, <1>2, <1>3, <1>4, MovesTypes, FontsQuiet DEF LookIInv
  <1>6. AssetsOK' /\ IconsOK'
    BY <1>1, <1>2, <1>3, <1>4, AssetsQuiet, IconsQuiet DEF LookIInv
  <1>7. ThemesOK'
    <2>1. ThemesOK
      BY DEF LookIInv
    <2>2. themeDocs' = themeDocs /\ saved' = saved /\ doubled' = doubled /\ look' = look
      BY DEF Activate
    <2>3. active' \in ThemeKeys /\ ConfigTheme \in installed'
      BY <2>1 DEF Activate, ThemesOK
    <2> QED
      BY <2>1, <2>2, <2>3, ActiveThemes
  <1> QED
    BY <1>5, <1>6, <1>7 DEF LookIInv

LEMMA RemoveThemeKeeps ==
  ASSUME LookIInv, NEW k \in ThemeKeys, RemoveTheme(k)
  PROVE  LookIInv'
  <1>1. UNCHANGED <<look, looks>> /\ UNCHANGED fontVars /\ UNCHANGED assetVars /\ UNCHANGED iconVars
    BY DEF RemoveTheme
  <1>2. LookTypes' /\ FontsOK' /\ AssetsOK' /\ IconsOK'
    BY <1>1, StillAside
  <1>3. ThemesOK'
    <2>1. ThemesOK
      BY DEF LookIInv
    <2>2. themeDocs' = themeDocs /\ saved' = saved /\ doubled' = doubled /\ look' = look
      BY DEF RemoveTheme
    <2>3. active' \in ThemeKeys /\ ConfigTheme \in installed'
      BY <2>1 DEF RemoveTheme, ThemesOK
    <2> QED
      BY <2>1, <2>2, <2>3, ActiveThemes
  <1> QED
    BY <1>2, <1>3 DEF LookIInv

LEMMA ThemeStepKeeps ==
  ASSUME LookIInv, NEW a \in Admins, ThemeStep(a)
  PROVE  LookIInv'
  <1>0. looks + 1 \in Nat
    <2>1. looks \in 0 .. MaxLooks /\ MaxLooks \in Nat
      BY AppearanceAssumption DEF LookIInv, LookTypes
    <2> QED
      BY <2>1
  <1>1. PICK v \in Nat : v = looks + 1
    BY <1>0
  <1> DEFINE Todo == {todo \in Seq(Parts \X Nat) : todo # << >>}
  <1>2. \A p \in Parts, w \in Nat : << <<p, w>> >> \in Todo
    BY DEF Parts
  <1>3. ASSUME NEW k \in ThemeKeys, NEW todo \in Todo, Save(a, k, todo) PROVE LookIInv'
    BY <1>3, SaveKeeps
  <1>4. ASSUME NEW k \in ThemeKeys, SaveBanner(a, k) \/ SaveFooter(a, k) \/ SaveCss(a, k) \/ RestoreCss(a, k)
        PROVE  LookIInv'
    <2>1. \E p \in Parts, w \in Nat : Save(a, k, << <<p, w>> >>)
      BY <1>1, <1>4 DEF SaveBanner, SaveFooter, SaveCss, RestoreCss, UpdateThemeEpochField, UpdateThemeCss, Parts
    <2> HIDE DEF Todo
    <2> QED
      BY <1>2, <1>3, <2>1
  <1>5. ASSUME NEW k \in ThemeKeys, NEW f \in FontNames, SaveLogo(a, k, f) PROVE LookIInv'
    <2>1. f \in Nat /\ "logo" \in Parts
      BY AppearanceAssumption DEF Parts
    <2>2. Save(a, k, << <<"logo", f>> >>)
      BY <1>5 DEF SaveLogo, UpdateThemeLogoConfig
    <2> HIDE DEF Todo
    <2> QED
      BY <1>2, <1>3, <2>1, <2>2
  <1>6. ASSUME NEW k \in ThemeKeys, NEW f \in FontNames, SaveColors(a, k, f) PROVE LookIInv'
    <2>1. f \in Nat /\ "colors" \in Parts /\ "logo_font" \in Parts
      BY AppearanceAssumption DEF Parts
    <2>2. Save(a, k, << <<"colors", v>>, <<"logo_font", f>> >>)
      BY <1>1, <1>6 DEF SaveColors, UpdateThemeColors, UpdateThemeLogoFont
    <2>3. << <<"colors", v>>, <<"logo_font", f>> >> \in Todo
      BY <2>1
    <2> HIDE DEF Todo
    <2> QED
      BY <1>3, <2>2, <2>3
  <1>7. ASSUME NEW k \in ThemeKeys, SaveHomeBlog(a, k) PROVE LookIInv'
    <2>1. PICK todo : todo = [i \in 1 .. 3 |-> UpdateThemeEpochField(<<"blog", "item", "shown">>[i], looks + 1)]
      OBVIOUS
    <2>2. Save(a, k, todo)
      BY <1>7, <2>1 DEF SaveHomeBlog
    <2>3. \A i \in 1 .. 3 : <<"blog", "item", "shown">>[i] \in Parts
      BY DEF Parts
    <2>4. todo \in [1 .. 3 -> Parts \X Nat]
      BY <1>1, <2>1, <2>3 DEF UpdateThemeEpochField
    <2>5. todo \in Seq(Parts \X Nat) /\ todo # << >>
      <3>1. PICK S : S = Parts \X Nat
        OBVIOUS
      <3>2. todo \in [1 .. 3 -> S]
        BY <2>4, <3>1
      <3>3. todo \in Seq(S)
        <4>1. Seq(S) = UNION {[1 .. n -> S] : n \in Nat} /\ 3 \in Nat
          BY SeqDef
        <4> QED
          BY <3>2, <4>1, Zenon
      <3>4. 1 \in DOMAIN todo /\ DOMAIN << >> = {}
        BY <3>2
      <3>5. todo # << >>
        BY <3>4
      <3> QED
        BY <3>1, <3>3, <3>5
    <2>6. todo \in Todo
      BY <2>5
    <2> HIDE DEF Todo
    <2> QED
      BY <1>3, <2>2, <2>6
  <1> HIDE DEF Todo
  <1> QED
    BY <1>4, <1>5, <1>6, <1>7, ActivateKeeps, UpdatePartKeeps, FindNoneKeeps, InsertPartKeeps DEF ThemeStep
-----------------------------------------------------------------------------
(* Fonts.                                                                  *)

FontOps == {"none", "font", "unfont"}

LEMMA FontAside ==
  ASSUME LookIInv, NEW a \in Admins, NEW q, Moves(a, q), look[a].op \in FontOps, q.op \in FontOps,
         UNCHANGED themeVars, UNCHANGED assetVars, UNCHANGED iconVars, FontsOK'
  PROVE  LookIInv'
  <1>1. LookTypes /\ ThemesOK
    BY DEF LookIInv
  <1>2. LookTypes' /\ ThemesOK'
    BY <1>1, MovesTypes, ThemesQuiet DEF FontOps
  <1>3. AssetsOK' /\ IconsOK'
    BY <1>1, AssetsQuiet, IconsQuiet DEF LookIInv, FontOps
  <1> QED
    BY <1>2, <1>3 DEF LookIInv

LEMMA UploadFontKeeps ==
  ASSUME LookIInv, NEW a \in Admins, NEW nm \in FontNames, NEW f \in FontFileNames, UploadFont(a, nm, f)
  PROVE  LookIInv'
  <1>1. LookTypes /\ FontsOK
    BY DEF LookIInv
  <1>2. PICK r : r = [NoLook EXCEPT !.op = "font", !.step = 1, !.name = nm, !.file = f]
    OBVIOUS
  <1>3. r = [op |-> "font", step |-> 1, n |-> 0, key |-> ConfigTheme, todo |-> << >>, name |-> nm,
             file |-> f, id |-> 0, fd |-> 0]
    BY <1>2 DEF NoLook
  <1>4. r \in LookRec
    <2>1. << >> \in Seq(Parts \X Nat) /\ nm \in Nat /\ ConfigTheme \in ThemeKeys
      BY AppearanceAssumption
    <2> QED
      BY <1>3, <2>1 DEF LookRec, Filenames
  <1>5. Take(a, r)
    BY <1>2 DEF UploadFont
  <1>6. PICK q \in LookRec : Moves(a, q) /\ look[a].op = "none" /\ q.op = r.op /\ q.step = r.step /\ q.file = r.file
    BY <1>1, <1>4, <1>5, TakeMoves
  <1>7. q.op = "font" /\ q.step = 1 /\ q.file \in FontFileNames
    BY <1>3, <1>6
  <1>8. UNCHANGED themeVars /\ UNCHANGED fontVars /\ UNCHANGED assetVars /\ UNCHANGED iconVars
    BY DEF UploadFont
  <1>9. FontsOK'
    BY <1>1, <1>6, <1>7, <1>8, FontsQuiet
  <1> QED
    BY <1>6, <1>7, <1>8, <1>9, FontAside DEF FontOps

\* The bytes of a file: of the upload, or none of them.
LEMMA WriteFontKeeps ==
  ASSUME LookIInv, NEW a \in Admins, WriteFont(a)
  PROVE  LookIInv'
  <1>1. LookTypes /\ FontsOK /\ FontTypes
    BY DEF LookIInv, FontsOK
  <1>2. look[a].op = "font" /\ look[a].step = 1
    BY DEF WriteFont, Doing
  <1>3. PICK f \in FontFileNames : f = look[a].file
    BY <1>1, <1>2 DEF FontTypes
  <1>4. PICK n : /\ n \in {0, look[a].n}
                 /\ fontFiles' = [g \in DOMAIN fontFiles \cup {f} |-> IF g = f THEN n ELSE fontFiles[g]]
                 /\ IF n = 0 THEN Finish(a) ELSE Turn(a, 2)
    BY <1>3 DEF WriteFont
  <1>5. /\ fonts' = fonts
        /\ UNCHANGED themeVars /\ UNCHANGED assetVars /\ UNCHANGED iconVars
    BY DEF WriteFont
  <1>6. reused' = IF f \in DOMAIN fontFiles \/ \E i \in DOMAIN fonts : fonts[i].file = f
                  THEN reused \cup {f} ELSE reused
    BY <1>3 DEF WriteFont
  <1>7. PICK q : /\ Moves(a, q) /\ looks' = looks /\ q.op \in {"none", "font"}
                 /\ q.op = "font" => q.step = 2 /\ q.file = f /\ q.n = n
    <2>1. CASE n = 0
      BY <1>1, <1>4, <2>1, FinishMoves, NoLookIs
    <2>2. CASE n # 0
      <3>1. Turn(a, 2) /\ n = look[a].n
        BY <1>4, <2>2
      <3>2. PICK q \in LookRec : Moves(a, q) /\ looks' = looks /\ q.op = look[a].op /\ q.step = 2
                                 /\ q.file = look[a].file /\ q.n = look[a].n
        BY <1>1, <1>2, <3>1, TurnMoves
      <3> QED
        BY <1>2, <1>3, <3>1, <3>2
    <2> QED
      BY <2>1, <2>2
  <1>8. (\A b \in Admins : look'[b] = IF b = a THEN q ELSE look[b])
    BY <1>1, <1>7, MovesTypes
  <1>9. FontTypes'
    <2>1. \A b \in Admins :
            /\ look'[b].op = "font" => look'[b].file \in FontFileNames
            /\ look'[b].op = "unfont" => look'[b].id \in DOMAIN fonts /\ fonts[look'[b].id].file = look'[b].file
      BY <1>1, <1>7, <1>8 DEF FontTypes
    <2> QED
      BY <1>1, <1>5, <1>7, <2>1 DEF FontTypes
  <1>10. ASSUME NEW g \in FontFileNames \ reused' PROVE FontOnce(g)'
    <2>1. FontOnce(g)
      BY <1>1, <1>6, <1>10 DEF FontsOK
    <2>2. \A b \in Admins : Deleting(b, g)' <=> Deleting(b, g)
      BY <1>2, <1>7, <1>8 DEF Deleting
    <2>3. CASE g # f
      <3>1. \A b \in Admins : Adding(b, g)' => Adding(b, g) /\ look'[b] = look[b]
        BY <1>7, <1>8, <2>3 DEF Adding
      <3>2. \A m : Holds(g, m) => Holds(g, m)'
        BY <1>4, <2>3 DEF Holds
      <3> QED
        BY <1>5, <2>1, <2>2, <3>1, <3>2 DEF FontOnce
    <2>4. CASE g = f
      <3>1. f \notin DOMAIN fontFiles /\ \A i \in DOMAIN fonts : fonts[i].file # f
        BY <1>6, <1>10, <2>4
      <3>2. \A b \in Admins : ~Adding(b, f)
        BY <2>1, <2>4, <3>1 DEF FontOnce, Holds
      <3>3. \A b \in Admins : Adding(b, f)' => b = a /\ look'[a].n = n
        BY <1>7, <1>8, <3>2 DEF Adding
      <3>4. \A m : m = n => Holds(f, m)'
        BY <1>4 DEF Holds
      <3> QED
        BY <1>5, <2>4, <3>1, <3>3, <3>4 DEF FontOnce
    <2> QED
      BY <2>3, <2>4
  <1>11. FontsOK'
    BY <1>9, <1>10 DEF FontsOK
  <1> QED
    BY <1>2, <1>5, <1>7, <1>11, FontAside DEF FontOps

LEMMA AddFontKeeps ==
  ASSUME LookIInv, NEW a \in Admins, AddFont(a)
  PROVE  LookIInv'
  <1>1. LookTypes /\ FontsOK /\ FontTypes
    BY DEF LookIInv, FontsOK
  <1>2. look[a].op = "font" /\ look[a].step = 2
    BY DEF AddFont, Doing
  <1>3. PICK f \in FontFileNames : f = look[a].file
    BY <1>1, <1>2 DEF FontTypes
  <1>4. PICK n : n = look[a].n
    OBVIOUS
  <1>5. n \in 1 .. looks /\ look[a].name \in Nat /\ looks \in Nat
    BY <1>1, <1>2, <1>4, AppearanceAssumption DEF LookTypes, LookRec
  <1>6. PICK x : x = [name |-> look[a].name, file |-> f, n |-> n, exists |-> TRUE]
    OBVIOUS
  <1> DEFINE Font == [name : Nat, file : FontFileNames, n : Nat, exists : BOOLEAN]
  <1>7. x \in Font /\ x.file = f /\ x.n = n
    BY <1>5, <1>6
  <1>8. fonts' = Append(fonts, x) /\ fontFiles' = fontFiles /\ reused' = reused
    BY <1>3, <1>4, <1>6 DEF AddFont
  <1>9. UNCHANGED themeVars /\ UNCHANGED assetVars /\ UNCHANGED iconVars
    BY DEF AddFont
  <1>10. Moves(a, NoLook) /\ looks' = looks
    BY <1>1, FinishMoves DEF AddFont
  <1>11. \A b \in Admins : look'[b] = IF b = a THEN NoLook ELSE look[b]
    BY <1>1, <1>10, MovesTypes
  <1>12. PICK m : m = Len(fonts) + 1
    OBVIOUS
  <1>13. /\ fonts' \in Seq(Font) /\ DOMAIN fonts' = DOMAIN fonts \cup {m} /\ fonts'[m] = x
         /\ \A j \in DOMAIN fonts : fonts'[j] = fonts[j]
    <2>1. fonts \in Seq(Font)
      BY <1>1 DEF FontTypes
    <2> HIDE DEF Font
    <2>2. fonts' \in Seq(Font) /\ Len(fonts') = m /\ fonts'[m] = x /\ \A j \in 1 .. Len(fonts) : fonts'[j] = fonts[j]
      BY <1>7, <1>8, <1>12, <2>1, AppendProperties
    <2>3. DOMAIN fonts' = 1 .. m /\ DOMAIN fonts = 1 .. Len(fonts) /\ Len(fonts) \in Nat
      BY <2>1, <2>2
    <2> QED
      BY <1>12, <2>2, <2>3
  <1>14. FontTypes'
    <2>1. \A i \in DOMAIN fonts' : fonts'[i].n \in 1 .. looks'
      BY <1>1, <1>5, <1>7, <1>10, <1>13 DEF FontTypes
    <2>2. \A b \in Admins :
            /\ look'[b].op = "font" => look'[b].file \in FontFileNames
            /\ look'[b].op = "unfont" => look'[b].id \in DOMAIN fonts' /\ fonts'[look'[b].id].file = look'[b].file
      BY <1>1, <1>11, <1>13, NoLookIs DEF FontTypes
    <2> QED
      BY <1>13, <2>1, <2>2 DEF FontTypes
  <1>15. ASSUME NEW g \in FontFileNames \ reused' PROVE FontOnce(g)'
    <2>1. FontOnce(g)
      BY <1>1, <1>8, <1>15 DEF FontsOK
    <2>2. \A b \in Admins : Deleting(b, g)' <=> Deleting(b, g)
      BY <1>2, <1>11, NoLookIs DEF Deleting
    <2>3. \A b \in Admins : Adding(b, g)' => b # a /\ Adding(b, g) /\ look'[b] = look[b]
      BY <1>11, NoLookIs DEF Adding
    <2>4. \A k : Holds(g, k)' <=> Holds(g, k)
      BY <1>8 DEF Holds
    <2>5. CASE g # f
      BY <1>7, <1>13, <2>1, <2>2, <2>3, <2>4, <2>5 DEF FontOnce
    <2>6. CASE g = f
      <3>1. Adding(a, f)
        BY <1>2, <1>3 DEF Adding
      <3>2. Holds(f, n) /\ \A i \in DOMAIN fonts : fonts[i].file # f
        BY <1>4, <2>1, <2>6, <3>1 DEF FontOnce
      <3>3. \A b \in Admins : ~Adding(b, f)'
        BY <2>1, <2>3, <2>6, <3>1 DEF FontOnce
      <3>4. \A i \in DOMAIN fonts' : fonts'[i].file = f => i = m
        BY <1>13, <3>2
      <3> QED
        BY <1>7, <1>13, <2>4, <2>6, <3>2, <3>3, <3>4 DEF FontOnce
    <2> QED
      BY <2>5, <2>6
  <1>16. FontsOK'
    BY <1>14, <1>15 DEF FontsOK
  <1> QED
    BY <1>2, <1>9, <1>10, <1>16, FontAside, NoLookIs DEF FontOps

LEMMA FontElement ==
  ASSUME FontTypes, NEW i \in DOMAIN fonts
  PROVE  fonts[i] \in [name : Nat, file : FontFileNames, n : Nat, exists : BOOLEAN] /\ i \in Nat
  <1>1. PICK S : S = [name : Nat, file : FontFileNames, n : Nat, exists : BOOLEAN]
    OBVIOUS
  <1>2. fonts \in Seq(S)
    BY <1>1 DEF FontTypes
  <1>3. fonts[i] \in S /\ i \in Nat
    BY <1>2
  <1> QED
    BY <1>1, <1>3

LEMMA DeleteFontKeeps ==
  ASSUME LookIInv, NEW a \in Admins, NEW i \in DOMAIN fonts, DeleteFont(a, i)
  PROVE  LookIInv'
  <1>1. LookTypes /\ FontsOK /\ FontTypes
    BY DEF LookIInv, FontsOK
  <1>2. PICK f \in FontFileNames : f = fonts[i].file
    BY <1>1, FontElement
  <1>3. PICK r : r = [NoLook EXCEPT !.op = "unfont", !.step = 1, !.id = i, !.file = f]
    OBVIOUS
  <1>4. r = [op |-> "unfont", step |-> 1, n |-> 0, key |-> ConfigTheme, todo |-> << >>, name |-> 0,
             file |-> f, id |-> i, fd |-> 0]
    BY <1>3 DEF NoLook
  <1>5. i \in Nat
    BY <1>1, FontElement
  <1>6. r \in LookRec
    <2>1. << >> \in Seq(Parts \X Nat) /\ ConfigTheme \in ThemeKeys
      BY AppearanceAssumption
    <2> QED
      BY <1>4, <1>5, <2>1 DEF LookRec, Filenames
  <1>7. Take(a, r)
    BY <1>2, <1>3 DEF DeleteFont
  <1>8. PICK q \in LookRec : /\ Moves(a, q) /\ look[a].op = "none" /\ looks' = looks + 1
                             /\ q.op = r.op /\ q.step = r.step /\ q.file = r.file /\ q.id = r.id
    BY <1>1, <1>6, <1>7, TakeMoves
  <1>9. q.op = "unfont" /\ q.file = f /\ q.id = i
    BY <1>4, <1>8
  <1>10. UNCHANGED themeVars /\ UNCHANGED fontVars /\ UNCHANGED assetVars /\ UNCHANGED iconVars
    BY DEF DeleteFont
  <1>11. fonts' = fonts /\ fontFiles' = fontFiles /\ reused' = reused
    BY <1>10 DEF fontVars
  <1>12. (\A b \in Admins : look'[b] = IF b = a THEN q ELSE look[b]) /\ looks \in Nat
    BY <1>1, <1>8, MovesTypes
  <1>13. FontTypes'
    <2>1. \A j \in DOMAIN fonts' : fonts'[j].n \in 1 .. looks'
      BY <1>1, <1>8, <1>11, <1>12 DEF FontTypes
    <2>2. \A b \in Admins :
            /\ look'[b].op = "font" => look'[b].file \in FontFileNames
            /\ look'[b].op = "unfont" => look'[b].id \in DOMAIN fonts /\ fonts[look'[b].id].file = look'[b].file
      BY <1>1, <1>2, <1>9, <1>12 DEF FontTypes
    <2> QED
      BY <1>1, <1>11, <2>1, <2>2 DEF FontTypes
  <1>14. ASSUME NEW g \in FontFileNames \ reused' PROVE FontOnce(g)'
    <2>1. FontOnce(g)
      BY <1>1, <1>11, <1>14 DEF FontsOK
    <2>2. \A b \in Admins : Deleting(b, g) => Deleting(b, g)'
      BY <1>8, <1>12 DEF Deleting
    <2>3. \A b \in Admins : Adding(b, g)' => Adding(b, g) /\ look'[b] = look[b]
      BY <1>9, <1>12 DEF Adding
    <2> QED
      BY <1>11, <2>1, <2>2, <2>3 DEF FontOnce, Holds
  <1>15. FontsOK'
    BY <1>13, <1>14 DEF FontsOK
  <1> QED
    BY <1>8, <1>9, <1>10, <1>15, FontAside DEF FontOps

LEMMA RemoveFontFileKeeps ==
  ASSUME LookIInv, NEW a \in Admins, RemoveFontFile(a)
  PROVE  LookIInv'
  <1>1. LookTypes /\ FontsOK /\ FontTypes
    BY DEF LookIInv, FontsOK
  <1>2. look[a].op = "unfont" /\ Turn(a, 2)
    BY DEF RemoveFontFile, Doing
  <1>3. PICK f : f = look[a].file
    OBVIOUS
  <1>4. PICK i \in DOMAIN fonts : i = look[a].id /\ fonts[i].file = f
    BY <1>1, <1>2, <1>3 DEF FontTypes
  <1>5. PICK q \in LookRec : /\ Moves(a, q) /\ looks' = looks /\ q.op = look[a].op
                             /\ q.file = look[a].file /\ q.id = look[a].id
    BY <1>1, <1>2, TurnMoves
  <1>6. q.op = "unfont" /\ q.file = f /\ q.id = i
    BY <1>2, <1>3, <1>4, <1>5
  <1>7. fonts' = fonts /\ reused' = reused /\ fontFiles' = [g \in DOMAIN fontFiles \ {f} |-> fontFiles[g]]
    BY <1>3 DEF RemoveFontFile
  <1>8. UNCHANGED themeVars /\ UNCHANGED assetVars /\ UNCHANGED iconVars
    BY DEF RemoveFontFile
  <1>9. \A b \in Admins : look'[b] = IF b = a THEN q ELSE look[b]
    BY <1>1, <1>5, MovesTypes
  <1>10. FontTypes'
    <2>1. \A b \in Admins :
            /\ look'[b].op = "font" => look'[b].file \in FontFileNames
            /\ look'[b].op = "unfont" => look'[b].id \in DOMAIN fonts /\ fonts[look'[b].id].file = look'[b].file
      BY <1>1, <1>4, <1>6, <1>9 DEF FontTypes
    <2> QED
      BY <1>1, <1>5, <1>7, <2>1 DEF FontTypes
  <1>11. ASSUME NEW g \in FontFileNames \ reused' PROVE FontOnce(g)'
    <2>1. FontOnce(g)
      BY <1>1, <1>7, <1>11 DEF FontsOK
    <2>2. \A b \in Admins : Deleting(b, g)' <=> Deleting(b, g)
      BY <1>2, <1>3, <1>6, <1>9 DEF Deleting
    <2>3. \A b \in Admins : Adding(b, g)' => Adding(b, g) /\ look'[b] = look[b]
      BY <1>6, <1>9 DEF Adding
    <2>4. CASE g # f
      <3>1. \A m : Holds(g, m) => Holds(g, m)'
        BY <1>7, <2>4 DEF Holds
      <3> QED
        BY <1>7, <2>1, <2>2, <2>3, <3>1 DEF FontOnce
    <2>5. CASE g = f
      <3>1. Deleting(a, g)'
        BY <1>6, <1>9, <2>5 DEF Deleting
      <3>2. \A b \in Admins : ~Adding(b, g)'
        BY <1>4, <2>1, <2>3, <2>5 DEF FontOnce
      <3> QED
        BY <1>7, <2>1, <3>1, <3>2 DEF FontOnce
    <2> QED
      BY <2>4, <2>5
  <1>12. FontsOK'
    BY <1>10, <1>11 DEF FontsOK
  <1> QED
    BY <1>2, <1>5, <1>6, <1>8, <1>12, FontAside DEF FontOps

LEMMA DeleteFontRecordKeeps ==
  ASSUME LookIInv, NEW a \in Admins, DeleteFontRecord(a)
  PROVE  LookIInv'
  <1>1. LookTypes /\ FontsOK /\ FontTypes
    BY DEF LookIInv, FontsOK
  <1>2. look[a].op = "unfont"
    BY DEF DeleteFontRecord, Doing
  <1>3. PICK i \in DOMAIN fonts : i = look[a].id /\ fonts[i].file = look[a].file
    BY <1>1, <1>2 DEF FontTypes
  <1> DEFINE Font == [name : Nat, file : FontFileNames, n : Nat, exists : BOOLEAN]
  <1>4. fonts \in Seq(Font)
    BY <1>1 DEF FontTypes
  <1>5. PICK x : x = [fonts[i] EXCEPT !.exists = FALSE]
    OBVIOUS
  <1>6. x \in Font /\ x.file = fonts[i].file /\ x.n = fonts[i].n /\ x.exists = FALSE
    <2>1. PICK y \in Font : y = fonts[i]
      BY <1>1, FontElement
    <2> QED
      BY <1>5, <2>1
  <1>7. fonts' = [fonts EXCEPT ![i] = x] /\ fontFiles' = fontFiles /\ reused' = reused
    BY <1>3, <1>5 DEF DeleteFontRecord
  <1>8. fonts' \in Seq(Font) /\ DOMAIN fonts' = DOMAIN fonts /\ \A j \in DOMAIN fonts : fonts'[j] = IF j = i THEN x ELSE fonts[j]
    <2>1. x \in Font
      BY <1>6
    <2> HIDE DEF Font
    <2>2. i \in 1 .. Len(fonts)
      BY <1>4
    <2>3. [fonts EXCEPT ![i] = x] \in Seq(Font)
      BY <1>4, <2>1, <2>2, ExceptSeq
    <2> QED
      BY <1>7, <2>3
  <1>9. UNCHANGED themeVars /\ UNCHANGED assetVars /\ UNCHANGED iconVars
    BY DEF DeleteFontRecord
  <1>10. Moves(a, NoLook) /\ looks' = looks
    BY <1>1, FinishMoves DEF DeleteFontRecord
  <1>11. \A b \in Admins : look'[b] = IF b = a THEN NoLook ELSE look[b]
    BY <1>1, <1>10, MovesTypes
  <1>12. \A j \in DOMAIN fonts : fonts'[j].file = fonts[j].file /\ fonts'[j].n = fonts[j].n
    BY <1>6, <1>8
  <1>13. FontTypes'
    <2>1. \A j \in DOMAIN fonts' : fonts'[j].n \in 1 .. looks'
      BY <1>1, <1>8, <1>10, <1>12 DEF FontTypes
    <2>2. \A b \in Admins :
            /\ look'[b].op = "font" => look'[b].file \in FontFileNames
            /\ look'[b].op = "unfont" => look'[b].id \in DOMAIN fonts' /\ fonts'[look'[b].id].file = look'[b].file
      <3>1. DOMAIN fonts' = DOMAIN fonts
        BY <1>8
      <3>2. \A b \in Admins :
              /\ look[b].op = "font" => look[b].file \in FontFileNames
              /\ look[b].op = "unfont" => look[b].id \in DOMAIN fonts /\ fonts[look[b].id].file = look[b].file
        BY <1>1 DEF FontTypes
      <3> QED
        BY <1>11, <1>12, <3>1, <3>2, NoLookIs
    <2>3. fonts' \in Seq(Font)
      BY <1>8
    <2> QED
      BY <2>1, <2>2, <2>3 DEF FontTypes
  <1>14. ASSUME NEW g \in FontFileNames \ reused' PROVE FontOnce(g)'
    <2>1. FontOnce(g)
      BY <1>1, <1>7, <1>14 DEF FontsOK
    <2>2. \A b \in Admins : Adding(b, g)' => Adding(b, g) /\ look'[b] = look[b]
      BY <1>11, NoLookIs DEF Adding
    <2>3. \A k : Holds(g, k)' <=> Holds(g, k)
      BY <1>7 DEF Holds
    <2>4. ASSUME NEW j \in DOMAIN fonts, fonts'[j].file = g, fonts'[j].exists
          PROVE  Holds(g, fonts[j].n) \/ \E b \in Admins : Deleting(b, g)'
      <3>1. j # i /\ fonts[j].file = g /\ fonts[j].exists
        BY <1>6, <1>8, <1>12, <2>4
      <3>2. fonts[i].file # g
        BY <2>1, <3>1 DEF FontOnce
      <3>3. \A b \in Admins : Deleting(b, g) => Deleting(b, g)'
        BY <1>3, <1>11, <3>2 DEF Deleting
      <3> QED
        BY <2>1, <3>1, <3>3 DEF FontOnce
    <2>5. \A j, k \in DOMAIN fonts' : fonts'[j].file = g /\ fonts'[k].file = g => j = k
      BY <1>8, <1>12, <2>1 DEF FontOnce
    <2>6. \A b \in Admins : Adding(b, g)' => Holds(g, look[b].n) /\ \A j \in DOMAIN fonts' : fonts'[j].file # g
      BY <1>8, <1>12, <2>1, <2>2, <2>3 DEF FontOnce
    <2>7. \A b, c \in Admins : Adding(b, g)' /\ Adding(c, g)' => b = c
      BY <2>1, <2>2 DEF FontOnce
    <2>8. \A b \in Admins : Adding(b, g)' => Holds(g, look[b].n)'
      <3>1. \A b \in Admins : Adding(b, g)' => look'[b].n = look[b].n /\ Holds(g, look[b].n)
        BY <2>2, <2>6
      <3> QED
        BY <1>7, <3>1 DEF Holds
    <2>9. \A j \in DOMAIN fonts' : fonts'[j].file = g /\ fonts'[j].exists =>
            Holds(g, fonts[j].n)' \/ \E b \in Admins : Deleting(b, g)'
      <3>1. DOMAIN fonts' = DOMAIN fonts
        BY <1>8
      <3>2. \A j \in DOMAIN fonts : fonts'[j].file = g /\ fonts'[j].exists =>
              Holds(g, fonts[j].n) \/ \E b \in Admins : Deleting(b, g)'
        BY <2>4
      <3> QED
        BY <1>7, <1>12, <3>1, <3>2 DEF Holds
    <2> QED
      BY <2>5, <2>6, <2>7, <2>8, <2>9 DEF FontOnce
  <1>15. FontsOK'
    BY <1>13, <1>14 DEF FontsOK
  <1> QED
    BY <1>2, <1>9, <1>10, <1>15, FontAside, NoLookIs DEF FontOps

LEMMA FontStepKeeps ==
  ASSUME LookIInv, NEW a \in Admins, FontStep(a)
  PROVE  LookIInv'
  BY UploadFontKeeps, WriteFontKeeps, AddFontKeeps, DeleteFontKeeps, RemoveFontFileKeeps, DeleteFontRecordKeeps
     DEF FontStep
-----------------------------------------------------------------------------
(* The picture of the WAP edition.                                         *)

AssetOps == {"none", "asset", "unasset"}
OfAsset == {"asset", "unasset"}

LEMMA AssetAside ==
  ASSUME LookIInv, NEW a \in Admins, NEW q, Moves(a, q), look[a].op \in AssetOps, q.op \in AssetOps,
         UNCHANGED themeVars, UNCHANGED fontVars, UNCHANGED iconVars, AssetsOK'
  PROVE  LookIInv'
  <1>1. LookTypes /\ ThemesOK /\ FontsOK /\ IconsOK
    BY DEF LookIInv
  <1>2. LookTypes' /\ ThemesOK'
    BY <1>1, MovesTypes, ThemesQuiet DEF AssetOps
  <1>3. FontsOK' /\ IconsOK'
    BY <1>1, FontsQuiet, IconsQuiet DEF AssetOps
  <1> QED
    BY <1>2, <1>3 DEF LookIInv

\* A request for the picture is taken up.
LEMMA AssetTaken ==
  ASSUME LookIInv, NEW a \in Admins, NEW r \in LookRec, Take(a, r), r.op \in OfAsset, r.step = 1,
         r.op = "unasset" => r.file \in {"png", "wbmp"},
         mixedAsset' = (mixedAsset \/ BusyAsset), asset' = asset,
         UNCHANGED themeVars, UNCHANGED fontVars, UNCHANGED iconVars
  PROVE  LookIInv'
  <1>1. LookTypes /\ AssetsOK
    BY DEF LookIInv
  <1>2. PICK q \in LookRec : /\ Moves(a, q) /\ look[a].op = "none" /\ looks' = looks + 1
                             /\ q.op = r.op /\ q.step = r.step /\ q.file = r.file
    BY <1>1, TakeMoves
  <1>3. q.op \in OfAsset /\ q.step = 1 /\ (q.op = "unasset" => q.file \in {"png", "wbmp"})
    BY <1>2
  <1>4. (\A b \in Admins : look'[b] = IF b = a THEN q ELSE look[b]) /\ looks \in Nat /\ looks <= looks'
    BY <1>1, <1>2, MovesTypes
  <1>5. asset' \in [{"png", "wbmp"} -> 0 .. looks']
    BY <1>1, <1>2, <1>4 DEF AssetsOK
  <1>6. \A b \in Admins : look'[b].op = "unasset" => look'[b].file \in {"png", "wbmp"} /\ look'[b].step \in {1, 2}
    BY <1>1, <1>3, <1>4 DEF AssetsOK
  <1>7. ASSUME ~mixedAsset'
        PROVE  /\ \A b, c \in Admins : look'[b].op \in OfAsset /\ look'[c].op \in OfAsset => b = c
               /\ ~BusyAsset' => asset'["png"] = asset'["wbmp"]
               /\ \A b \in Admins :
                    /\ look'[b].op = "unasset" /\ look'[b].step = 2 => asset'[look'[b].file] = 0
                    /\ look'[b].op = "unasset" /\ look'[b].step = 1 => asset'["png"] = asset'["wbmp"]
    <2>1. ~mixedAsset /\ ~BusyAsset
      BY <1>7
    <2>2. \A b \in Admins : look[b].op \notin OfAsset
      BY <2>1 DEF BusyAsset, OfAsset
    <2>3. asset["png"] = asset["wbmp"]
      BY <1>1, <2>1 DEF AssetsOK
    <2>4. \A b \in Admins : look'[b].op \in OfAsset => b = a
      BY <1>4, <2>2
    <2> QED
      BY <1>3, <1>4, <2>3, <2>4 DEF OfAsset
  <1>8. AssetsOK'
    BY <1>5, <1>6, <1>7 DEF AssetsOK, OfAsset
  <1> QED
    BY <1>2, <1>3, <1>8, AssetAside DEF AssetOps, OfAsset

LEMMA UploadAssetKeeps ==
  ASSUME LookIInv, NEW a \in Admins, UploadAsset(a)
  PROVE  LookIInv'
  <1>1. PICK r : r = [NoLook EXCEPT !.op = "asset", !.step = 1]
    OBVIOUS
  <1>2. r = [op |-> "asset", step |-> 1, n |-> 0, key |-> ConfigTheme, todo |-> << >>, name |-> 0,
             file |-> "none", id |-> 0, fd |-> 0]
    BY <1>1 DEF NoLook
  <1>3. r \in LookRec
    <2>1. << >> \in Seq(Parts \X Nat) /\ ConfigTheme \in ThemeKeys
      BY AppearanceAssumption
    <2> QED
      BY <1>2, <2>1 DEF LookRec, Filenames
  <1>4. r.op \in OfAsset /\ r.step = 1 /\ r.op # "unasset"
    BY <1>2 DEF OfAsset
  <1>5. Take(a, r) /\ asset' = asset /\ mixedAsset' = (mixedAsset \/ BusyAsset)
    BY <1>1 DEF UploadAsset
  <1>6. UNCHANGED themeVars /\ UNCHANGED fontVars /\ UNCHANGED iconVars
    BY DEF UploadAsset
  <1> QED
    BY <1>3, <1>4, <1>5, <1>6, AssetTaken

LEMMA DeleteAssetKeeps ==
  ASSUME LookIInv, NEW a \in Admins, NEW x \in {"png", "wbmp"}, DeleteAsset(a, x)
  PROVE  LookIInv'
  <1>1. PICK r : r = [NoLook EXCEPT !.op = "unasset", !.step = 1, !.file = x]
    OBVIOUS
  <1>2. r = [op |-> "unasset", step |-> 1, n |-> 0, key |-> ConfigTheme, todo |-> << >>, name |-> 0,
             file |-> x, id |-> 0, fd |-> 0]
    BY <1>1 DEF NoLook
  <1>3. r \in LookRec
    <2>1. << >> \in Seq(Parts \X Nat) /\ ConfigTheme \in ThemeKeys
      BY AppearanceAssumption
    <2> QED
      BY <1>2, <2>1 DEF LookRec, Filenames
  <1>4. r.op \in OfAsset /\ r.step = 1 /\ r.file \in {"png", "wbmp"}
    BY <1>2 DEF OfAsset
  <1>5. Take(a, r) /\ asset' = asset /\ mixedAsset' = (mixedAsset \/ BusyAsset)
    BY <1>1 DEF DeleteAsset
  <1>6. UNCHANGED themeVars /\ UNCHANGED fontVars /\ UNCHANGED iconVars
    BY DEF DeleteAsset
  <1> QED
    BY <1>3, <1>4, <1>5, <1>6, AssetTaken

\* A step of the request for the picture: q where it is afterwards.
LEMMA AssetMoved ==
  ASSUME LookIInv, NEW a \in Admins, NEW q, Moves(a, q), looks' = looks,
         look[a].op \in OfAsset, q.op \in AssetOps,
         mixedAsset => mixedAsset', asset' \in [{"png", "wbmp"} -> 0 .. looks],
         q.op = "unasset" => q.file \in {"png", "wbmp"} /\ q.step = 2,
         ~mixedAsset' /\ q.op = "none" => asset'["png"] = asset'["wbmp"],
         ~mixedAsset' /\ q.op = "unasset" => asset'[q.file] = 0,
         UNCHANGED themeVars, UNCHANGED fontVars, UNCHANGED iconVars
  PROVE  LookIInv'
  <1>1. LookTypes /\ AssetsOK
    BY DEF LookIInv
  <1>2. \A b \in Admins : look'[b] = IF b = a THEN q ELSE look[b]
    BY <1>1, MovesTypes
  <1>3. \A b \in Admins : look'[b].op = "unasset" => look'[b].file \in {"png", "wbmp"} /\ look'[b].step \in {1, 2}
    BY <1>1, <1>2 DEF AssetsOK
  <1>4. ASSUME ~mixedAsset'
        PROVE  /\ \A b, c \in Admins : look'[b].op \in OfAsset /\ look'[c].op \in OfAsset => b = c
               /\ ~BusyAsset' => asset'["png"] = asset'["wbmp"]
               /\ \A b \in Admins :
                    /\ look'[b].op = "unasset" /\ look'[b].step = 2 => asset'[look'[b].file] = 0
                    /\ look'[b].op = "unasset" /\ look'[b].step = 1 => asset'["png"] = asset'["wbmp"]
    <2>1. \A b \in Admins : look[b].op \in OfAsset => b = a
      BY <1>1, <1>4 DEF AssetsOK, OfAsset
    <2>2. \A b \in Admins : look'[b].op \in OfAsset => b = a /\ look'[b] = q
      BY <1>2, <2>1
    <2>3. ~BusyAsset' => q.op = "none"
      BY <1>2 DEF BusyAsset, AssetOps
    <2> QED
      BY <1>4, <2>2, <2>3 DEF OfAsset
  <1>5. AssetsOK'
    BY <1>3, <1>4 DEF AssetsOK, OfAsset
  <1> QED
    BY <1>5, AssetAside DEF AssetOps, OfAsset

LEMMA AssetIs ==
  ASSUME LookIInv
  PROVE  LookTypes /\ looks \in Nat /\ asset \in [{"png", "wbmp"} -> 0 .. looks]
  BY AppearanceAssumption DEF LookIInv, LookTypes, AssetsOK

LEMMA WritePngKeeps ==
  ASSUME LookIInv, NEW a \in Admins, WritePng(a)
  PROVE  LookIInv'
  <1>1. look[a].op = "asset" /\ Turn(a, 2)
    BY DEF WritePng, Doing
  <1>2. PICK q \in LookRec : Moves(a, q) /\ looks' = looks /\ q.op = look[a].op
    BY <1>1, AssetIs, TurnMoves
  <1>3. look[a].n \in 0 .. looks
    BY <1>1, AssetIs DEF LookTypes
  <1>4. asset' \in [{"png", "wbmp"} -> 0 .. looks]
    BY <1>3, AssetIs DEF WritePng
  <1>5. mixedAsset' = mixedAsset /\ UNCHANGED themeVars /\ UNCHANGED fontVars /\ UNCHANGED iconVars
    BY DEF WritePng
  <1> QED
    BY <1>1, <1>2, <1>4, <1>5, AssetMoved DEF OfAsset, AssetOps

LEMMA ConvertToWbmpKeeps ==
  ASSUME LookIInv, NEW a \in Admins, ConvertToWbmp(a)
  PROVE  LookIInv'
  <1>1. look[a].op = "asset" /\ Finish(a)
    BY DEF ConvertToWbmp, Doing
  <1>2. Moves(a, NoLook) /\ looks' = looks
    BY <1>1, AssetIs, FinishMoves
  <1>3. /\ asset' \in [{"png", "wbmp"} -> 0 .. looks] /\ (mixedAsset => mixedAsset')
        /\ ~mixedAsset' => asset'["png"] = asset'["wbmp"]
    <2>1. CASE asset' = [asset EXCEPT !.wbmp = asset.png] /\ mixedAsset' = mixedAsset
      BY <2>1, AssetIs
    <2>2. CASE asset' = [asset EXCEPT !.png = 0] /\ mixedAsset' = (mixedAsset \/ asset.wbmp # 0)
      <3>1. asset' \in [{"png", "wbmp"} -> 0 .. looks]
        BY <2>2, AssetIs
      <3>2. asset.wbmp = 0 => asset'["png"] = asset'["wbmp"]
        BY <2>2, AssetIs
      <3> QED
        BY <2>2, <3>1, <3>2, Zenon
    <2> QED
      BY <2>1, <2>2 DEF ConvertToWbmp
  <1>4. UNCHANGED themeVars /\ UNCHANGED fontVars /\ UNCHANGED iconVars
    BY DEF ConvertToWbmp
  <1> QED
    BY <1>1, <1>2, <1>3, <1>4, AssetMoved, NoLookIs DEF OfAsset, AssetOps

LEMMA UnlinkAssetKeeps ==
  ASSUME LookIInv, NEW a \in Admins, UnlinkAsset(a)
  PROVE  LookIInv'
  <1>1. look[a].op = "unasset" /\ AssetsOK
    BY DEF UnlinkAsset, LookIInv
  <1>2. PICK x \in {"png", "wbmp"} : x = look[a].file /\ look[a].step \in {1, 2}
    BY <1>1 DEF AssetsOK
  <1>3. mixedAsset' = mixedAsset /\ UNCHANGED themeVars /\ UNCHANGED fontVars /\ UNCHANGED iconVars
    BY DEF UnlinkAsset
  <1>4. CASE look[a].step = 1
    <2>1. asset' = [asset EXCEPT ![x] = 0] /\ Turn(a, 2)
      BY <1>2, <1>4 DEF UnlinkAsset
    <2>2. PICK q \in LookRec : Moves(a, q) /\ looks' = looks /\ q.op = look[a].op /\ q.step = 2 /\ q.file = look[a].file
      BY <1>1, <2>1, AssetIs, TurnMoves
    <2>3. asset' \in [{"png", "wbmp"} -> 0 .. looks] /\ asset'[x] = 0
      BY <2>1, AssetIs
    <2> QED
      BY <1>1, <1>2, <1>3, <2>2, <2>3, AssetMoved DEF OfAsset, AssetOps
  <1>5. CASE look[a].step = 2
    <2>1. asset' = [asset EXCEPT ![Twin(x)] = 0] /\ Finish(a)
      BY <1>2, <1>5 DEF UnlinkAsset
    <2>2. Moves(a, NoLook) /\ looks' = looks
      BY <2>1, AssetIs, FinishMoves
    <2>3. asset' \in [{"png", "wbmp"} -> 0 .. looks]
      BY <2>1, AssetIs DEF Twin
    <2>4. ~mixedAsset => asset[x] = 0
      BY <1>1, <1>2, <1>5 DEF AssetsOK
    <2>5. ~mixedAsset => asset'["png"] = asset'["wbmp"]
      BY <1>2, <2>1, <2>4, AssetIs DEF Twin
    <2> QED
      BY <1>1, <1>3, <2>2, <2>3, <2>5, AssetMoved, NoLookIs DEF OfAsset, AssetOps
  <1> QED
    BY <1>2, <1>4, <1>5

LEMMA AssetStepKeeps ==
  ASSUME LookIInv, NEW a \in Admins, AssetStep(a)
  PROVE  LookIInv'
  BY UploadAssetKeeps, WritePngKeeps, ConvertToWbmpKeeps, DeleteAssetKeeps, UnlinkAssetKeeps DEF AssetStep
-----------------------------------------------------------------------------
(* The favicon.                                                            *)

IconOps == {"none", "icon"}
Inodes == [1 .. MaxLooks -> [1 .. 2 -> Nat]]

LEMMA IconAside ==
  ASSUME LookIInv, NEW a \in Admins, NEW q, Moves(a, q), look[a].op \in IconOps, q.op \in IconOps,
         UNCHANGED themeVars, UNCHANGED fontVars, UNCHANGED assetVars, IconsOK'
  PROVE  LookIInv'
  <1>1. LookTypes /\ ThemesOK /\ FontsOK /\ AssetsOK
    BY DEF LookIInv
  <1>2. LookTypes' /\ ThemesOK'
    BY <1>1, MovesTypes, ThemesQuiet DEF IconOps
  <1>3. FontsOK' /\ AssetsOK'
    BY <1>1, FontsQuiet, AssetsQuiet DEF IconOps
  <1> QED
    BY <1>2, <1>3 DEF LookIInv

LEMMA IconIs ==
  ASSUME LookIInv
  PROVE  /\ LookTypes /\ IconsOK /\ looks \in Nat /\ MaxLooks \in Nat /\ looks <= MaxLooks
         /\ icon \in 0 .. looks /\ iconTmp \in 0 .. looks /\ inodes \in Inodes
  BY AppearanceAssumption DEF LookIInv, LookTypes, IconsOK, Inodes

LEMMA UploadIconKeeps ==
  ASSUME LookIInv, NEW a \in Admins, UploadIcon(a)
  PROVE  LookIInv'
  <1>1. PICK r : r = [NoLook EXCEPT !.op = "icon", !.step = 1]
    OBVIOUS
  <1>2. r = [op |-> "icon", step |-> 1, n |-> 0, key |-> ConfigTheme, todo |-> << >>, name |-> 0,
             file |-> "none", id |-> 0, fd |-> 0]
    BY <1>1 DEF NoLook
  <1>3. r \in LookRec
    <2>1. << >> \in Seq(Parts \X Nat) /\ ConfigTheme \in ThemeKeys
      BY AppearanceAssumption
    <2> QED
      BY <1>2, <2>1 DEF LookRec, Filenames
  <1>4. Take(a, r)
    BY <1>1 DEF UploadIcon
  <1>5. PICK q \in LookRec : /\ Moves(a, q) /\ look[a].op = "none" /\ q.n = looks + 1 /\ looks' = looks + 1
                             /\ q.op = r.op /\ q.step = r.step
    BY <1>3, <1>4, IconIs, TakeMoves
  <1>6. q.op = "icon" /\ q.step = 1 /\ q.n = looks + 1
    BY <1>2, <1>5
  <1>7. \A b \in Admins : look'[b] = IF b = a THEN q ELSE look[b]
    BY <1>5, IconIs, MovesTypes
  <1>8. inodes' = inodes /\ icon' = icon /\ iconTmp' = iconTmp
    BY DEF UploadIcon
  <1>9. mixedIcon' = (mixedIcon \/ \E b \in Admins : look[b].op = "icon")
    BY DEF UploadIcon
  <1>10. icon' \in 0 .. looks' /\ iconTmp' \in 0 .. looks' /\ inodes' \in Inodes
    BY <1>5, <1>8, IconIs
  <1>11. ASSUME NEW b \in Admins, look'[b].op = "icon" /\ look'[b].step \in {2, 3, 4}
         PROVE  look'[b].fd \in 1 .. looks'
    <2>1. look'[b] = look[b]
      BY <1>6, <1>7, <1>11
    <2>2. look[b].fd \in 1 .. looks
      BY <1>11, <2>1, IconIs DEF IconsOK
    <2> QED
      BY <1>5, <2>1, <2>2, IconIs
  <1>12. ASSUME ~mixedIcon'
         PROVE  /\ \A b \in Admins : look'[b].op = "icon" => b = a /\ look'[b] = q
                /\ icon # 0 => Whole(icon)
                /\ iconTmp = 0
    <2>1. ~mixedIcon /\ \A b \in Admins : look[b].op # "icon"
      BY <1>9, <1>12, Zenon
    <2> QED
      BY <1>7, <2>1, IconIs DEF IconsOK
  <1>13. icon # q.n
    BY <1>6, IconIs
  <1>14. IconsOK'
    <2>1. ASSUME ~mixedIcon', icon' # 0 PROVE Whole(icon)'
      BY <1>8, <1>12, <2>1 DEF Whole
    <2>2. ASSUME ~mixedIcon', \A b \in Admins : look'[b].op # "icon" PROVE iconTmp' = 0
      BY <1>8, <1>12, <2>2
    <2>3. ASSUME ~mixedIcon', NEW b \in Admins, look'[b].op = "icon"
          PROVE  icon' # look'[b].n /\ look'[b].step = 1 /\ iconTmp' = 0
      BY <1>6, <1>8, <1>12, <1>13, <2>3
    <2> QED
      BY <1>10, <1>11, <1>12, <2>1, <2>2, <2>3 DEF IconsOK, Inodes
  <1>15. UNCHANGED themeVars /\ UNCHANGED fontVars /\ UNCHANGED assetVars
    BY DEF UploadIcon
  <1> QED
    BY <1>5, <1>6, <1>14, <1>15, IconAside DEF IconOps

\* A step of an upload that is under way: q where it is afterwards.
LEMMA IconMoved ==
  ASSUME LookIInv, NEW a \in Admins, NEW q, Moves(a, q), looks' = looks,
         look[a].op = "icon", q.op \in IconOps, mixedIcon' = mixedIcon,
         icon' \in 0 .. looks, iconTmp' \in 0 .. looks, inodes' \in Inodes,
         q.op = "icon" => q.step \in {2, 3, 4} /\ q.fd \in 1 .. looks,
         ~mixedIcon /\ icon' # 0 => Whole(icon)',
         ~mixedIcon /\ q.op = "none" => iconTmp' = 0,
         ~mixedIcon /\ q.op = "icon" =>
            /\ icon' # q.n /\ iconTmp' = q.n /\ q.fd = q.n
            /\ q.step > 2 => inodes'[q.n][1] = q.n
            /\ q.step > 3 => inodes'[q.n][2] = q.n,
         UNCHANGED themeVars, UNCHANGED fontVars, UNCHANGED assetVars
  PROVE  LookIInv'
  <1>1. \A b \in Admins : look'[b] = IF b = a THEN q ELSE look[b]
    BY IconIs, MovesTypes
  <1>2. \A b \in Admins : look'[b].op = "icon" /\ look'[b].step \in {2, 3, 4} => look'[b].fd \in 1 .. looks'
    BY <1>1, IconIs DEF IconsOK
  <1>3. ASSUME ~mixedIcon, NEW b \in Admins, look'[b].op = "icon" PROVE b = a /\ look'[b] = q
    BY <1>1, <1>3, IconIs DEF IconsOK
  <1>4. ASSUME ~mixedIcon, \A b \in Admins : look'[b].op # "icon" PROVE iconTmp' = 0
    BY <1>1, <1>4 DEF IconOps
  <1>5. ASSUME ~mixedIcon, NEW b \in Admins, look'[b].op = "icon"
        PROVE  LET r == look'[b] IN
               /\ icon' # r.n
               /\ r.step \in 1 .. 4
               /\ r.step = 1 => iconTmp' = 0
               /\ r.step > 1 => iconTmp' = r.n /\ r.fd = r.n
               /\ r.step > 2 => inodes'[r.n][1] = r.n
               /\ r.step > 3 => inodes'[r.n][2] = r.n
    BY <1>3, <1>5
  <1>6. IconsOK'
    BY <1>2, <1>3, <1>4, <1>5 DEF IconsOK, Inodes
  <1> QED
    BY <1>6, IconAside DEF IconOps

\* What is known of the request of an upload, when it is the only one.
LEMMA IconAt ==
  ASSUME LookIInv, NEW a \in Admins, look[a].op = "icon"
  PROVE  /\ look[a] \in LookRec /\ look[a].n \in 1 .. looks
         /\ look[a].step \in {2, 3, 4} => look[a].fd \in 1 .. looks
         /\ ~mixedIcon =>
               /\ icon # 0 => Whole(icon)
               /\ icon # look[a].n
               /\ look[a].step = 1 => iconTmp = 0
               /\ look[a].step > 1 => iconTmp = look[a].n /\ look[a].fd = look[a].n
               /\ look[a].step > 2 => inodes[look[a].n][1] = look[a].n
               /\ look[a].step > 3 => inodes[look[a].n][2] = look[a].n
  <1>1. look[a] \in LookRec /\ look[a].n \in 1 .. looks
    BY IconIs DEF LookTypes
  <1> QED
    BY <1>1, IconIs DEF IconsOK

LEMMA OpenIconKeeps ==
  ASSUME LookIInv, NEW a \in Admins, OpenIcon(a)
  PROVE  LookIInv'
  <1>1. look[a].op = "icon" /\ look[a].step = 1
    BY DEF OpenIcon, Doing
  <1>2. PICK r : r = look[a]
    OBVIOUS
  <1>3. r \in LookRec /\ r.n \in 1 .. looks /\ r.op = "icon"
    BY <1>1, <1>2, IconAt
  <1>4. PICK i : i = IF iconTmp # 0 THEN iconTmp ELSE r.n
    OBVIOUS
  <1>5. i \in 1 .. looks /\ (~mixedIcon => i = r.n /\ icon # i)
    BY <1>1, <1>2, <1>3, <1>4, IconIs, IconAt
  <1>6. iconTmp' = i /\ icon' = icon /\ Opened(a, i)
    BY <1>2, <1>4 DEF OpenIcon
  <1>7. PICK w : w = [r EXCEPT !.step = 2]
    OBVIOUS
  <1>8. PICK q : q = [w EXCEPT !.fd = i]
    OBVIOUS
  <1>9. q \in LookRec /\ q.n = r.n /\ q.op = "icon" /\ q.step = 2 /\ q.fd = i
    <2>1. i \in Nat
      BY <1>5, IconIs
    <2>2. w \in LookRec /\ w.n = r.n /\ w.op = "icon" /\ w.step = 2
      BY <1>3, <1>7 DEF LookRec
    <2> QED
      BY <1>8, <2>1, <2>2 DEF LookRec
  <1>10. Moves(a, q) /\ looks' = looks
    <2>1. look \in [Admins -> LookRec]
      BY IconIs DEF LookTypes
    <2>2. looks' = looks /\ look' = [look EXCEPT ![a].step = 2, ![a].fd = i]
      BY <1>6 DEF Opened
    <2>3. look' = [look EXCEPT ![a] = q]
      BY <1>2, <1>7, <1>8, <2>1, <2>2
    <2> QED
      BY <1>3, <1>9, <2>2, <2>3, IconIs DEF Moves
  <1>11. PICK z : z = <<0, 0>>
    OBVIOUS
  <1>12. z \in [1 .. 2 -> Nat]
    BY <1>11
  <1>13. inodes' = [inodes EXCEPT ![i] = z] /\ mixedIcon' = mixedIcon
    BY <1>6, <1>11 DEF Opened
  <1>14. inodes' \in Inodes /\ \A j \in 1 .. MaxLooks : j # i => inodes'[j] = inodes[j]
    BY <1>12, <1>13, IconIs DEF Inodes
  <1>15. ~mixedIcon /\ icon' # 0 => Whole(icon)'
    <2>1. ASSUME ~mixedIcon, icon # 0 PROVE inodes'[icon] = inodes[icon] /\ Whole(icon)
      BY <1>1, <1>5, <1>14, <2>1, IconIs, IconAt
    <2> QED
      BY <1>6, <2>1 DEF Whole
  <1>16. UNCHANGED themeVars /\ UNCHANGED fontVars /\ UNCHANGED assetVars
    BY <1>6 DEF Opened
  <1>17. icon' \in 0 .. looks /\ iconTmp' \in 0 .. looks
    BY <1>5, <1>6, IconIs
  <1>18. q.op \in IconOps /\ q.step \in {2, 3, 4} /\ ~(q.step > 2) /\ ~(q.step > 3) /\ q.op # "none"
    BY <1>9 DEF IconOps
  <1> QED
    BY <1>1, <1>5, <1>6, <1>9, <1>10, <1>13, <1>14, <1>15, <1>16, <1>17, <1>18, IconMoved

LEMMA WriteIconKeeps ==
  ASSUME LookIInv, NEW a \in Admins, WriteIcon(a)
  PROVE  LookIInv'
  <1>1. look[a].op = "icon" /\ look[a].step \in {2, 3}
    BY DEF WriteIcon
  <1>2. icon' = icon /\ mixedIcon' = mixedIcon
    BY DEF WriteIcon
  <1>3. UNCHANGED themeVars /\ UNCHANGED fontVars /\ UNCHANGED assetVars
    BY DEF WriteIcon
  <1>4. PICK n, s, fd : n = look[a].n /\ s = look[a].step /\ fd = look[a].fd
    OBVIOUS
  <1>5. n \in 1 .. looks /\ fd \in 1 .. looks /\ s \in {2, 3}
    BY <1>1, <1>4, IconAt
  <1>6. ~mixedIcon => iconTmp = n /\ fd = n /\ icon # n
    BY <1>1, <1>4, <1>5, IconAt
  <1>7. CASE iconTmp' = 0 /\ Finish(a) /\ inodes' = inodes
    <2>1. Moves(a, NoLook) /\ looks' = looks
      BY <1>7, IconIs, FinishMoves
    <2>2. ~mixedIcon /\ icon' # 0 => Whole(icon)'
      BY <1>1, <1>2, <1>7, IconAt DEF Whole
    <2>3. icon' \in 0 .. looks /\ iconTmp' \in 0 .. looks /\ inodes' \in Inodes
      BY <1>2, <1>7, IconIs
    <2>4. NoLook.op \in IconOps /\ NoLook.op # "icon"
      BY NoLookIs DEF IconOps
    <2> QED
      BY <1>1, <1>2, <1>3, <1>7, <2>1, <2>2, <2>3, <2>4, IconMoved
  <1>8. CASE inodes' = [inodes EXCEPT ![fd][s - 1] = n] /\ Turn(a, s + 1) /\ iconTmp' = iconTmp
    <2>1. s + 1 \in 0 .. 4 /\ s - 1 \in 1 .. 2 /\ fd \in 1 .. MaxLooks /\ n \in Nat
      BY <1>5, IconIs
    <2>2. PICK q \in LookRec : /\ Moves(a, q) /\ looks' = looks /\ q.n = look[a].n
                               /\ q.op = look[a].op /\ q.step = s + 1 /\ q.fd = look[a].fd
      BY <1>1, <1>8, <2>1, IconIs, TurnMoves
    <2>3. q.n = n /\ q.op = "icon" /\ q.fd = fd
      BY <1>1, <1>4, <2>2
    <2>4. /\ inodes' \in Inodes /\ inodes'[fd][s - 1] = n
          /\ \A j \in 1 .. MaxLooks : j # fd => inodes'[j] = inodes[j]
          /\ s = 3 => inodes'[fd][1] = inodes[fd][1]
      BY <1>8, <2>1, IconIs DEF Inodes
    <2>5. ~mixedIcon /\ icon' # 0 => Whole(icon)'
      <3>1. ASSUME ~mixedIcon, icon # 0 PROVE inodes'[icon] = inodes[icon] /\ Whole(icon)
        BY <1>1, <1>6, <2>4, <3>1, IconIs, IconAt
      <3> QED
        BY <1>2, <3>1 DEF Whole
    <2>6. ASSUME ~mixedIcon
          PROVE  /\ q.step > 2 => inodes'[n][1] = n
                 /\ q.step > 3 => inodes'[n][2] = n
      <3>1. fd = n /\ (s = 3 => inodes[n][1] = n)
        BY <1>1, <1>4, <1>6, <2>6, IconAt
      <3>2. CASE s = 2
        BY <2>2, <2>4, <3>1, <3>2
      <3>3. CASE s = 3
        BY <2>2, <2>4, <3>1, <3>3
      <3> QED
        BY <1>5, <3>2, <3>3
    <2>7. icon' \in 0 .. looks /\ iconTmp' \in 0 .. looks
      BY <1>2, <1>8, IconIs
    <2>8. q.op \in IconOps /\ q.op # "none" /\ q.step \in {2, 3, 4}
      BY <1>5, <2>2, <2>3 DEF IconOps
    <2> QED
      BY <1>1, <1>2, <1>3, <1>5, <1>6, <1>8, <2>2, <2>3, <2>4, <2>5, <2>6, <2>7, <2>8, IconMoved
  <1> QED
    BY <1>4, <1>7, <1>8 DEF WriteIcon

LEMMA RenameIconKeeps ==
  ASSUME LookIInv, NEW a \in Admins, RenameIcon(a)
  PROVE  LookIInv'
  <1>1. look[a].op = "icon" /\ look[a].step = 4 /\ Finish(a)
    BY DEF RenameIcon, Doing
  <1>2. Moves(a, NoLook) /\ looks' = looks
    BY <1>1, IconIs, FinishMoves
  <1>3. /\ icon' = IF iconTmp # 0 THEN iconTmp ELSE icon
        /\ iconTmp' = 0 /\ inodes' = inodes /\ mixedIcon' = mixedIcon
    BY DEF RenameIcon
  <1>4. UNCHANGED themeVars /\ UNCHANGED fontVars /\ UNCHANGED assetVars
    BY DEF RenameIcon
  <1>5. icon' \in 0 .. looks /\ iconTmp' \in 0 .. looks /\ inodes' \in Inodes
    BY <1>3, IconIs
  <1>6. ASSUME ~mixedIcon PROVE Whole(icon)'
    <2>1. PICK n : n = look[a].n
      OBVIOUS
    <2>2. n \in 1 .. looks /\ iconTmp = n /\ inodes[n][1] = n /\ inodes[n][2] = n
      BY <1>1, <1>6, <2>1, IconAt
    <2>3. icon' = n /\ n # 0
      BY <1>3, <2>2
    <2> QED
      BY <1>3, <2>2, <2>3 DEF Whole
  <1>7. NoLook.op \in IconOps /\ NoLook.op # "icon"
    BY NoLookIs DEF IconOps
  <1> QED
    BY <1>1, <1>2, <1>3, <1>4, <1>5, <1>6, <1>7, IconMoved

LEMMA DeleteIconKeeps ==
  ASSUME LookIInv, NEW a \in Admins, DeleteIcon(a)
  PROVE  LookIInv'
  <1>1. LookTypes /\ look[a].op = "none"
    BY DEF LookIInv, DeleteIcon
  <1>2. PICK q : q = look[a]
    OBVIOUS
  <1>3. look' = look /\ looks' = looks + 1 /\ looks < MaxLooks
    BY DEF DeleteIcon
  <1>4. Moves(a, q)
    <2>1. looks \in 0 .. MaxLooks /\ MaxLooks \in Nat /\ look \in [Admins -> LookRec]
      BY <1>1, AppearanceAssumption DEF LookTypes
    <2> QED
      BY <1>1, <1>2, <1>3, <2>1 DEF Moves
  <1>5. icon' = 0 /\ iconTmp' = iconTmp /\ inodes' = inodes /\ mixedIcon' = mixedIcon
    BY DEF DeleteIcon
  <1>6. UNCHANGED themeVars /\ UNCHANGED fontVars /\ UNCHANGED assetVars
    BY DEF DeleteIcon
  <1>7. icon' \in 0 .. looks' /\ iconTmp' \in 0 .. looks' /\ inodes' \in Inodes
    BY <1>3, <1>5, IconIs
  <1>8. \A b \in Admins : look'[b].op = "icon" /\ look'[b].step \in {2, 3, 4} => look'[b].fd \in 1 .. looks'
    <2>1. \A b \in Admins : look[b].op = "icon" /\ look[b].step \in {2, 3, 4} => look[b].fd \in 1 .. looks
      BY IconIs DEF IconsOK
    <2> QED
      BY <1>3, <2>1, IconIs
  <1>9. ASSUME ~mixedIcon, NEW b \in Admins, look[b].op = "icon" PROVE icon' # look[b].n
    BY <1>5, <1>9, IconIs, IconAt
  <1>10. IconsOK'
    BY <1>3, <1>5, <1>7, <1>8, <1>9, IconIs DEF IconsOK, Inodes
  <1> QED
    BY <1>1, <1>2, <1>4, <1>6, <1>10, IconAside DEF IconOps

LEMMA IconStepKeeps ==
  ASSUME LookIInv, NEW a \in Admins, IconStep(a)
  PROVE  LookIInv'
  BY UploadIconKeeps, OpenIconKeeps, WriteIconKeeps, RenameIconKeeps, DeleteIconKeeps DEF IconStep
-----------------------------------------------------------------------------
LEMMA LookInitIs ==
  ASSUME LookInit
  PROVE  LookIInv
  <1>1. MaxLooks \in Nat /\ ConfigTheme \in ThemeKeys
    BY AppearanceAssumption
  <1>2. look = [a \in Admins |-> NoLook] /\ looks = 0
    BY DEF LookInit
  <1>3. \A a \in Admins : look[a] = NoLook /\ look[a].op = "none"
    BY <1>2, NoLookIs
  <1>4. LookTypes
    BY <1>1, <1>2, <1>3, NoLookIs DEF LookTypes
  <1>5. ThemesOK
    <2>1. themeDocs = << >> /\ installed = ThemeKeys /\ active \in ThemeKeys
      BY DEF LookInit
    <2>2. saved = [k \in ThemeKeys |-> [p \in Parts |-> 0]]
      BY DEF LookInit
    <2>3. themeDocs \in Seq(ThemeDoc) /\ saved \in [ThemeKeys -> [Parts -> Nat]]
      BY <2>1, <2>2
    <2>4. \A k \in ThemeKeys, p \in Parts : Stored(k, p) = 0
      BY <2>1 DEF Stored, DocsOf
    <2>5. SavedShown
      BY <2>2, <2>4 DEF SavedShown
    <2> QED
      BY <1>1, <1>3, <2>1, <2>3, <2>5 DEF ThemesOK
  <1>6. FontsOK
    <2>1. fonts = << >>
      BY DEF LookInit
    <2>2. fonts \in Seq([name : Nat, file : FontFileNames, n : Nat, exists : BOOLEAN]) /\ DOMAIN fonts = {}
      BY <2>1
    <2>3. \A a \in Admins, f \in FontFileNames : ~Adding(a, f)
      BY <1>3 DEF Adding
    <2>4. FontTypes
      BY <1>3, <2>2 DEF FontTypes
    <2>5. \A f \in FontFileNames : FontOnce(f)
      BY <2>2, <2>3 DEF FontOnce
    <2> QED
      BY <2>4, <2>5 DEF FontsOK
  <1>7. AssetsOK
    <2>1. asset = [png |-> 0, wbmp |-> 0]
      BY DEF LookInit
    <2>2. asset \in [{"png", "wbmp"} -> 0 .. looks] /\ asset["png"] = asset["wbmp"]
      BY <1>2, <2>1
    <2> QED
      BY <1>3, <2>2 DEF AssetsOK
  <1>8. IconsOK
    <2>1. PICK z : z = <<0, 0>>
      OBVIOUS
    <2>2. z \in [1 .. 2 -> Nat]
      BY <2>1
    <2>3. inodes = [i \in 1 .. MaxLooks |-> z] /\ icon = 0 /\ iconTmp = 0
      BY <2>1 DEF LookInit
    <2>4. inodes \in [1 .. MaxLooks -> [1 .. 2 -> Nat]]
      BY <2>2, <2>3
    <2> QED
      BY <1>2, <1>3, <2>3, <2>4 DEF IconsOK
  <1> QED
    BY <1>4, <1>5, <1>6, <1>7, <1>8 DEF LookIInv

LEMMA LookStutter ==
  ASSUME LookIInv, UNCHANGED lookVars
  PROVE  LookIInv'
  <1>1. UNCHANGED <<look, looks>> /\ UNCHANGED fontVars /\ UNCHANGED assetVars /\ UNCHANGED iconVars
    BY DEF lookVars, fontVars, assetVars, iconVars
  <1>2. LookTypes' /\ FontsOK' /\ AssetsOK' /\ IconsOK'
    BY <1>1, StillAside
  <1>3. ThemesOK'
    <2>1. ThemesOK
      BY DEF LookIInv
    <2>2. themeDocs' = themeDocs /\ saved' = saved /\ doubled' = doubled /\ look' = look
      BY DEF lookVars
    <2>3. active' \in ThemeKeys /\ ConfigTheme \in installed'
      BY <2>1 DEF lookVars, ThemesOK
    <2> QED
      BY <2>1, <2>2, <2>3, ActiveThemes
  <1> QED
    BY <1>2, <1>3 DEF LookIInv

\* The strengthening is inductive.
LEMMA LookInductive == LookSpec => []LookIInv
  <1>1. LookInit => LookIInv
    BY LookInitIs
  <1>2. LookIInv /\ [LookNext]_lookVars => LookIInv'
    BY ThemeStepKeeps, FontStepKeeps, AssetStepKeeps, IconStepKeeps, RemoveThemeKeeps, LookStutter
       DEF LookNext, ThemesNext, FilesNext
  <1> QED
    BY <1>1, <1>2, PTL DEF LookSpec

\* The font of a page, found by name.
LEMMA FontShown ==
  ASSUME LookIInv, NEW nm, FontsNamed(nm) # {}
  PROVE  LET f == fonts[FontByName(nm)] IN
         \/ f.file \in reused \/ \E a \in Admins : look[a].op = "unfont" /\ look[a].file = f.file
         \/ f.file \in DOMAIN fontFiles /\ fontFiles[f.file] = f.n
  <1>1. FontsOK /\ FontTypes
    BY DEF LookIInv, FontsOK
  <1>2. FontsNamed(nm) \in SUBSET Nat
    BY <1>1, FontElement DEF FontsNamed
  <1>3. \E i \in FontsNamed(nm) : \A j \in FontsNamed(nm) : i <= j
    BY <1>2, LeastExists
  <1>4. FontByName(nm) \in FontsNamed(nm)
    BY <1>3, Zenon DEF FontByName
  <1>5. PICK i : i = FontByName(nm)
    OBVIOUS
  <1>6. i \in DOMAIN fonts /\ fonts[i].exists
    BY <1>4, <1>5 DEF FontsNamed
  <1>7. PICK f : f = fonts[i].file
    OBVIOUS
  <1>8. f \in FontFileNames
    BY <1>1, <1>6, <1>7, FontElement
  <1>9. f \in reused \/ FontOnce(f)
    BY <1>1, <1>8 DEF FontsOK
  <1>10. f \in reused \/ Holds(f, fonts[i].n) \/ \E a \in Admins : Deleting(a, f)
    BY <1>6, <1>7, <1>9 DEF FontOnce
  <1> QED
    BY <1>5, <1>7, <1>10 DEF Holds, Deleting

\* What was saved of the site's looks is what its pages show and its files hold, however
\* the requests of any number of administrators interleave and whichever of their writes
\* fail: the settings' update_one() with upsert (cms_themes.c), the font's file and its
\* record (cms_fonts.c), the PNG and its WBMP twin, and the favicon renamed over the old
\* (http_router.c).
THEOREM LookInvThm == LookSpec => []LookInv
  <1>1. LookIInv => LookInv
    <2> SUFFICES ASSUME LookIInv PROVE LookInv
      OBVIOUS
    <2>1. LookTypeOK
      <3>1. ThemesOK /\ FontTypes /\ AssetsOK
        BY DEF LookIInv, FontsOK
      <3>2. \A i \in DOMAIN themeDocs : themeDocs[i].key \in ThemeKeys /\ DOMAIN themeDocs[i].parts = Parts
        <4>1. themeDocs \in Seq(ThemeDoc)
          BY <3>1 DEF ThemesOK
        <4>2. \A i \in DOMAIN themeDocs : themeDocs[i] \in ThemeDoc
          BY <4>1
        <4> QED
          BY <4>2 DEF ThemeDoc
      <3>3. active \in ThemeKeys /\ looks \in 0 .. MaxLooks
        BY <3>1 DEF LookIInv, LookTypes, ThemesOK
      <3>4. \A q, c \in ThemeKeys : RequestTheme(q, c) \in installed
        BY <3>1 DEF ThemesOK, RequestTheme, ActiveTheme, KeyIsValid
      <3>5. \A i \in DOMAIN fonts : fonts[i].file \in FontFileNames /\ fonts[i].n \in 1 .. looks
        BY <3>1, FontElement DEF FontTypes
      <3>6. icon \in 0 .. MaxLooks /\ iconTmp \in 0 .. MaxLooks
        BY IconIs
      <3>7. asset.png \in 0 .. looks /\ asset.wbmp \in 0 .. looks
        BY <3>1 DEF AssetsOK
      <3> QED
        BY <3>2, <3>3, <3>4, <3>5, <3>6, <3>7 DEF LookTypeOK
    <2>2. SavedShown
      BY DEF LookIInv, ThemesOK
    <2>3. FontServed
      BY FontShown DEF FontServed
    <2>4. AssetPairs
      BY DEF LookIInv, AssetsOK, AssetPairs
    <2>5. FaviconWhole
      BY DEF LookIInv, IconsOK, FaviconWhole
    <2> QED
      BY <2>1, <2>2, <2>3, <2>4, <2>5 DEF LookInv
  <1> QED
    BY <1>1, LookInductive, PTL

-----------------------------------------------------------------------------
(* The entries.  Of a block the first part of the invariant knows the key,  *)
(* which says which block an editor means, and the id; of the pictures and  *)
(* the gallery only the second part speaks.                                 *)

BlockDoc ==
    [id : 0 .. MaxIds, key : 0 .. MaxIds, kind : {"text", "gallery"}, pics : 0 .. MaxPics, gallery : 0 .. MaxIds]

EditRec ==
    [at : {"idle", "meta", "header", "content", "galleries", "rewrite", "push", "pull"},
     user : Editors \cup {"nobody"}, entry : EntryIds \cup {"none"}, link : Links, type : Types,
     enabled : BOOLEAN, closed : BOOLEAN, kind : {"text", "gallery"}, block : BlockDoc,
     blocks : SUBSET BlockDoc, want : SUBSET Nat, todo : SUBSET BlockDoc, base : Nat]

PageRec == [entry : EntryIds \cup {"none"}, blocks : SUBSET BlockDoc, revision : Nat]

EntryTypes ==
    /\ EntriesTypeOK
    /\ edit \in [EditThreads -> EditRec] /\ pages \in [Editors -> PageRec]
    /\ revision \in [EntryIds -> Nat \ {0}] /\ wanted \in [EntryIds -> SUBSET Nat]
    /\ lastSaved \in [EntryIds -> [meta : Links \X Types \X BOOLEAN, closed : BOOLEAN]]
    /\ born \in Seq(EntryIds)
    /\ \A p \in EditThreads : IF edit[p].at = "idle" THEN edit[p] = NoEdit
                              ELSE edit[p].user \in Editors /\ edit[p].entry \in EntryIds
    /\ \A u \in Editors : pages[u] # NoPage => pages[u].entry \in EntryIds

\* Ids are given once: what is there was created, and is not created again.
Created == {born[i] : i \in DOMAIN born}

BornInv ==
    /\ \A i, j \in DOMAIN born : born[i] = born[j] => i = j
    /\ \A e \in EntryIds : IF entries[e].exists THEN e \in Created ELSE entries[e] = Absent
    /\ \A u \in Editors : pages[u] # NoPage => pages[u].entry \in Created
    /\ \A p \in EditThreads : edit[p].at # "idle" => edit[p].entry \in Created

\* A request of an author that was admitted is of an entry of theirs, or of one that
\* is gone.
OwnInv ==
    \A p \in EditThreads : \A e \in EntryIds :
        edit[p].entry = e /\ edit[p].user \in Authors /\ entries[e].exists => entries[e].by = edit[p].user

\* A block of S has key k and id i.
Has(S, k, i) == \E b \in S : b.key = k /\ b.id = i
Same(S, T) == \A k, i \in 0 .. MaxIds : Has(S, k, i) <=> Has(T, k, i)
KeyOnce(S) == \A b, c \in S : b.key = c.key => b = c

\* Entry e has such a block, or a page or a request of e has.
Somewhere(e, k, i) ==
    \/ Has(entries[e].blocks, k, i)
    \/ \E u \in Editors : pages[u].entry = e /\ Has(pages[u].blocks, k, i)
    \/ \E p \in EditThreads : edit[p].entry = e /\ (Has(edit[p].blocks, k, i) \/ Has({edit[p].block}, k, i))

\* No two blocks of one list have one key; the galleries a request has still to
\* write are of its blocks.
KeysInv ==
    /\ \A e \in EntryIds : KeyOnce(entries[e].blocks)
    /\ \A u \in Editors : KeyOnce(pages[u].blocks)
    /\ \A p \in EditThreads : KeyOnce(edit[p].blocks) /\ edit[p].todo \subseteq Pending(edit[p].blocks)

\* A block's id is its key, but for the block that had none; the id that one is
\* given is no other's.
IdsInv ==
    \A e \in EntryIds : \A k, i \in 0 .. MaxIds : Somewhere(e, k, i) =>
        /\ k <= lastDrawn /\ i <= lastDrawn
        /\ k # 0 => i = k
        /\ k = 0 /\ i # 0 => \A d \in EntryIds : ~Somewhere(d, i, i)

\* No save of a stale page or request wrote e.
Live(e) == entries[e].exists /\ e \notin overlapped

\* The block that had no id has one at most.
OldIdInv ==
    \A e \in EntryIds : Live(e) =>
        \A i, j \in 0 .. MaxIds : Has(entries[e].blocks, 0, i) /\ Somewhere(e, 0, j) /\ j # 0 => i = j

Saving == {"content", "galleries", "rewrite"}

\* A page, and a request, that has seen the last write of an entry has its blocks.
FreshPage(u, e) == pages[u].entry = e /\ pages[u].revision = revision[e]
FreshEdit(p, e) == edit[p].entry = e /\ edit[p].at \in Saving /\ edit[p].base = revision[e]

FreshInv ==
    \A e \in EntryIds :
        /\ \A u \in Editors : pages[u].entry = e => pages[u].revision <= revision[e]
        /\ \A p \in EditThreads : edit[p].entry = e => edit[p].base <= revision[e]
        /\ Live(e) =>
              /\ \A u \in Editors : FreshPage(u, e) => Same(pages[u].blocks, entries[e].blocks)
              /\ \A p \in EditThreads : FreshEdit(p, e) =>
                    /\ Same(edit[p].blocks, entries[e].blocks)
                    /\ pages[edit[p].user].entry = e => Keys(pages[edit[p].user].blocks) = Keys(entries[e].blocks)

WantInv ==
    /\ \A e \in EntryIds : Live(e) => Keys(entries[e].blocks) = wanted[e]
    /\ \A e \in EntryIds : e \notin Created => wanted[e] = {}
    /\ \A p \in EditThreads :
          /\ edit[p].at = "content" /\ edit[p].base # 0 => edit[p].want = Keys(edit[p].blocks)
          /\ edit[p].at = "pull" => edit[p].block.id # 0

\* A block of S has key k and gallery g.
Shows(S, k, g) == \E b \in S : b.key = k /\ b.gallery = g

GalleryAt(e, k, g) ==
    \/ Shows(entries[e].blocks, k, g)
    \/ \E u \in Editors : pages[u].entry = e /\ Shows(pages[u].blocks, k, g)
    \/ \E p \in EditThreads : edit[p].entry = e /\ Shows(edit[p].blocks, k, g)

\* A gallery is one block's of one entry.
GalleryInv ==
    /\ galleries \in [DOMAIN galleries -> [entry : EntryIds, pics : 1 .. MaxPics]]
    /\ DOMAIN galleries \subseteq 1 .. lastDrawn
    /\ \A e \in EntryIds : \A k \in 0 .. MaxIds, g \in 1 .. MaxIds : GalleryAt(e, k, g) =>
          /\ g \in DOMAIN galleries /\ galleries[g].entry = e
          /\ \A l \in 0 .. MaxIds : GalleryAt(e, l, g) => l = k

\* Its document has the block's pictures.
InSync(b) == b.kind = "gallery" /\ b.pics > 0 /\ b.gallery # 0 => galleries[b.gallery].pics = b.pics

Writing == {"galleries", "rewrite"}

\* The request is between its first write of e and its last.
Writer(p, e) == edit[p].entry = e /\ edit[p].at \in Writing /\ edit[p].base = revision[e]

\* A request that was overtaken is going to write e.
Doom(p, e) ==
    /\ edit[p].entry = e /\ edit[p].at \in Writing /\ edit[p].base # revision[e]
    /\ edit[p].at = "rewrite" \/ edit[p].todo # {}

\* Of a request that is writing e, the galleries it has written have the pictures of
\* their blocks; when there is none, so have those of e's blocks.
SyncAt(e) ==
    /\ \A p, q \in EditThreads : Writer(p, e) /\ Writer(q, e) => p = q
    /\ Live(e) /\ (\A p \in EditThreads : ~Doom(p, e)) =>
          /\ \A p \in EditThreads : Writer(p, e) =>
                /\ \A b \in edit[p].blocks \ edit[p].todo : InSync(b)
                /\ edit[p].at = "galleries" => entries[e].blocks = edit[p].blocks
          /\ (\A p \in EditThreads : ~Writer(p, e)) => \A b \in entries[e].blocks : InSync(b)

SyncInv == \A e \in EntryIds : SyncAt(e)

\* The three parts: the entries and who may write them; the lists of blocks in the
\* entries, the pages and the requests; the galleries.
Ground == EntryTypes /\ BornInv /\ OwnInv /\ SavedKept
Lists == KeysInv /\ IdsInv /\ OldIdInv /\ FreshInv /\ WantInv
Galleried == GalleryInv /\ SyncInv
EntriesIInv == Ground /\ Lists /\ Galleried

EntryRec ==
    [exists : BOOLEAN, link : Links, type : Types, enabled : BOOLEAN, closed : BOOLEAN,
     by : Editors \cup {"nobody"}, blocks : SUBSET BlockDoc]

\* A request becomes r, a page becomes g, the others stay.
Turned(p, r) ==
    /\ edit' \in [EditThreads -> EditRec]
    /\ edit'[p] = r
    /\ \A q \in EditThreads : q # p => edit'[q] = edit[q]

Paged(u, g) ==
    /\ pages' \in [Editors -> PageRec]
    /\ pages'[u] = g
    /\ \A v \in Editors : v # u => pages'[v] = pages[v]

\* The blocks of e are written, by who has seen the revision base.
Wrote(e, S, base) ==
    /\ entries' \in [EntryIds -> EntryRec] /\ revision' \in [EntryIds -> Nat \ {0}]
    /\ \A d \in EntryIds : d # e => entries'[d] = entries[d] /\ revision'[d] = revision[d]
    /\ revision'[e] = revision[e] + 1
    /\ entries'[e].exists = entries[e].exists /\ entries'[e].by = entries[e].by
    /\ Meta(entries'[e]) = Meta(entries[e]) /\ entries'[e].closed = entries[e].closed
    /\ IF entries[e].exists THEN entries'[e].blocks = S ELSE entries'[e] = entries[e]
    /\ overlapped' = IF base = revision[e] THEN overlapped ELSE overlapped \cup {e}

LEMMA EntryValues ==
  /\ OldBlock \in BlockDoc /\ NoEdit \in EditRec /\ NoPage \in PageRec /\ Absent \in EntryRec
  /\ NoEdit.at = "idle" /\ NoEdit.entry = "none" /\ NoPage.entry = "none"
  /\ NoEdit.blocks = {} /\ NoEdit.block = OldBlock /\ NoEdit.todo = {} /\ NoEdit.base = 0
  /\ OldBlock.key = 0 /\ OldBlock.id = 0 /\ ~Absent.exists /\ Absent.blocks = {}
  /\ Absent.link = NoLink /\ Absent.type = "page" /\ ~Absent.enabled /\ ~Absent.closed
  <1> USE EntriesAssumption
  <1>1. OldBlock \in BlockDoc
    BY DEF OldBlock, BlockDoc
  <1>2. NoEdit \in EditRec
    BY <1>1 DEF NoEdit, EditRec, Types
  <1>3. NoPage \in PageRec
    BY DEF NoPage, PageRec
  <1>4. Absent \in EntryRec
    BY DEF Absent, EntryRec, Types
  <1> QED
    BY <1>1, <1>2, <1>3, <1>4 DEF NoEdit, NoPage, OldBlock, Absent

LEMMA EntryTyped ==
  ASSUME EntryTypes
  PROVE  /\ entries \in [EntryIds -> EntryRec] /\ lastDrawn \in 0 .. MaxIds /\ overlapped \subseteq EntryIds
         /\ edit \in [EditThreads -> EditRec] /\ pages \in [Editors -> PageRec]
         /\ revision \in [EntryIds -> Nat \ {0}]
         /\ \A u \in Editors, e \in EntryIds : pages[u].entry = e => pages[u] # NoPage
         /\ \A p \in EditThreads, e \in EntryIds : edit[p].entry = e => edit[p].at # "idle"
  <1>1. /\ entries \in [EntryIds -> EntryRec] /\ lastDrawn \in 0 .. MaxIds /\ overlapped \subseteq EntryIds
        /\ edit \in [EditThreads -> EditRec] /\ pages \in [Editors -> PageRec]
        /\ revision \in [EntryIds -> Nat \ {0}]
    BY DEF EntryTypes, EntriesTypeOK, EntryRec, BlockDoc
  <1>2. \A u \in Editors, e \in EntryIds : pages[u].entry = e => pages[u] # NoPage
    BY EntryValues, EntriesAssumption
  <1>3. \A p \in EditThreads, e \in EntryIds : edit[p].entry = e => edit[p].at # "idle"
    BY EntryValues, EntriesAssumption DEF EntryTypes
  <1> QED
    BY <1>1, <1>2, <1>3

LEMMA WriteWrote ==
  ASSUME EntryTypes, NEW e \in EntryIds, NEW S \in SUBSET BlockDoc, NEW base, WriteBlocks(e, S, base)
  PROVE  Wrote(e, S, base)
  <1>1. entries \in [EntryIds -> EntryRec] /\ revision \in [EntryIds -> Nat \ {0}]
    BY EntryTyped
  <1>2. /\ revision' \in [EntryIds -> Nat \ {0}] /\ revision'[e] = revision[e] + 1
        /\ \A d \in EntryIds : d # e => revision'[d] = revision[d]
    BY <1>1 DEF WriteBlocks
  <1>3. CASE entries[e].exists
    <2>1. entries' = [entries EXCEPT ![e].blocks = S]
      BY <1>3 DEF WriteBlocks
    <2>2. PICK r : r = [entries[e] EXCEPT !.blocks = S]
      OBVIOUS
    <2>3. r \in EntryRec /\ r.exists = entries[e].exists /\ r.by = entries[e].by /\ r.closed = entries[e].closed
          /\ r.link = entries[e].link /\ r.type = entries[e].type /\ r.enabled = entries[e].enabled /\ r.blocks = S
      BY <2>2, <1>1 DEF EntryRec
    <2>4. entries' \in [EntryIds -> EntryRec] /\ entries'[e] = r /\ \A d \in EntryIds : d # e => entries'[d] = entries[d]
      BY <2>1, <2>2, <2>3, <1>1
    <2> QED
      BY <1>2, <1>3, <2>3, <2>4 DEF Wrote, WriteBlocks, Meta
  <1>4. CASE ~entries[e].exists
    BY <1>1, <1>2, <1>4 DEF Wrote, WriteBlocks, Meta
  <1> QED
    BY <1>3, <1>4

\* How requests begin and end.
LEMMA BeginTurns ==
  ASSUME EntryTypes, NEW p \in EditThreads, NEW r \in EditRec, BeginEdit(p, r)
  PROVE  Turned(p, r) /\ edit[p] = NoEdit /\ edit[p].at = "idle"
  BY EntryTyped, EntryValues DEF BeginEdit, Idling, Turned

LEMMA DoneTurns ==
  ASSUME EntryTypes, NEW p \in EditThreads, DoneEdit(p)
  PROVE  Turned(p, NoEdit)
  BY EntryTyped, EntryValues DEF DoneEdit, Turned

LEMMA AdmittedTurns ==
  ASSUME EntryTypes, NEW p \in EditThreads, NEW u \in Editors, NEW r \in EditRec, Admitted(p, u, r)
  PROVE  \E s \in EditRec :
            /\ Turned(p, s) /\ edit[p] = NoEdit
            /\ pages[u] # NoPage /\ pages[u].entry \in EntryIds
            /\ s.entry = pages[u].entry /\ s.user = u /\ s.at = r.at /\ s.blocks = r.blocks /\ s.block = r.block
            /\ s.todo = r.todo /\ s.base = r.base /\ s.want = r.want
            /\ entries[s.entry].exists /\ CanEdit(u, s.entry)
            /\ UNCHANGED <<entries, born, content, pages, lastSaved>>
  <1>1. pages[u] # NoPage /\ pages[u].entry \in EntryIds
    BY DEF Admitted, EntryTypes
  <1>2. PICK s : s = [r EXCEPT !.user = u, !.entry = pages[u].entry]
    OBVIOUS
  <1>3. /\ s \in EditRec /\ s.entry = pages[u].entry /\ s.user = u /\ s.at = r.at /\ s.blocks = r.blocks
        /\ s.block = r.block /\ s.todo = r.todo /\ s.base = r.base /\ s.want = r.want
    BY <1>1, <1>2 DEF EditRec
  <1>4. BeginEdit(p, s)
    BY <1>2 DEF Admitted
  <1>5. Turned(p, s) /\ edit[p] = NoEdit
    BY <1>3, <1>4, BeginTurns
  <1>6. entries[s.entry].exists /\ CanEdit(u, s.entry) /\ UNCHANGED <<entries, born, content, pages, lastSaved>>
    BY <1>3 DEF Admitted
  <1> QED
    BY <1>1, <1>3, <1>5, <1>6

\* What an edit may become without being a new one, or as one just admitted.
Follows(p) ==
    \/ edit'[p] = edit[p]
    \/ edit'[p] = NoEdit
    \/ /\ edit'[p].at # "idle" /\ edit'[p].user \in Editors /\ edit'[p].entry \in EntryIds
       /\ \/ edit[p].at # "idle" /\ edit'[p].entry = edit[p].entry /\ edit'[p].user = edit[p].user
          \/ entries[edit'[p].entry].exists /\ CanEdit(edit'[p].user, edit'[p].entry)

Typed ==
    /\ entries \in [EntryIds -> EntryRec] /\ lastDrawn \in 0 .. MaxIds /\ overlapped \subseteq EntryIds
    /\ edit \in [EditThreads -> EditRec] /\ pages \in [Editors -> PageRec]
    /\ revision \in [EntryIds -> Nat \ {0}] /\ wanted \in [EntryIds -> SUBSET Nat]

LEMMA TypedNow == ASSUME EntryTypes PROVE Typed
  BY EntryTyped DEF Typed, EntryTypes

LEMMA GroundKeeps ==
  ASSUME Ground, Typed', born' = born, lastSaved' = lastSaved,
         \A d \in EntryIds :
            /\ entries'[d].exists = entries[d].exists /\ entries'[d].by = entries[d].by
            /\ Meta(entries'[d]) = Meta(entries[d]) /\ entries'[d].closed = entries[d].closed
            /\ ~entries[d].exists => entries'[d] = entries[d],
         \A p \in EditThreads : Follows(p),
         \A u \in Editors : pages'[u] = pages[u] \/ (pages'[u].entry \in EntryIds /\ pages'[u].entry \in Created)
  PROVE  Ground'
  <1>0. EntryTypes /\ BornInv /\ OwnInv /\ SavedKept
    BY DEF Ground
  <1>1. \A p \in EditThreads : IF edit'[p].at = "idle" THEN edit'[p] = NoEdit
                               ELSE edit'[p].user \in Editors /\ edit'[p].entry \in EntryIds
    BY <1>0, EntryValues DEF Follows, EntryTypes
  <1>2. \A u \in Editors : pages'[u] # NoPage => pages'[u].entry \in EntryIds
    BY <1>0 DEF EntryTypes
  <1>3. EntriesTypeOK'
    BY DEF Typed, EntriesTypeOK, EntryRec, BlockDoc
  <1>4. EntryTypes'
    BY <1>0, <1>1, <1>2, <1>3 DEF EntryTypes, Typed
  <1>5. BornInv'
    <2>1. Created' = Created
      BY DEF Created
    <2>2. \A p \in EditThreads : edit'[p].at # "idle" => edit'[p].entry \in Created
      BY <1>0, EntryValues DEF Follows, BornInv
    <2>3. \A u \in Editors : pages'[u] # NoPage => pages'[u].entry \in Created
      BY <1>0 DEF BornInv
    <2>4. \A e \in EntryIds : IF entries'[e].exists THEN e \in Created ELSE entries'[e] = Absent
      BY <1>0 DEF BornInv
    <2>5. \A i, j \in DOMAIN born : born[i] = born[j] => i = j
      BY <1>0 DEF BornInv
    <2> QED
      BY <2>1, <2>2, <2>3, <2>4, <2>5 DEF BornInv
  <1>6. OwnInv'
    <2> SUFFICES ASSUME NEW p \in EditThreads, NEW e \in EntryIds, edit'[p].entry = e,
                        edit'[p].user \in Authors, entries'[e].exists
                 PROVE  entries'[e].by = edit'[p].user
      BY DEF OwnInv
    <2>1. entries[e].exists /\ entries'[e].by = entries[e].by
      OBVIOUS
    <2>2. edit'[p] # NoEdit
      BY EntryValues, EntriesAssumption
    <2>3. CASE edit[p].entry = e /\ edit[p].user = edit'[p].user
      BY <1>0, <2>1, <2>3 DEF OwnInv
    <2>4. CASE CanEdit(edit'[p].user, e)
      BY <2>1, <2>4, EntriesAssumption DEF CanEdit
    <2> QED
      BY <2>2, <2>3, <2>4 DEF Follows
  <1>7. SavedKept'
    BY <1>0 DEF SavedKept
  <1> QED
    BY <1>4, <1>5, <1>6, <1>7 DEF Ground

\* The same for a write of blocks.
LEMMA WroteGround ==
  ASSUME Ground, NEW e \in EntryIds, NEW S, NEW base, Wrote(e, S, base), Typed', born' = born, lastSaved' = lastSaved,
         \A p \in EditThreads : Follows(p),
         \A u \in Editors : pages'[u] = pages[u] \/ (pages'[u].entry \in EntryIds /\ pages'[u].entry \in Created)
  PROVE  Ground'
  <1>1. \A d \in EntryIds :
            /\ entries'[d].exists = entries[d].exists /\ entries'[d].by = entries[d].by
            /\ Meta(entries'[d]) = Meta(entries[d]) /\ entries'[d].closed = entries[d].closed
            /\ ~entries[d].exists => entries'[d] = entries[d]
    BY DEF Wrote
  <1> QED
    BY <1>1, GroundKeeps

-----------------------------------------------------------------------------
(* Which ids and keys there are.                                           *)

\* Steps that draw no id.
LEMMA IdsKeep ==
  ASSUME IdsInv, lastDrawn \in 0 .. MaxIds, lastDrawn' \in 0 .. MaxIds, lastDrawn <= lastDrawn',
         \A e \in EntryIds : \A k, i \in 0 .. MaxIds : Somewhere(e, k, i)' => Somewhere(e, k, i) \/ (k = 0 /\ i = 0)
  PROVE  IdsInv'
  <1> SUFFICES ASSUME NEW e \in EntryIds, NEW k \in 0 .. MaxIds, NEW i \in 0 .. MaxIds, Somewhere(e, k, i)'
               PROVE  /\ k <= lastDrawn' /\ i <= lastDrawn'
                      /\ k # 0 => i = k
                      /\ k = 0 /\ i # 0 => \A d \in EntryIds : ~Somewhere(d, i, i)'
    BY DEF IdsInv
  <1>1. CASE k = 0 /\ i = 0
    BY <1>1, EntriesAssumption
  <1>2. CASE Somewhere(e, k, i)
    <2>1. /\ k <= lastDrawn /\ i <= lastDrawn
          /\ k # 0 => i = k
          /\ k = 0 /\ i # 0 => \A d \in EntryIds : ~Somewhere(d, i, i)
      BY <1>2 DEF IdsInv
    <2> QED
      BY <2>1, EntriesAssumption
  <1> QED
    BY <1>1, <1>2

\* Steps that draw one, for a block whose key it is.
LEMMA IdsDrawKey ==
  ASSUME IdsInv, lastDrawn \in 0 .. MaxIds, NEW n \in 1 .. MaxIds, n = lastDrawn + 1, lastDrawn' = n,
         \A e \in EntryIds : \A k, i \in 0 .. MaxIds :
            Somewhere(e, k, i)' => Somewhere(e, k, i) \/ (k = 0 /\ i = 0) \/ (k = n /\ i = n)
  PROVE  IdsInv'
  <1> SUFFICES ASSUME NEW e \in EntryIds, NEW k \in 0 .. MaxIds, NEW i \in 0 .. MaxIds, Somewhere(e, k, i)'
               PROVE  /\ k <= lastDrawn' /\ i <= lastDrawn'
                      /\ k # 0 => i = k
                      /\ k = 0 /\ i # 0 => \A d \in EntryIds : ~Somewhere(d, i, i)'
    BY DEF IdsInv
  <1>0. MaxIds \in Nat
    BY EntriesAssumption
  <1>1. CASE k = 0 /\ i = 0
    BY <1>0, <1>1
  <1>2. CASE Somewhere(e, k, i)
    <2>1. /\ k <= lastDrawn /\ i <= lastDrawn
          /\ k # 0 => i = k
          /\ k = 0 /\ i # 0 => \A d \in EntryIds : ~Somewhere(d, i, i)
      BY <1>2 DEF IdsInv
    <2>2. i # n
      BY <1>0, <2>1
    <2> QED
      BY <1>0, <2>1, <2>2
  <1>3. CASE k = n /\ i = n
    BY <1>0, <1>3
  <1> QED
    BY <1>1, <1>2, <1>3

\* Steps that draw one for the block that had none.
LEMMA IdsDrawId ==
  ASSUME IdsInv, lastDrawn \in 0 .. MaxIds, NEW n \in 1 .. MaxIds, n = lastDrawn + 1, lastDrawn' = n,
         \A e \in EntryIds : \A k, i \in 0 .. MaxIds :
            Somewhere(e, k, i)' => Somewhere(e, k, i) \/ (k = 0 /\ i = 0) \/ (k = 0 /\ i = n)
  PROVE  IdsInv'
  <1> SUFFICES ASSUME NEW e \in EntryIds, NEW k \in 0 .. MaxIds, NEW i \in 0 .. MaxIds, Somewhere(e, k, i)'
               PROVE  /\ k <= lastDrawn' /\ i <= lastDrawn'
                      /\ k # 0 => i = k
                      /\ k = 0 /\ i # 0 => \A d \in EntryIds : ~Somewhere(d, i, i)'
    BY DEF IdsInv
  <1>0. MaxIds \in Nat
    BY EntriesAssumption
  <1>4. \A d \in EntryIds : ~Somewhere(d, n, n)
    BY <1>0 DEF IdsInv
  <1>1. CASE k = 0 /\ i = 0
    BY <1>0, <1>1
  <1>2. CASE Somewhere(e, k, i)
    <2>1. /\ k <= lastDrawn /\ i <= lastDrawn
          /\ k # 0 => i = k
          /\ k = 0 /\ i # 0 => \A d \in EntryIds : ~Somewhere(d, i, i)
      BY <1>2 DEF IdsInv
    <2> QED
      BY <1>0, <2>1
  <1>3. CASE k = 0 /\ i = n
    BY <1>0, <1>3, <1>4
  <1> QED
    BY <1>1, <1>2, <1>3

\* In a list whose keys are apart, so are the ids.
LEMMA IdOnce ==
  ASSUME IdsInv, NEW e \in EntryIds, NEW S \in SUBSET BlockDoc, KeyOnce(S),
         \A k, i \in 0 .. MaxIds : Has(S, k, i) => Somewhere(e, k, i),
         NEW b \in S, NEW c \in S, b.key = c.key \/ b.id = c.id
  PROVE  b = c
  <1>1. b.key \in 0 .. MaxIds /\ b.id \in 0 .. MaxIds /\ c.key \in 0 .. MaxIds /\ c.id \in 0 .. MaxIds
    BY DEF BlockDoc
  <1>2. Somewhere(e, b.key, b.id) /\ Somewhere(e, c.key, c.id)
    BY <1>1 DEF Has
  <1>3. b.key = c.key
    BY <1>1, <1>2 DEF IdsInv
  <1> QED
    BY <1>3 DEF KeyOnce

LEMMA OldIdKeep ==
  ASSUME OldIdInv,
         \A e \in EntryIds : Live(e)' => Live(e),
         \A e \in EntryIds : entries'[e].blocks = entries[e].blocks,
         \A e \in EntryIds : \A k, i \in 0 .. MaxIds : Somewhere(e, k, i)' => Somewhere(e, k, i) \/ (k = 0 /\ i = 0)
  PROVE  OldIdInv'
  <1> SUFFICES ASSUME NEW e \in EntryIds, Live(e)', NEW i \in 0 .. MaxIds, NEW j \in 0 .. MaxIds,
                      Has(entries'[e].blocks, 0, i), Somewhere(e, 0, j)', j # 0
               PROVE  i = j
    BY DEF OldIdInv, Has
  <1>1. Live(e) /\ Has(entries[e].blocks, 0, i)
    OBVIOUS
  <1>2. Somewhere(e, 0, j)
    BY EntriesAssumption
  <1> QED
    BY <1>1, <1>2 DEF OldIdInv

LEMMA SameKeys ==
  ASSUME NEW S \in SUBSET BlockDoc, NEW T \in SUBSET BlockDoc, Same(S, T)
  PROVE  Keys(S) = Keys(T)
  <1>1. \A b \in S \cup T : b.key \in 0 .. MaxIds /\ b.id \in 0 .. MaxIds
    BY DEF BlockDoc
  <1>2. \A b \in S : \E c \in T : c.key = b.key
    BY <1>1 DEF Same, Has
  <1>3. \A c \in T : \E b \in S : b.key = c.key
    BY <1>1 DEF Same, Has
  <1> QED
    BY <1>2, <1>3 DEF Keys

-----------------------------------------------------------------------------
(* The galleries.                                                          *)

\* Steps that write no gallery.
LEMMA GalleryKeep ==
  ASSUME GalleryInv, lastDrawn \in 0 .. MaxIds, lastDrawn' \in 0 .. MaxIds, lastDrawn <= lastDrawn', galleries' = galleries,
         \A e \in EntryIds : \A k \in 0 .. MaxIds, g \in 1 .. MaxIds : Shows(entries'[e].blocks, k, g) => GalleryAt(e, k, g),
         \A u \in Editors, e \in EntryIds : pages'[u].entry = e =>
            \A k \in 0 .. MaxIds, g \in 1 .. MaxIds : Shows(pages'[u].blocks, k, g) => GalleryAt(e, k, g),
         \A p \in EditThreads, e \in EntryIds : edit'[p].entry = e =>
            \A k \in 0 .. MaxIds, g \in 1 .. MaxIds : Shows(edit'[p].blocks, k, g) => GalleryAt(e, k, g)
  PROVE  GalleryInv'
  <1>1. ASSUME NEW e \in EntryIds, NEW k \in 0 .. MaxIds, NEW g \in 1 .. MaxIds, GalleryAt(e, k, g)'
        PROVE  GalleryAt(e, k, g)
    <2>1. CASE Shows(entries'[e].blocks, k, g)
      BY <2>1
    <2>2. CASE \E u \in Editors : pages'[u].entry = e /\ Shows(pages'[u].blocks, k, g)
      BY <2>2
    <2>3. CASE \E p \in EditThreads : edit'[p].entry = e /\ Shows(edit'[p].blocks, k, g)
      BY <2>3
    <2> QED
      BY <1>1, <2>1, <2>2, <2>3 DEF GalleryAt
  <1>2. /\ galleries' \in [DOMAIN galleries' -> [entry : EntryIds, pics : 1 .. MaxPics]]
        /\ DOMAIN galleries' \subseteq 1 .. lastDrawn'
    BY EntriesAssumption DEF GalleryInv
  <1>3. \A e \in EntryIds : \A k \in 0 .. MaxIds, g \in 1 .. MaxIds : GalleryAt(e, k, g)' =>
          /\ g \in DOMAIN galleries' /\ galleries'[g].entry = e
          /\ \A l \in 0 .. MaxIds : GalleryAt(e, l, g)' => l = k
    BY <1>1 DEF GalleryInv
  <1> QED
    BY <1>2, <1>3 DEF GalleryInv

\* A step that does not write entry d, nor a gallery of its blocks.
LEMMA SyncOther ==
  ASSUME NEW d \in EntryIds, SyncAt(d), revision'[d] = revision[d],
         Live(d)' => Live(d) /\ entries'[d].blocks = entries[d].blocks,
         \A q \in EditThreads :
            \/ edit'[q] = edit[q]
            \/ /\ ~(edit[q].entry = d /\ edit[q].at \in Writing)
               /\ ~(edit'[q].entry = d /\ edit'[q].at \in Writing),
         \A b \in entries[d].blocks : InSync(b) => InSync(b)',
         \A q \in EditThreads : edit[q].entry = d => \A b \in edit[q].blocks : InSync(b) => InSync(b)'
  PROVE  SyncAt(d)'
  <1>1. \A q \in EditThreads : Writer(q, d)' <=> Writer(q, d)
    BY DEF Writer
  <1>2. \A q \in EditThreads : Doom(q, d)' <=> Doom(q, d)
    BY DEF Doom
  <1>3. \A q \in EditThreads : Writer(q, d) => edit'[q] = edit[q] /\ edit[q].entry = d
    BY DEF Writer
  <1>4. \A p, q \in EditThreads : Writer(p, d)' /\ Writer(q, d)' => p = q
    BY <1>1 DEF SyncAt
  <1>5. ASSUME Live(d)', \A q \in EditThreads : ~Doom(q, d)'
        PROVE  /\ \A p \in EditThreads : Writer(p, d)' =>
                     /\ \A b \in edit'[p].blocks \ edit'[p].todo : InSync(b)'
                     /\ edit'[p].at = "galleries" => entries'[d].blocks = edit'[p].blocks
               /\ (\A p \in EditThreads : ~Writer(p, d)') => \A b \in entries'[d].blocks : InSync(b)'
    <2>1. Live(d) /\ entries'[d].blocks = entries[d].blocks /\ \A q \in EditThreads : ~Doom(q, d)
      BY <1>2, <1>5
    <2>2. ASSUME NEW p \in EditThreads, Writer(p, d)'
          PROVE  /\ \A b \in edit'[p].blocks \ edit'[p].todo : InSync(b)'
                 /\ edit'[p].at = "galleries" => entries'[d].blocks = edit'[p].blocks
      <3>1. Writer(p, d) /\ edit'[p] = edit[p] /\ edit[p].entry = d
        BY <1>1, <1>3, <2>2
      <3>2. /\ \A b \in edit[p].blocks \ edit[p].todo : InSync(b)
            /\ edit[p].at = "galleries" => entries[d].blocks = edit[p].blocks
        BY <2>1, <3>1 DEF SyncAt
      <3> QED
        BY <2>1, <3>1, <3>2
    <2>3. ASSUME \A p \in EditThreads : ~Writer(p, d)'
          PROVE  \A b \in entries'[d].blocks : InSync(b)'
      <3>1. \A b \in entries[d].blocks : InSync(b)
        BY <1>1, <2>1, <2>3 DEF SyncAt
      <3> QED
        BY <2>1, <3>1
    <2> QED
      BY <2>2, <2>3
  <1> QED
    BY <1>4, <1>5 DEF SyncAt

\* Steps that write neither blocks nor galleries.
LEMMA QuietShown ==
  ASSUME Ground, Galleried, UNCHANGED <<galleries, revision, lastDrawn>>,
         \A d \in EntryIds : entries'[d].blocks \subseteq entries[d].blocks,
         \A d \in EntryIds : Live(d)' =>
            \/ Live(d) /\ entries'[d].blocks = entries[d].blocks
            \/ entries'[d].blocks = {} /\ \A q \in EditThreads : edit'[q].entry # d,
         \A q \in EditThreads :
            \/ edit'[q] = edit[q]
            \/ /\ edit[q].at \notin Writing /\ edit'[q].at \notin Writing
               /\ edit'[q].blocks = {} \/ \E u \in Editors : pages[u].entry = edit'[q].entry /\ edit'[q].blocks \subseteq pages[u].blocks,
         \A u \in Editors :
            \/ pages'[u] = pages[u]
            \/ \A k \in 0 .. MaxIds, g \in 1 .. MaxIds : Shows(pages'[u].blocks, k, g) => GalleryAt(pages'[u].entry, k, g)
  PROVE  Galleried'
  <1>0. GalleryInv /\ SyncInv
    BY DEF Galleried
  <1>1. GalleryInv'
    <2>1. lastDrawn \in 0 .. MaxIds /\ lastDrawn' \in 0 .. MaxIds /\ lastDrawn <= lastDrawn'
      BY EntryTyped, EntriesAssumption DEF Ground
    <2>2. \A e \in EntryIds : \A k \in 0 .. MaxIds, g \in 1 .. MaxIds : Shows(entries'[e].blocks, k, g) => GalleryAt(e, k, g)
      BY DEF GalleryAt, Shows
    <2>3. \A u \in Editors, e \in EntryIds : pages'[u].entry = e =>
             \A k \in 0 .. MaxIds, g \in 1 .. MaxIds : Shows(pages'[u].blocks, k, g) => GalleryAt(e, k, g)
      BY DEF GalleryAt
    <2>4. ASSUME NEW p \in EditThreads, NEW e \in EntryIds, edit'[p].entry = e,
                 NEW k \in 0 .. MaxIds, NEW g \in 1 .. MaxIds, Shows(edit'[p].blocks, k, g)
          PROVE  GalleryAt(e, k, g)
      <3>1. CASE edit'[p] = edit[p]
        BY <2>4, <3>1 DEF GalleryAt
      <3>2. CASE edit'[p].blocks = {}
        BY <2>4, <3>2 DEF Shows
      <3>3. CASE \E u \in Editors : pages[u].entry = edit'[p].entry /\ edit'[p].blocks \subseteq pages[u].blocks
        BY <2>4, <3>3 DEF GalleryAt, Shows
      <3> QED
        BY <3>1, <3>2, <3>3
    <2> QED
      BY <1>0, <2>1, <2>2, <2>3, <2>4, GalleryKeep
  <1>2. ASSUME NEW d \in EntryIds PROVE SyncAt(d)'
    <2>0. SyncAt(d)
      BY <1>0 DEF SyncInv
    <2>1. \A b : InSync(b)' <=> InSync(b)
      BY DEF InSync
    <2>2. CASE Live(d)' => Live(d) /\ entries'[d].blocks = entries[d].blocks
      BY <2>0, <2>1, <2>2, SyncOther
    <2>3. CASE entries'[d].blocks = {} /\ \A q \in EditThreads : edit'[q].entry # d
      BY <2>3 DEF SyncAt, Writer
    <2> QED
      BY <2>2, <2>3
  <1> QED
    BY <1>1, <1>2 DEF Galleried, SyncInv

\* Steps that leave the pages and every list alone, but that a request may end.
LEMMA QuietLists ==
  ASSUME Ground, Lists, UNCHANGED <<born, pages, revision, overlapped, wanted, lastDrawn>>,
         \A e \in EntryIds : entries'[e].blocks = entries[e].blocks /\ entries'[e].exists = entries[e].exists,
         \A p \in EditThreads : edit'[p] = edit[p] \/ edit'[p] = NoEdit
  PROVE  Lists'
  <1>0. KeysInv /\ IdsInv /\ OldIdInv /\ FreshInv /\ WantInv
    BY DEF Lists
  <1>1. lastDrawn \in 0 .. MaxIds
    BY EntryTyped DEF Ground
  <1>2. \A p \in EditThreads, e \in EntryIds : edit'[p].entry = e => edit'[p] = edit[p]
    BY EntryValues, EntriesAssumption
  <1>3. KeysInv'
    BY <1>0, EntryValues DEF KeysInv, KeyOnce, Pending
  <1>4. \A e \in EntryIds : \A k, i \in 0 .. MaxIds : Somewhere(e, k, i)' => Somewhere(e, k, i)
    <2> SUFFICES ASSUME NEW e \in EntryIds, NEW k \in 0 .. MaxIds, NEW i \in 0 .. MaxIds, Somewhere(e, k, i)'
                 PROVE  Somewhere(e, k, i)
      OBVIOUS
    <2> QED
      BY <1>2 DEF Somewhere
  <1>5. IdsInv'
    BY <1>0, <1>1, <1>4, IdsKeep
  <1>6. \A e \in EntryIds : Live(e)' <=> Live(e)
    BY DEF Live
  <1>7. OldIdInv'
    BY <1>0, <1>4, <1>6, OldIdKeep
  <1>8. FreshInv'
    <2> SUFFICES ASSUME NEW e \in EntryIds
                 PROVE  /\ \A u \in Editors : pages[u].entry = e => pages[u].revision <= revision[e]
                        /\ \A p \in EditThreads : edit'[p].entry = e => edit'[p].base <= revision[e]
                        /\ Live(e)' =>
                              /\ \A u \in Editors : FreshPage(u, e) => Same(pages[u].blocks, entries[e].blocks)
                              /\ \A p \in EditThreads : FreshEdit(p, e)' =>
                                    /\ Same(edit'[p].blocks, entries[e].blocks)
                                    /\ pages[edit'[p].user].entry = e =>
                                          Keys(pages[edit'[p].user].blocks) = Keys(entries[e].blocks)
      BY DEF FreshInv, FreshPage
    <2>1. \A p \in EditThreads : FreshEdit(p, e)' => FreshEdit(p, e) /\ edit'[p] = edit[p]
      BY <1>2 DEF FreshEdit
    <2> QED
      BY <1>0, <1>2, <1>6, <2>1 DEF FreshInv
  <1>9. WantInv'
    BY <1>0, <1>6, EntryValues DEF WantInv, Created
  <1> QED
    BY <1>3, <1>5, <1>7, <1>8, <1>9 DEF Lists

LEMMA MetaStep ==
  ASSUME Ground, Lists, NEW p \in EditThreads, UpdateMeta(p) \/ UpdateHeader(p)
  PROVE  Ground' /\ Lists' /\ (Galleried => Galleried')
  <1>0. EntryTypes /\ BornInv /\ OwnInv /\ SavedKept
    BY DEF Ground
  <1>1. PICK e : e = edit[p].entry
    OBVIOUS
  <1>2. e \in EntryIds /\ entries \in [EntryIds -> EntryRec] /\ edit[p] \in EditRec
        /\ lastSaved \in [EntryIds -> [meta : Links \X Types \X BOOLEAN, closed : BOOLEAN]]
    BY <1>0, <1>1, EntryTyped DEF UpdateMeta, UpdateHeader, EntryTypes
  <1>3. Turned(p, NoEdit)
    BY <1>0, DoneTurns DEF UpdateMeta, UpdateHeader
  <1>4. UNCHANGED <<born, pages, galleries, lastDrawn, revision, overlapped, wanted>>
    BY DEF UpdateMeta, UpdateHeader, content
  <1>5. PICK r, s :
           /\ r \in EntryRec /\ s \in [meta : Links \X Types \X BOOLEAN, closed : BOOLEAN]
           /\ entries' = (IF entries[e].exists THEN [entries EXCEPT ![e] = r] ELSE entries)
           /\ lastSaved' = [lastSaved EXCEPT ![e] = s]
           /\ r.exists = entries[e].exists /\ r.by = entries[e].by /\ r.blocks = entries[e].blocks
           /\ lastSaved[e] = [meta |-> Meta(entries[e]), closed |-> entries[e].closed]
                 => s = [meta |-> Meta(r), closed |-> r.closed]
    <2>1. edit[p].link \in Links /\ edit[p].type \in Types /\ edit[p].enabled \in BOOLEAN /\ edit[p].closed \in BOOLEAN
      BY <1>2 DEF EditRec
    <2>2. CASE UpdateMeta(p)
      <3>1. PICK r : r = [entries[e] EXCEPT !.link = edit[p].link, !.type = edit[p].type, !.enabled = edit[p].enabled]
        OBVIOUS
      <3>2. r \in EntryRec /\ r.exists = entries[e].exists /\ r.by = entries[e].by /\ r.blocks = entries[e].blocks
            /\ r.closed = entries[e].closed
            /\ r.link = edit[p].link /\ r.type = edit[p].type /\ r.enabled = edit[p].enabled
        BY <1>2, <2>1, <3>1 DEF EntryRec
      <3>3. entries' = (IF entries[e].exists THEN [entries EXCEPT ![e] = r] ELSE entries)
        BY <1>1, <1>2, <2>2, <3>1 DEF UpdateMeta
      <3>4. PICK s : s = [lastSaved[e] EXCEPT !.meta = <<edit[p].link, edit[p].type, edit[p].enabled>>]
        OBVIOUS
      <3>5. s \in [meta : Links \X Types \X BOOLEAN, closed : BOOLEAN]
        BY <1>2, <2>1, <3>4
      <3>6. lastSaved' = [lastSaved EXCEPT ![e] = s]
        BY <1>1, <1>2, <2>2, <3>4 DEF UpdateMeta
      <3>7. lastSaved[e] = [meta |-> Meta(entries[e]), closed |-> entries[e].closed]
               => s = [meta |-> Meta(r), closed |-> r.closed]
        BY <3>2, <3>4 DEF Meta
      <3> QED
        BY <3>2, <3>3, <3>5, <3>6, <3>7
    <2>3. CASE UpdateHeader(p)
      <3>1. PICK r : r = [entries[e] EXCEPT !.closed = edit[p].closed]
        OBVIOUS
      <3>2. r \in EntryRec /\ r.exists = entries[e].exists /\ r.by = entries[e].by /\ r.blocks = entries[e].blocks
            /\ r.closed = edit[p].closed
            /\ r.link = entries[e].link /\ r.type = entries[e].type /\ r.enabled = entries[e].enabled
        BY <1>2, <2>1, <3>1 DEF EntryRec
      <3>3. entries' = (IF entries[e].exists THEN [entries EXCEPT ![e] = r] ELSE entries)
        BY <1>1, <1>2, <2>3, <3>1 DEF UpdateHeader
      <3>4. PICK s : s = [lastSaved[e] EXCEPT !.closed = edit[p].closed]
        OBVIOUS
      <3>5. s \in [meta : Links \X Types \X BOOLEAN, closed : BOOLEAN]
        BY <1>2, <2>1, <3>4
      <3>6. lastSaved' = [lastSaved EXCEPT ![e] = s]
        BY <1>1, <1>2, <2>3, <3>4 DEF UpdateHeader
      <3>7. lastSaved[e] = [meta |-> Meta(entries[e]), closed |-> entries[e].closed]
               => s = [meta |-> Meta(r), closed |-> r.closed]
        BY <3>2, <3>4 DEF Meta
      <3> QED
        BY <3>2, <3>3, <3>5, <3>6, <3>7
    <2> QED
      BY <2>2, <2>3
  <1>6. /\ entries' \in [EntryIds -> EntryRec]
        /\ \A d \in EntryIds : entries'[d].exists = entries[d].exists /\ entries'[d].by = entries[d].by
                               /\ entries'[d].blocks = entries[d].blocks /\ (~entries[d].exists => entries'[d] = entries[d])
    BY <1>2, <1>5
  <1>7. \A q \in EditThreads : edit'[q] = edit[q] \/ edit'[q] = NoEdit
    BY <1>3 DEF Turned
  <1>8. Lists'
    BY <1>4, <1>6, <1>7, QuietLists
  <1>9. EntryTypes'
    <2>1. lastSaved' \in [EntryIds -> [meta : Links \X Types \X BOOLEAN, closed : BOOLEAN]]
      BY <1>2, <1>5
    <2>2. \A q \in EditThreads : IF edit'[q].at = "idle" THEN edit'[q] = NoEdit
                                 ELSE edit'[q].user \in Editors /\ edit'[q].entry \in EntryIds
      BY <1>0, <1>7, EntryValues DEF EntryTypes
    <2>3. EntriesTypeOK'
      BY <1>0, <1>4, <1>6 DEF EntryTypes, EntriesTypeOK, EntryRec, BlockDoc
    <2>4. edit' \in [EditThreads -> EditRec]
      BY <1>3 DEF Turned
    <2> QED
      BY <1>0, <1>4, <2>1, <2>2, <2>3, <2>4 DEF EntryTypes
  <1>10. BornInv'
    <2>1. Created' = Created
      BY <1>4 DEF Created
    <2>2. \A q \in EditThreads : edit'[q].at # "idle" => edit'[q].entry \in Created
      BY <1>0, <1>7, EntryValues DEF BornInv
    <2>3. \A d \in EntryIds : IF entries'[d].exists THEN d \in Created ELSE entries'[d] = Absent
      BY <1>0, <1>6 DEF BornInv
    <2> QED
      BY <1>0, <1>4, <2>1, <2>2, <2>3 DEF BornInv
  <1>11. OwnInv'
    BY <1>0, <1>6, <1>7, EntryValues, EntriesAssumption DEF OwnInv
  <1>12. SavedKept'
    BY <1>0, <1>2, <1>5 DEF SavedKept
  <1>13. ASSUME Galleried PROVE Galleried'
    <2>1. \A q \in EditThreads : edit'[q] = edit[q] \/ (edit[q].at \notin Writing /\ edit'[q].at \notin Writing /\ edit'[q].blocks = {})
      BY <1>3, EntryValues DEF Turned, Writing, UpdateMeta, UpdateHeader
    <2>2. \A d \in EntryIds : Live(d)' => Live(d)
      BY <1>4, <1>6 DEF Live
    <2> QED
      BY <1>4, <1>6, <1>13, <2>1, <2>2, QuietShown
  <1> QED
    BY <1>8, <1>9, <1>10, <1>11, <1>12, <1>13 DEF Ground

\* Steps after which every entry has the blocks it had, or is new or gone; pages and
\* requests stay.
LEMMA CreatedGoneLists ==
  ASSUME Ground, Lists, UNCHANGED <<edit, pages, revision, overlapped, lastDrawn>>,
         NEW e \in EntryIds, entries'[e].blocks = {}, wanted' = [wanted EXCEPT ![e] = {}],
         \A d \in EntryIds : d # e => entries'[d] = entries[d],
         entries'[e].exists => e \notin Created,
         Created \subseteq Created'
  PROVE  Lists'
  <1>0. KeysInv /\ IdsInv /\ OldIdInv /\ FreshInv /\ WantInv /\ BornInv /\ EntryTypes
    BY DEF Lists, Ground
  <1>1. lastDrawn \in 0 .. MaxIds /\ wanted \in [EntryIds -> SUBSET Nat]
    BY <1>0, EntryTyped DEF EntryTypes
  <1>2. entries'[e].exists => (\A u \in Editors : pages[u].entry # e) /\ (\A p \in EditThreads : edit[p].entry # e)
    BY <1>0, EntryTyped DEF BornInv
  <1>3. KeysInv'
    BY <1>0 DEF KeysInv, KeyOnce, Pending
  <1>4. \A d \in EntryIds : \A k, i \in 0 .. MaxIds : Somewhere(d, k, i)' => Somewhere(d, k, i)
    <2> SUFFICES ASSUME NEW d \in EntryIds, NEW k \in 0 .. MaxIds, NEW i \in 0 .. MaxIds, Somewhere(d, k, i)'
                 PROVE  Somewhere(d, k, i)
      OBVIOUS
    <2> QED
      BY DEF Somewhere, Has
  <1>5. IdsInv'
    BY <1>0, <1>1, <1>4, IdsKeep
  <1>6. \A d \in EntryIds : d # e /\ Live(d)' => Live(d)
    BY DEF Live
  <1>7. OldIdInv'
    <2> SUFFICES ASSUME NEW d \in EntryIds, Live(d)', NEW i \in 0 .. MaxIds, NEW j \in 0 .. MaxIds,
                        Has(entries'[d].blocks, 0, i), Somewhere(d, 0, j)', j # 0
                 PROVE  i = j
      BY DEF OldIdInv, Has
    <2>1. d # e
      BY DEF Has
    <2>2. Live(d) /\ Has(entries[d].blocks, 0, i) /\ Somewhere(d, 0, j)
      BY <1>4, <1>6, <2>1, EntriesAssumption
    <2> QED
      BY <1>0, <2>2 DEF OldIdInv
  <1>8. FreshInv'
    <2> SUFFICES ASSUME NEW d \in EntryIds
                 PROVE  /\ \A u \in Editors : pages[u].entry = d => pages[u].revision <= revision[d]
                        /\ \A p \in EditThreads : edit[p].entry = d => edit[p].base <= revision[d]
                        /\ Live(d)' =>
                              /\ \A u \in Editors : FreshPage(u, d) => Same(pages[u].blocks, entries'[d].blocks)
                              /\ \A p \in EditThreads : FreshEdit(p, d) =>
                                    /\ Same(edit[p].blocks, entries'[d].blocks)
                                    /\ pages[edit[p].user].entry = d =>
                                          Keys(pages[edit[p].user].blocks) = Keys(entries'[d].blocks)
      BY DEF FreshInv, FreshPage, FreshEdit
    <2>1. CASE d # e
      BY <1>0, <1>6, <2>1 DEF FreshInv
    <2>2. CASE d = e
      BY <1>0, <1>2, <2>2 DEF FreshInv, FreshPage, FreshEdit, Live
    <2> QED
      BY <2>1, <2>2
  <1>9. WantInv'
    BY <1>0, <1>1, <1>6 DEF WantInv, Keys
  <1> QED
    BY <1>3, <1>5, <1>7, <1>8, <1>9 DEF Lists

LEMMA CreateStep ==
  ASSUME Ground, Lists, NEW p \in EditThreads, NEW u \in Editors, NEW e \in EntryIds, CreateEntry(p, u, e)
  PROVE  Ground' /\ Lists' /\ (Galleried => Galleried')
  <1>0. EntryTypes /\ BornInv /\ OwnInv /\ SavedKept /\ WantInv
    BY DEF Ground, Lists
  <1>1. e \notin Created /\ born' = Append(born, e) /\ UNCHANGED <<pages, galleries, lastDrawn, revision, overlapped, wanted>>
    BY DEF CreateEntry, Created, content
  <1>2. UNCHANGED edit
    BY <1>0, EntryTyped, EntryValues DEF CreateEntry, BeginEdit, Idling
  <1>3. PICK r : r = [Absent EXCEPT !.exists = TRUE, !.by = u, !.type = IF u \in Authors THEN "blog" ELSE "page"]
    OBVIOUS
  <1>4. r \in EntryRec /\ r.exists /\ r.by = u /\ r.blocks = {}
    BY <1>3, EntryValues DEF EntryRec, Types
  <1>5. entries' = [entries EXCEPT ![e] = r]
    BY <1>3 DEF CreateEntry, InsertEntry
  <1>6. /\ entries \in [EntryIds -> EntryRec] /\ entries' \in [EntryIds -> EntryRec] /\ entries'[e] = r
        /\ \A d \in EntryIds : d # e => entries'[d] = entries[d]
    BY <1>0, <1>4, <1>5, EntryTyped
  <1>7. PICK s : s = [meta |-> Meta(r), closed |-> FALSE]
    OBVIOUS
  <1>8. s \in [meta : Links \X Types \X BOOLEAN, closed : BOOLEAN] /\ r.closed = FALSE
        /\ lastSaved' = [lastSaved EXCEPT ![e] = s]
    <2>1. Meta(r) \in Links \X Types \X BOOLEAN
      BY <1>4 DEF Meta, EntryRec
    <2>2. r.closed = FALSE
      BY <1>3, EntryValues DEF EntryRec
    <2> QED
      BY <1>6, <1>7, <2>1, <2>2 DEF CreateEntry
  <1>9. born \in Seq(EntryIds) /\ born' \in Seq(EntryIds) /\ DOMAIN born = 1 .. Len(born) /\ Len(born) \in Nat
        /\ DOMAIN born' = 1 .. Len(born) + 1 /\ born'[Len(born) + 1] = e
        /\ \A i \in 1 .. Len(born) : born'[i] = born[i]
    BY <1>0, <1>1 DEF EntryTypes
  <1>10. Created' = Created \cup {e}
    BY <1>9 DEF Created
  <1>11. Lists'
    <2>1. wanted' = [wanted EXCEPT ![e] = {}]
      BY <1>0, <1>1 DEF WantInv, EntryTypes
    <2> QED
      BY <1>1, <1>2, <1>4, <1>6, <1>10, <2>1, CreatedGoneLists
  <1>12. EntryTypes'
    <2>1. EntriesTypeOK'
      BY <1>0, <1>1, <1>6 DEF EntryTypes, EntriesTypeOK, EntryRec, BlockDoc
    <2>2. lastSaved' \in [EntryIds -> [meta : Links \X Types \X BOOLEAN, closed : BOOLEAN]]
      BY <1>0, <1>8 DEF EntryTypes
    <2> QED
      BY <1>0, <1>1, <1>2, <1>9, <2>1, <2>2 DEF EntryTypes
  <1>13. BornInv'
    <2>1. \A i, j \in DOMAIN born' : born'[i] = born'[j] => i = j
      <3>1. \A i, j \in DOMAIN born : born[i] = born[j] => i = j
        BY <1>0 DEF BornInv
      <3>2. \A i \in DOMAIN born : born[i] # e
        BY <1>1 DEF Created
      <3> QED
        BY <1>9, <3>1, <3>2
    <2>2. \A d \in EntryIds : IF entries'[d].exists THEN d \in Created' ELSE entries'[d] = Absent
      BY <1>0, <1>4, <1>6, <1>10 DEF BornInv
    <2> QED
      BY <1>0, <1>1, <1>2, <1>10, <2>1, <2>2 DEF BornInv
  <1>14. OwnInv'
    <2>1. \A q \in EditThreads : edit[q].entry # e
      BY <1>0, <1>1, EntryTyped DEF BornInv
    <2> QED
      BY <1>0, <1>2, <1>6, <2>1 DEF OwnInv
  <1>15. SavedKept'
    <2>1. lastSaved'[e] = s /\ \A d \in EntryIds : d # e => lastSaved'[d] = lastSaved[d]
      BY <1>0, <1>8 DEF EntryTypes
    <2> QED
      BY <1>0, <1>6, <1>7, <1>8, <2>1 DEF SavedKept
  <1>16. ASSUME Galleried PROVE Galleried'
    <2>1. \A q \in EditThreads : edit[q].entry # e
      BY <1>0, <1>1, EntryTyped DEF BornInv
    <2>2. \A d \in EntryIds : Live(d)' =>
            \/ Live(d) /\ entries'[d].blocks = entries[d].blocks
            \/ entries'[d].blocks = {} /\ \A q \in EditThreads : edit'[q].entry # d
      BY <1>1, <1>2, <1>4, <1>6, <2>1 DEF Live
    <2>3. \A d \in EntryIds : entries'[d].blocks \subseteq entries[d].blocks
      BY <1>4, <1>6
    <2> QED
      BY <1>1, <1>2, <1>16, <2>2, <2>3, QuietShown
  <1> QED
    BY <1>11, <1>12, <1>13, <1>14, <1>15, <1>16 DEF Ground

LEMMA DeleteStep ==
  ASSUME Ground, Lists, NEW p \in EditThreads, NEW u \in Editors, NEW e \in EntryIds, DeleteEntry(p, u, e)
  PROVE  Ground' /\ Lists' /\ (Galleried => Galleried')
  <1>0. EntryTypes /\ BornInv /\ OwnInv /\ SavedKept /\ WantInv
    BY DEF Ground, Lists
  <1>1. UNCHANGED <<born, galleries, lastDrawn, revision, overlapped, pages, lastSaved>>
    BY DEF DeleteEntry
  <1>2. UNCHANGED edit
    BY <1>0, EntryTyped, EntryValues DEF DeleteEntry, BeginEdit, Idling
  <1>3. /\ entries \in [EntryIds -> EntryRec] /\ entries' \in [EntryIds -> EntryRec] /\ entries'[e] = Absent
        /\ \A d \in EntryIds : d # e => entries'[d] = entries[d]
    BY <1>0, EntryTyped, EntryValues DEF DeleteEntry, RemoveEntry
  <1>4. wanted' = [wanted EXCEPT ![e] = {}] /\ wanted' \in [EntryIds -> SUBSET Nat]
    BY <1>0 DEF DeleteEntry, EntryTypes
  <1>5. Created' = Created
    BY <1>1 DEF Created
  <1>6. Lists'
    BY <1>1, <1>2, <1>3, <1>4, <1>5, EntryValues, CreatedGoneLists
  <1>7. EntryTypes'
    <2>1. EntriesTypeOK'
      BY <1>0, <1>1, <1>3 DEF EntryTypes, EntriesTypeOK, EntryRec, BlockDoc
    <2> QED
      BY <1>0, <1>1, <1>2, <1>4, <2>1 DEF EntryTypes
  <1>8. BornInv'
    BY <1>0, <1>1, <1>2, <1>3, <1>5, EntryValues DEF BornInv
  <1>9. OwnInv'
    BY <1>0, <1>2, <1>3, EntryValues DEF OwnInv
  <1>10. SavedKept'
    BY <1>0, <1>1, <1>3, EntryValues DEF SavedKept
  <1>11. ASSUME Galleried PROVE Galleried'
    <2>1. \A d \in EntryIds : Live(d)' => Live(d) /\ entries'[d].blocks = entries[d].blocks
      BY <1>1, <1>3, EntryValues DEF Live
    <2>2. \A d \in EntryIds : entries'[d].blocks \subseteq entries[d].blocks
      BY <1>3, EntryValues
    <2> QED
      BY <1>1, <1>2, <1>11, <2>1, <2>2, QuietShown
  <1> QED
    BY <1>6, <1>7, <1>8, <1>9, <1>10, <1>11 DEF Ground

\* A post of a page.
LEMMA PostStep ==
  ASSUME Ground, Lists, NEW p \in EditThreads, NEW u \in Editors, NEW r \in EditRec, Admitted(p, u, r),
         r.at # "idle", r.at \notin Writing, r.todo = {}, KeyOnce(r.blocks), r.blocks \subseteq pages[u].blocks,
         r.block = OldBlock \/ r.block \in pages[u].blocks, r.at = "pull" => r.block.id # 0,
         r.base = 0 \/ (r.base = pages[u].revision /\ r.blocks = pages[u].blocks /\ r.want = Keys(r.blocks))
  PROVE  Ground' /\ Lists' /\ (Galleried => Galleried')
  <1>0. EntryTypes /\ KeysInv /\ IdsInv /\ OldIdInv /\ FreshInv /\ WantInv
    BY DEF Ground, Lists
  <1>1. PICK s \in EditRec :
            /\ Turned(p, s) /\ edit[p] = NoEdit
            /\ pages[u] # NoPage /\ pages[u].entry \in EntryIds
            /\ s.entry = pages[u].entry /\ s.user = u /\ s.at = r.at /\ s.blocks = r.blocks /\ s.block = r.block
            /\ s.todo = r.todo /\ s.base = r.base /\ s.want = r.want
            /\ entries[s.entry].exists /\ CanEdit(u, s.entry)
            /\ UNCHANGED <<entries, born, content, pages, lastSaved>>
    BY <1>0, AdmittedTurns
  <1>2. PICK e \in EntryIds : e = s.entry /\ e = pages[u].entry
    BY <1>1
  <1>3. UNCHANGED <<galleries, lastDrawn, revision, overlapped, wanted>>
    BY <1>1 DEF content
  <1>4. edit'[p] = s /\ (\A q \in EditThreads : q # p => edit'[q] = edit[q]) /\ edit' \in [EditThreads -> EditRec]
    BY <1>1 DEF Turned
  <1>5. Typed /\ lastDrawn \in 0 .. MaxIds /\ revision \in [EntryIds -> Nat \ {0}]
    BY <1>0, TypedNow, EntryTyped
  <1>6. Ground'
    <2>1. Typed'
      BY <1>1, <1>3, <1>4, <1>5 DEF Typed
    <2>2. \A q \in EditThreads : Follows(q)
      BY <1>1, <1>4 DEF Follows
    <2> QED
      BY <1>1, <2>1, <2>2, GroundKeeps
  <1>7. \A d \in EntryIds : \A k, i \in 0 .. MaxIds : Somewhere(d, k, i)' => Somewhere(d, k, i) \/ (k = 0 /\ i = 0)
    <2> SUFFICES ASSUME NEW d \in EntryIds, NEW k \in 0 .. MaxIds, NEW i \in 0 .. MaxIds, Somewhere(d, k, i)',
                        ~(k = 0 /\ i = 0)
                 PROVE  Somewhere(d, k, i)
      OBVIOUS
    <2>1. CASE Has(entries[d].blocks, k, i) \/ \E v \in Editors : pages[v].entry = d /\ Has(pages[v].blocks, k, i)
      BY <2>1 DEF Somewhere
    <2>2. ASSUME NEW q \in EditThreads, edit'[q].entry = d, Has(edit'[q].blocks, k, i) \/ Has({edit'[q].block}, k, i)
          PROVE  Somewhere(d, k, i)
      <3>1. CASE q # p
        BY <1>4, <2>2, <3>1 DEF Somewhere
      <3>2. CASE q = p
        <4>1. Has(pages[u].blocks, k, i) /\ d = e
          BY <1>1, <1>2, <1>4, <2>2, <3>2, EntryValues DEF Has
        <4> QED
          BY <1>2, <4>1 DEF Somewhere
      <3> QED
        BY <3>1, <3>2
    <2> QED
      BY <1>1, <2>1, <2>2 DEF Somewhere
  <1>8. KeysInv'
    BY <1>0, <1>1, <1>4 DEF KeysInv
  <1>9. IdsInv'
    BY <1>0, <1>3, <1>5, <1>7, IdsKeep
  <1>10. \A d \in EntryIds : Live(d)' <=> Live(d)
    BY <1>1, <1>3 DEF Live
  <1>11. OldIdInv'
    BY <1>0, <1>1, <1>7, <1>10, OldIdKeep
  <1>12. FreshInv'
    <2> SUFFICES ASSUME NEW d \in EntryIds
                 PROVE  /\ \A v \in Editors : pages[v].entry = d => pages[v].revision <= revision[d]
                        /\ \A q \in EditThreads : edit'[q].entry = d => edit'[q].base <= revision[d]
                        /\ Live(d) =>
                              /\ \A v \in Editors : FreshPage(v, d) => Same(pages[v].blocks, entries[d].blocks)
                              /\ \A q \in EditThreads : FreshEdit(q, d)' =>
                                    /\ Same(edit'[q].blocks, entries[d].blocks)
                                    /\ pages[edit'[q].user].entry = d =>
                                          Keys(pages[edit'[q].user].blocks) = Keys(entries[d].blocks)
      BY <1>1, <1>3, <1>10 DEF FreshInv, FreshPage
    <2>1. \A v \in Editors : pages[v].entry = d => pages[v].revision <= revision[d]
      BY <1>0 DEF FreshInv
    <2>2. ASSUME NEW q \in EditThreads, edit'[q].entry = d
          PROVE  edit'[q].base <= revision[d]
      <3>1. CASE q # p
        BY <1>0, <1>4, <2>2, <3>1 DEF FreshInv
      <3>2. CASE q = p
        BY <1>1, <1>2, <1>4, <1>5, <2>1, <2>2, <3>2
      <3> QED
        BY <3>1, <3>2
    <2>3. ASSUME Live(d), NEW v \in Editors, FreshPage(v, d)
          PROVE  Same(pages[v].blocks, entries[d].blocks)
      BY <1>0, <2>3 DEF FreshInv
    <2>4. ASSUME Live(d), NEW q \in EditThreads, FreshEdit(q, d)'
          PROVE  /\ Same(edit'[q].blocks, entries[d].blocks)
                 /\ pages[edit'[q].user].entry = d => Keys(pages[edit'[q].user].blocks) = Keys(entries[d].blocks)
      <3>1. CASE q # p
        <4>1. FreshEdit(q, d) /\ edit'[q] = edit[q]
          BY <1>3, <1>4, <2>4, <3>1 DEF FreshEdit
        <4> QED
          BY <1>0, <2>4, <4>1 DEF FreshInv
      <3>2. CASE q = p
        <4>1. d = e /\ s.base = revision[e] /\ s.base # 0
          BY <1>2, <1>3, <1>4, <1>5, <2>4, <3>2 DEF FreshEdit
        <4>2. FreshPage(u, e) /\ s.blocks = pages[u].blocks
          BY <1>1, <1>2, <4>1 DEF FreshPage
        <4>3. Same(pages[u].blocks, entries[e].blocks)
          BY <2>4, <4>1, <4>2, <1>0 DEF FreshInv
        <4>4. Keys(pages[u].blocks) = Keys(entries[e].blocks)
          BY <1>2, <1>5, <4>3, SameKeys DEF Typed, PageRec, EntryRec
        <4> QED
          BY <1>1, <1>4, <3>2, <4>1, <4>2, <4>3, <4>4
      <3> QED
        BY <3>1, <3>2
    <2> QED
      BY <2>1, <2>2, <2>3, <2>4
  <1>13. WantInv'
    <2>1. \A q \in EditThreads :
             /\ edit'[q].at = "content" /\ edit'[q].base # 0 => edit'[q].want = Keys(edit'[q].blocks)
             /\ edit'[q].at = "pull" => edit'[q].block.id # 0
      BY <1>0, <1>1, <1>4 DEF WantInv
    <2> QED
      BY <1>0, <1>1, <1>3, <1>10, <2>1 DEF WantInv, Created
  <1>14. ASSUME Galleried PROVE Galleried'
    <2>1. \A q \in EditThreads :
            \/ edit'[q] = edit[q]
            \/ /\ edit[q].at \notin Writing /\ edit'[q].at \notin Writing
               /\ \E v \in Editors : pages[v].entry = edit'[q].entry /\ edit'[q].blocks \subseteq pages[v].blocks
      BY <1>1, <1>4, EntryValues DEF Writing
    <2> QED
      BY <1>1, <1>3, <1>10, <1>14, <2>1, QuietShown
  <1> QED
    BY <1>6, <1>8, <1>9, <1>11, <1>12, <1>13, <1>14 DEF Lists

LEMMA PostsStep ==
  ASSUME Ground, Lists, NEW p \in EditThreads, NEW u \in Editors,
         \/ \E link \in Links, type \in Types, enabled \in BOOLEAN : PostMeta(p, u, link, type, enabled)
         \/ \E closed \in BOOLEAN : PostHeader(p, u, closed)
         \/ PostContent(p, u)
         \/ \E kind \in {"text", "gallery"} : PostBlock(p, u, kind)
         \/ \E b \in pages[u].blocks : PostBlockDelete(p, u, b)
  PROVE  Ground' /\ Lists' /\ (Galleried => Galleried')
  <1>0. EntryTypes /\ KeysInv /\ pages[u] \in PageRec
    BY EntryTyped DEF Ground, Lists
  <1>1. ASSUME NEW link \in Links, NEW type \in Types, NEW enabled \in BOOLEAN, PostMeta(p, u, link, type, enabled)
        PROVE  Ground' /\ Lists' /\ (Galleried => Galleried')
    <2>1. PICK t \in Types : t = IF u \in Authors THEN "blog" ELSE type
      BY DEF Types
    <2>2. PICK r : r = [NoEdit EXCEPT !.at = "meta", !.link = link, !.enabled = enabled, !.type = t]
      OBVIOUS
    <2>3. r \in EditRec /\ r.at = "meta" /\ r.blocks = {} /\ r.todo = {} /\ r.block = OldBlock /\ r.base = 0
      BY <2>2, EntryValues DEF EditRec
    <2>4. Admitted(p, u, r)
      BY <1>1, <2>1, <2>2 DEF PostMeta
    <2> QED
      BY <2>3, <2>4, PostStep DEF KeyOnce, Writing
  <1>2. ASSUME NEW closed \in BOOLEAN, PostHeader(p, u, closed)
        PROVE  Ground' /\ Lists' /\ (Galleried => Galleried')
    <2>2. PICK r : r = [NoEdit EXCEPT !.at = "header", !.closed = closed]
      OBVIOUS
    <2>3. r \in EditRec /\ r.at = "header" /\ r.blocks = {} /\ r.todo = {} /\ r.block = OldBlock /\ r.base = 0
      BY <2>2, EntryValues DEF EditRec
    <2>4. Admitted(p, u, r)
      BY <1>2, <2>2 DEF PostHeader
    <2> QED
      BY <2>3, <2>4, PostStep DEF KeyOnce, Writing
  <1>3. CASE PostContent(p, u)
    <2>1. PICK blocks \in SUBSET pages[u].blocks :
             Admitted(p, u, [NoEdit EXCEPT !.at = "content", !.blocks = blocks, !.want = Keys(pages[u].blocks),
                                           !.base = IF blocks = pages[u].blocks THEN pages[u].revision ELSE 0])
      BY <1>3 DEF PostContent
    <2>2. PICK r : r = [NoEdit EXCEPT !.at = "content", !.blocks = blocks, !.want = Keys(pages[u].blocks),
                                      !.base = IF blocks = pages[u].blocks THEN pages[u].revision ELSE 0]
      OBVIOUS
    <2>3. Keys(pages[u].blocks) \in SUBSET Nat /\ blocks \in SUBSET BlockDoc /\ pages[u].revision \in Nat
      BY <1>0 DEF PageRec, Keys, BlockDoc
    <2>4. r \in EditRec /\ r.at = "content" /\ r.blocks = blocks /\ r.todo = {} /\ r.block = OldBlock /\ r.want = Keys(pages[u].blocks)
          /\ r.base = IF blocks = pages[u].blocks THEN pages[u].revision ELSE 0
      BY <2>2, <2>3, EntryValues DEF EditRec
    <2>5. KeyOnce(blocks)
      BY <1>0 DEF KeysInv, KeyOnce
    <2> QED
      BY <2>1, <2>2, <2>4, <2>5, PostStep DEF Writing
  <1>4. ASSUME NEW kind \in {"text", "gallery"}, PostBlock(p, u, kind)
        PROVE  Ground' /\ Lists' /\ (Galleried => Galleried')
    <2>2. PICK r : r = [NoEdit EXCEPT !.at = "push", !.kind = kind]
      OBVIOUS
    <2>3. r \in EditRec /\ r.at = "push" /\ r.blocks = {} /\ r.todo = {} /\ r.block = OldBlock /\ r.base = 0
      BY <2>2, EntryValues DEF EditRec
    <2>4. Admitted(p, u, r)
      BY <1>4, <2>2 DEF PostBlock
    <2> QED
      BY <2>3, <2>4, PostStep DEF KeyOnce, Writing
  <1>5. ASSUME NEW b \in pages[u].blocks, PostBlockDelete(p, u, b)
        PROVE  Ground' /\ Lists' /\ (Galleried => Galleried')
    <2>2. PICK r : r = [NoEdit EXCEPT !.at = "pull", !.block = b]
      OBVIOUS
    <2>3. r \in EditRec /\ r.at = "pull" /\ r.blocks = {} /\ r.todo = {} /\ r.block = b /\ r.base = 0
      BY <1>0, <2>2, EntryValues DEF EditRec, PageRec
    <2>4. Admitted(p, u, r) /\ b.id # 0
      BY <1>5, <2>2 DEF PostBlockDelete
    <2> QED
      BY <2>3, <2>4, PostStep DEF KeyOnce, Writing
  <1> QED
    BY <1>1, <1>2, <1>3, <1>4, <1>5

\* A page changes, in the browser or with an answer.
LEMMA PageStep ==
  ASSUME Ground, Lists, NEW u \in Editors, NEW g \in PageRec, Paged(u, g), NEW e \in EntryIds, g.entry = e, e \in Created,
         UNCHANGED <<entries, born, content, lastSaved>>,
         edit' \in [EditThreads -> EditRec], \A q \in EditThreads : edit'[q] = edit[q] \/ edit'[q] = NoEdit,
         KeyOnce(g.blocks), g.revision <= revision[e],
         \A k, i \in 0 .. MaxIds : Has(g.blocks, k, i) => Somewhere(e, k, i),
         Live(e) /\ g.revision = revision[e] => Same(g.blocks, entries[e].blocks),
         Live(e) /\ pages[u].entry = e /\ Keys(pages[u].blocks) = Keys(entries[e].blocks)
            => Keys(g.blocks) = Keys(entries[e].blocks),
         pages[u].entry = e \/ Keys(g.blocks) = Keys(entries[e].blocks)
  PROVE  Ground' /\ Lists'
  <1>0. EntryTypes /\ KeysInv /\ IdsInv /\ OldIdInv /\ FreshInv /\ WantInv
    BY DEF Ground, Lists
  <1>3. UNCHANGED <<galleries, lastDrawn, revision, overlapped, wanted>>
    BY DEF content
  <1>4. pages'[u] = g /\ (\A v \in Editors : v # u => pages'[v] = pages[v]) /\ pages' \in [Editors -> PageRec]
    BY DEF Paged
  <1>5. Typed /\ lastDrawn \in 0 .. MaxIds /\ revision \in [EntryIds -> Nat \ {0}]
    BY <1>0, TypedNow, EntryTyped
  <1>6. Ground'
    <2>1. Typed'
      BY <1>3, <1>4, <1>5 DEF Typed
    <2>2. \A q \in EditThreads : Follows(q)
      BY DEF Follows
    <2>3. \A v \in Editors : pages'[v] = pages[v] \/ (pages'[v].entry \in EntryIds /\ pages'[v].entry \in Created)
      BY <1>4
    <2> QED
      BY <2>1, <2>2, <2>3, GroundKeeps
  <1>2. \A q \in EditThreads, d \in EntryIds : edit'[q].entry = d => edit'[q] = edit[q]
    BY EntryValues, EntriesAssumption
  <1>7. \A d \in EntryIds : \A k, i \in 0 .. MaxIds : Somewhere(d, k, i)' => Somewhere(d, k, i)
    <2> SUFFICES ASSUME NEW d \in EntryIds, NEW k \in 0 .. MaxIds, NEW i \in 0 .. MaxIds, Somewhere(d, k, i)'
                 PROVE  Somewhere(d, k, i)
      OBVIOUS
    <2>1. CASE Has(entries[d].blocks, k, i)
      BY <2>1 DEF Somewhere
    <2>2. ASSUME NEW v \in Editors, pages'[v].entry = d, Has(pages'[v].blocks, k, i)
          PROVE  Somewhere(d, k, i)
      <3>1. CASE v = u
        BY <1>4, <2>2, <3>1
      <3>2. CASE v # u
        BY <1>4, <2>2, <3>2 DEF Somewhere
      <3> QED
        BY <3>1, <3>2
    <2>3. ASSUME NEW q \in EditThreads, edit'[q].entry = d, Has(edit'[q].blocks, k, i) \/ Has({edit'[q].block}, k, i)
          PROVE  Somewhere(d, k, i)
      BY <1>2, <2>3 DEF Somewhere
    <2> QED
      BY <2>1, <2>2, <2>3 DEF Somewhere
  <1>8. KeysInv'
    <2>1. \A q \in EditThreads : KeyOnce(edit'[q].blocks) /\ edit'[q].todo \subseteq Pending(edit'[q].blocks)
      BY <1>0, EntryValues DEF KeysInv, KeyOnce
    <2>2. \A v \in Editors : KeyOnce(pages'[v].blocks)
      BY <1>0, <1>4 DEF KeysInv
    <2> QED
      BY <1>0, <2>1, <2>2 DEF KeysInv
  <1>9. IdsInv'
    BY <1>0, <1>3, <1>5, <1>7, IdsKeep
  <1>10. \A d \in EntryIds : Live(d)' <=> Live(d)
    BY <1>3 DEF Live
  <1>11. OldIdInv'
    BY <1>0, <1>7, <1>10, OldIdKeep
  <1>12. FreshInv'
    <2> SUFFICES ASSUME NEW d \in EntryIds
                 PROVE  /\ \A v \in Editors : pages'[v].entry = d => pages'[v].revision <= revision[d]
                        /\ \A q \in EditThreads : edit'[q].entry = d => edit'[q].base <= revision[d]
                        /\ Live(d) =>
                              /\ \A v \in Editors : FreshPage(v, d)' => Same(pages'[v].blocks, entries[d].blocks)
                              /\ \A q \in EditThreads : FreshEdit(q, d)' =>
                                    /\ Same(edit'[q].blocks, entries[d].blocks)
                                    /\ pages'[edit'[q].user].entry = d =>
                                          Keys(pages'[edit'[q].user].blocks) = Keys(entries[d].blocks)
      BY <1>3, <1>10 DEF FreshInv
    <2>1. \A v \in Editors : pages'[v].entry = d => pages'[v].revision <= revision[d]
      BY <1>0, <1>4 DEF FreshInv
    <2>2. \A q \in EditThreads : edit'[q].entry = d => edit'[q].base <= revision[d]
      BY <1>0, <1>2 DEF FreshInv
    <2>3. ASSUME Live(d), NEW v \in Editors, FreshPage(v, d)'
          PROVE  Same(pages'[v].blocks, entries[d].blocks)
      <3>1. CASE v = u
        BY <1>3, <1>4, <2>3, <3>1 DEF FreshPage
      <3>2. CASE v # u
        <4>1. FreshPage(v, d) /\ pages'[v] = pages[v]
          BY <1>3, <1>4, <2>3, <3>2 DEF FreshPage
        <4> QED
          BY <1>0, <2>3, <4>1 DEF FreshInv
      <3> QED
        BY <3>1, <3>2
    <2>4. ASSUME Live(d), NEW q \in EditThreads, FreshEdit(q, d)'
          PROVE  /\ Same(edit'[q].blocks, entries[d].blocks)
                 /\ pages'[edit'[q].user].entry = d => Keys(pages'[edit'[q].user].blocks) = Keys(entries[d].blocks)
      <3>1. FreshEdit(q, d) /\ edit'[q] = edit[q]
        BY <1>2, <1>3, <2>4 DEF FreshEdit
      <3>2. edit[q].user \in Editors
        BY <1>0, <3>1, EntryTyped DEF EntryTypes, FreshEdit
      <3>3. /\ Same(edit[q].blocks, entries[d].blocks)
            /\ pages[edit[q].user].entry = d => Keys(pages[edit[q].user].blocks) = Keys(entries[d].blocks)
        BY <1>0, <2>4, <3>1 DEF FreshInv
      <3>4. CASE edit[q].user # u
        BY <1>4, <3>1, <3>2, <3>3, <3>4
      <3>5. CASE edit[q].user = u
        <4> SUFFICES ASSUME d = e PROVE Keys(g.blocks) = Keys(entries[e].blocks)
          BY <1>4, <3>1, <3>3, <3>5
        <4> QED
          BY <2>4, <3>3, <3>5
      <3> QED
        BY <3>4, <3>5
    <2> QED
      BY <2>1, <2>2, <2>3, <2>4
  <1>13. WantInv'
    BY <1>0, <1>3, <1>10, EntryValues DEF WantInv, Created
  <1> QED
    BY <1>6, <1>8, <1>9, <1>11, <1>12, <1>13 DEF Lists

LEMMA PageShown ==
  ASSUME Ground, Galleried, NEW u \in Editors, NEW g, Paged(u, g), NEW e \in EntryIds, g.entry = e,
         UNCHANGED <<entries, content, edit>>,
         \A k \in 0 .. MaxIds, x \in 1 .. MaxIds : Shows(g.blocks, k, x) => GalleryAt(e, k, x)
  PROVE  Galleried'
  <1>1. UNCHANGED <<galleries, lastDrawn, revision, overlapped>>
    BY DEF content
  <1>2. \A v \in Editors :
          \/ pages'[v] = pages[v]
          \/ \A k \in 0 .. MaxIds, x \in 1 .. MaxIds : Shows(pages'[v].blocks, k, x) => GalleryAt(pages'[v].entry, k, x)
    BY DEF Paged
  <1>3. \A d \in EntryIds : Live(d)' => Live(d)
    BY <1>1 DEF Live
  <1> QED
    BY <1>1, <1>2, <1>3, QuietShown

LEMMA OpenStep ==
  ASSUME Ground, Lists, NEW u \in Editors, NEW e \in EntryIds, OpenEditor(u, e)
  PROVE  Ground' /\ Lists' /\ (Galleried => Galleried')
  <1>0. EntryTypes /\ BornInv /\ KeysInv
    BY DEF Ground, Lists
  <1>1. /\ entries \in [EntryIds -> EntryRec] /\ pages \in [Editors -> PageRec] /\ revision \in [EntryIds -> Nat \ {0}]
        /\ edit \in [EditThreads -> EditRec]
    BY <1>0, EntryTyped
  <1>2. PICK g : g = [entry |-> e, blocks |-> entries[e].blocks, revision |-> revision[e]]
    OBVIOUS
  <1>3. g \in PageRec /\ g.entry = e /\ g.blocks = entries[e].blocks /\ g.revision = revision[e]
    BY <1>1, <1>2 DEF PageRec, EntryRec
  <1>4. Paged(u, g) /\ UNCHANGED <<entries, born, content, lastSaved, edit>>
    BY <1>1, <1>2, <1>3 DEF OpenEditor, BlocksForEdit, Paged
  <1>5. e \in Created
    BY <1>0 DEF OpenEditor, BornInv
  <1>6. KeyOnce(g.blocks)
    BY <1>0, <1>3 DEF KeysInv
  <1>7. \A k, i \in 0 .. MaxIds : Has(g.blocks, k, i) => Somewhere(e, k, i)
    BY <1>3 DEF Somewhere
  <1>8. Same(g.blocks, entries[e].blocks) /\ Keys(g.blocks) = Keys(entries[e].blocks) /\ g.revision <= revision[e]
    BY <1>1, <1>3 DEF Same
  <1>9. \A k \in 0 .. MaxIds, x \in 1 .. MaxIds : Shows(g.blocks, k, x) => GalleryAt(e, k, x)
    BY <1>3 DEF GalleryAt
  <1>10. Galleried => Galleried'
    BY <1>1, <1>3, <1>4, <1>9, PageShown
  <1> QED
    BY <1>1, <1>3, <1>4, <1>5, <1>6, <1>7, <1>8, <1>10, PageStep

\* A block of a list is replaced by one of the same key and id.
LEMMA Replaced ==
  ASSUME NEW S \in SUBSET BlockDoc, KeyOnce(S), NEW b \in S, NEW c \in BlockDoc, c.key = b.key, c.id = b.id
  PROVE  LET T == (S \ {b}) \cup {c} IN T \in SUBSET BlockDoc /\ KeyOnce(T) /\ Same(S, T) /\ Keys(S) = Keys(T)
  <1> DEFINE T == (S \ {b}) \cup {c}
  <1>1. T \in SUBSET BlockDoc
    OBVIOUS
  <1>2. KeyOnce(T)
    BY DEF KeyOnce
  <1>3. Same(S, T)
    BY DEF Same, Has
  <1> QED
    BY <1>1, <1>2, <1>3, SameKeys

LEMMA ChooseStep ==
  ASSUME Ground, Lists, NEW u \in Editors, pages[u] # NoPage, NEW b \in pages[u].blocks, NEW n \in 0 .. MaxPics,
         ChoosePictures(u, b, n)
  PROVE  Ground' /\ Lists' /\ (Galleried => Galleried')
  <1>0. EntryTypes /\ BornInv /\ KeysInv /\ FreshInv
    BY DEF Ground, Lists
  <1>1. /\ entries \in [EntryIds -> EntryRec] /\ pages \in [Editors -> PageRec] /\ revision \in [EntryIds -> Nat \ {0}]
        /\ edit \in [EditThreads -> EditRec]
    BY <1>0, EntryTyped
  <1>2. PICK e \in EntryIds : e = pages[u].entry
    BY <1>0 DEF EntryTypes
  <1>3. b \in BlockDoc /\ KeyOnce(pages[u].blocks) /\ pages[u].blocks \in SUBSET BlockDoc
    BY <1>0, <1>1 DEF PageRec, KeysInv
  <1>4. PICK c : c = [b EXCEPT !.pics = n]
    OBVIOUS
  <1>5. c \in BlockDoc /\ c.key = b.key /\ c.id = b.id
    BY <1>3, <1>4 DEF BlockDoc
  <1>6. PICK T : T = (pages[u].blocks \ {b}) \cup {c}
    OBVIOUS
  <1>7. T \in SUBSET BlockDoc /\ KeyOnce(T) /\ Same(pages[u].blocks, T) /\ Keys(pages[u].blocks) = Keys(T)
    BY <1>3, <1>5, <1>6, Replaced
  <1>8. PICK g : g = [pages[u] EXCEPT !.blocks = T]
    OBVIOUS
  <1>9. g \in PageRec /\ g.entry = e /\ g.blocks = T /\ g.revision = pages[u].revision
    BY <1>1, <1>2, <1>7, <1>8 DEF PageRec
  <1>10. Paged(u, g) /\ UNCHANGED <<entries, born, content, lastSaved, edit>>
    <2>1. pages' = [pages EXCEPT ![u] = g]
      BY <1>1, <1>4, <1>6, <1>8 DEF ChoosePictures
    <2> QED
      BY <1>1, <1>9, <2>1 DEF ChoosePictures, Paged
  <1>11. e \in Created
    BY <1>0, <1>2 DEF BornInv
  <1>12. \A k, i \in 0 .. MaxIds : Has(T, k, i) => Somewhere(e, k, i)
    BY <1>2, <1>7 DEF Somewhere, Same
  <1>13. g.revision <= revision[e]
    BY <1>0, <1>2, <1>9 DEF FreshInv
  <1>14. Live(e) /\ g.revision = revision[e] => Same(g.blocks, entries[e].blocks)
    <2>1. Live(e) /\ g.revision = revision[e] => Same(pages[u].blocks, entries[e].blocks)
      BY <1>0, <1>2, <1>9 DEF FreshInv, FreshPage
    <2> QED
      BY <1>7, <1>9, <2>1 DEF Same
  <1>15. \A k \in 0 .. MaxIds, x \in 1 .. MaxIds : Shows(g.blocks, k, x) => GalleryAt(e, k, x)
    <2>1. c.gallery = b.gallery
      BY <1>3, <1>4 DEF BlockDoc
    <2>2. \A k \in 0 .. MaxIds, x \in 1 .. MaxIds : Shows(T, k, x) => Shows(pages[u].blocks, k, x)
      BY <1>5, <1>6, <2>1 DEF Shows
    <2> QED
      BY <1>2, <1>9, <2>2 DEF GalleryAt
  <1>16. Galleried => Galleried'
    BY <1>1, <1>9, <1>10, <1>15, PageShown
  <1> QED
    BY <1>1, <1>2, <1>7, <1>9, <1>10, <1>11, <1>12, <1>13, <1>14, <1>16, PageStep

LEMMA EditBase == ASSUME NEW r \in EditRec PROVE r.base \in Nat
  BY DEF EditRec

LEMMA NamedBlock ==
  ASSUME NEW b \in BlockDoc, NEW S \in SUBSET BlockDoc, KeyOnce(S)
  PROVE  LET n == Named(b, S) IN
         /\ n \in BlockDoc /\ n.key = b.key /\ n.kind = b.kind /\ n.pics = b.pics /\ n.gallery = b.gallery
         /\ b.id # 0 \/ b.key \notin Keys(S) => n = b
         /\ b.id = 0 /\ b.key \in Keys(S) => \E c \in S : c.key = b.key /\ c.id = n.id
  <1>1. CASE b.id = 0 /\ b.key \in Keys(S)
    <2>1. PICK c \in S : c.key = b.key
      BY <1>1 DEF Keys
    <2>2. PICK d : d = CHOOSE x \in S : x.key = b.key
      OBVIOUS
    <2>3. d \in S /\ d.key = b.key
      BY <2>1, <2>2
    <2>4. PICK n : n = [b EXCEPT !.id = d.id]
      OBVIOUS
    <2>5. n \in BlockDoc /\ n.key = b.key /\ n.kind = b.kind /\ n.pics = b.pics /\ n.gallery = b.gallery /\ n.id = d.id
      BY <2>3, <2>4 DEF BlockDoc
    <2>6. Named(b, S) = n
      BY <1>1, <2>2, <2>4 DEF Named
    <2> QED
      BY <1>1, <2>3, <2>5, <2>6
  <1>2. CASE ~(b.id = 0 /\ b.key \in Keys(S))
    BY <1>2 DEF Named
  <1> QED
    BY <1>1, <1>2

LEMMA NamedList ==
  ASSUME NEW P \in SUBSET BlockDoc, KeyOnce(P), NEW S \in SUBSET BlockDoc, KeyOnce(S),
         NEW T, T = {Named(b, S) : b \in P}
  PROVE  /\ T \in SUBSET BlockDoc /\ KeyOnce(T) /\ Keys(T) = Keys(P)
         /\ \A k, i \in 0 .. MaxIds : Has(T, k, i) => Has(P, k, i) \/ Has(S, k, i)
         /\ \A k, i \in 0 .. MaxIds : Has(T, k, i) /\ i = 0 /\ k \in Keys(S) => Has(S, k, i)
         /\ \A k, i \in 0 .. MaxIds : Has(T, k, i) /\ k \in Keys(S) /\ ~Has(S, k, i) => i # 0
  <1>1. \A b \in P :
          /\ Named(b, S) \in BlockDoc /\ Named(b, S).key = b.key
          /\ b.id # 0 \/ b.key \notin Keys(S) => Named(b, S) = b
          /\ b.id = 0 /\ b.key \in Keys(S) => \E c \in S : c.key = b.key /\ c.id = Named(b, S).id
    BY NamedBlock
  <1>2. T \in SUBSET BlockDoc /\ KeyOnce(T) /\ Keys(T) = Keys(P)
    BY <1>1 DEF KeyOnce, Keys
  <1>3. ASSUME NEW k \in 0 .. MaxIds, NEW i \in 0 .. MaxIds, Has(T, k, i)
        PROVE  /\ Has(P, k, i) \/ Has(S, k, i)
               /\ k \in Keys(S) => i # 0 \/ Has(S, k, i)
    <2>1. PICK t \in T : t.key = k /\ t.id = i
      BY <1>3 DEF Has
    <2>2. PICK b \in P : t = Named(b, S)
      BY <2>1
    <2>3. b.key = k
      BY <1>1, <2>1, <2>2
    <2>4. CASE b.id = 0 /\ k \in Keys(S)
      BY <1>1, <2>1, <2>2, <2>3, <2>4 DEF Has
    <2>5. CASE ~(b.id = 0 /\ k \in Keys(S))
      <3>1. t = b
        BY <1>1, <2>2, <2>3, <2>5
      <3> QED
        BY <2>1, <2>3, <2>5, <3>1 DEF Has
    <2> QED
      BY <2>4, <2>5
  <1> QED
    BY <1>2, <1>3

\* A request is over, all of its galleries written.
LEMMA AnswerShown ==
  ASSUME Ground, Galleried, NEW p \in EditThreads, NEW e \in EntryIds, edit[p].entry = e, edit[p].at = "galleries",
         edit[p].todo = {}, Turned(p, NoEdit), UNCHANGED <<entries, content>>,
         \A u \in Editors :
            \/ pages'[u] = pages[u]
            \/ \A k \in 0 .. MaxIds, x \in 1 .. MaxIds : Shows(pages'[u].blocks, k, x) => GalleryAt(pages'[u].entry, k, x)
  PROVE  Galleried'
  <1>0. GalleryInv /\ SyncInv
    BY DEF Galleried
  <1>1. UNCHANGED <<galleries, lastDrawn, revision, overlapped>>
    BY DEF content
  <1>2. edit'[p] = NoEdit /\ NoEdit.entry # e /\ \A q \in EditThreads : q # p => edit'[q] = edit[q]
    BY EntryValues, EntriesAssumption DEF Turned
  <1>3. GalleryInv'
    <2>1. lastDrawn \in 0 .. MaxIds /\ lastDrawn' \in 0 .. MaxIds /\ lastDrawn <= lastDrawn'
      BY <1>1, EntryTyped, EntriesAssumption DEF Ground
    <2>2. \A d \in EntryIds : \A k \in 0 .. MaxIds, g \in 1 .. MaxIds : Shows(entries'[d].blocks, k, g) => GalleryAt(d, k, g)
      BY DEF GalleryAt
    <2>3. \A u \in Editors, d \in EntryIds : pages'[u].entry = d =>
             \A k \in 0 .. MaxIds, g \in 1 .. MaxIds : Shows(pages'[u].blocks, k, g) => GalleryAt(d, k, g)
      BY DEF GalleryAt
    <2>4. \A q \in EditThreads, d \in EntryIds : edit'[q].entry = d =>
             \A k \in 0 .. MaxIds, g \in 1 .. MaxIds : Shows(edit'[q].blocks, k, g) => GalleryAt(d, k, g)
      BY <1>2, EntryValues DEF GalleryAt, Shows
    <2> QED
      BY <1>0, <1>1, <2>1, <2>2, <2>3, <2>4, GalleryKeep
  <1>4. \A b : InSync(b)' <=> InSync(b)
    BY <1>1 DEF InSync
  <1>5. \A d \in EntryIds : Live(d)' <=> Live(d)
    BY <1>1 DEF Live
  <1>6. ASSUME NEW d \in EntryIds, d # e PROVE SyncAt(d)'
    <2>1. SyncAt(d) /\ revision'[d] = revision[d]
      BY <1>0, <1>1 DEF SyncInv
    <2>2. \A q \in EditThreads :
            \/ edit'[q] = edit[q]
            \/ /\ ~(edit[q].entry = d /\ edit[q].at \in Writing)
               /\ ~(edit'[q].entry = d /\ edit'[q].at \in Writing)
      BY <1>2, <1>6, EntryValues, EntriesAssumption
    <2> QED
      BY <1>4, <1>5, <2>1, <2>2, SyncOther
  <1>7. SyncAt(e)'
    <2>0. SyncAt(e)
      BY <1>0 DEF SyncInv
    <2>1. \A q \in EditThreads : Writer(q, e)' => Writer(q, e) /\ q # p /\ edit'[q] = edit[q]
      BY <1>1, <1>2 DEF Writer
    <2>2. \A q \in EditThreads : Doom(q, e) => Doom(q, e)'
      BY <1>1, <1>2 DEF Doom
    <2>3. \A q \in EditThreads : q # p => (Writer(q, e) => Writer(q, e)')
      BY <1>1, <1>2 DEF Writer
    <2>4. ASSUME Live(e)', \A q \in EditThreads : ~Doom(q, e)'
          PROVE  /\ \A q \in EditThreads : Writer(q, e)' =>
                       /\ \A b \in edit'[q].blocks \ edit'[q].todo : InSync(b)'
                       /\ edit'[q].at = "galleries" => entries'[e].blocks = edit'[q].blocks
                 /\ (\A q \in EditThreads : ~Writer(q, e)') => \A b \in entries'[e].blocks : InSync(b)'
      <3>1. /\ \A q \in EditThreads : Writer(q, e) =>
                  /\ \A b \in edit[q].blocks \ edit[q].todo : InSync(b)
                  /\ edit[q].at = "galleries" => entries[e].blocks = edit[q].blocks
            /\ (\A q \in EditThreads : ~Writer(q, e)) => \A b \in entries[e].blocks : InSync(b)
        BY <1>5, <2>0, <2>2, <2>4 DEF SyncAt
      <3>2. ASSUME \A q \in EditThreads : ~Writer(q, e)' PROVE \A b \in entries[e].blocks : InSync(b)
        <4>1. CASE Writer(p, e)
          BY <3>1, <4>1
        <4>2. CASE ~Writer(p, e)
          BY <2>3, <3>1, <3>2, <4>2
        <4> QED
          BY <4>1, <4>2
      <3> QED
        BY <1>4, <2>1, <3>1, <3>2
    <2>5. \A q, r \in EditThreads : Writer(q, e)' /\ Writer(r, e)' => q = r
      BY <2>0, <2>1 DEF SyncAt
    <2> QED
      BY <2>4, <2>5 DEF SyncAt
  <1> QED
    BY <1>3, <1>6, <1>7 DEF Galleried, SyncInv

LEMMA AnswerStep ==
  ASSUME Ground, Lists, NEW p \in EditThreads, AnswerContent(p)
  PROVE  Ground' /\ Lists' /\ (Galleried => Galleried')
  <1>0. EntryTypes /\ BornInv /\ KeysInv /\ IdsInv /\ OldIdInv /\ FreshInv
    BY DEF Ground, Lists
  <1>1. /\ entries \in [EntryIds -> EntryRec] /\ pages \in [Editors -> PageRec] /\ revision \in [EntryIds -> Nat \ {0}]
        /\ edit \in [EditThreads -> EditRec] /\ edit[p] \in EditRec
    BY <1>0, EntryTyped
  <1>2. PICK e \in EntryIds, u \in Editors : e = edit[p].entry /\ u = edit[p].user
    BY <1>0 DEF AnswerContent, EntryTypes
  <1>3. Turned(p, NoEdit) /\ UNCHANGED <<entries, born, content, lastSaved>>
    BY <1>0, DoneTurns DEF AnswerContent
  <1>4. edit' \in [EditThreads -> EditRec] /\ \A q \in EditThreads : edit'[q] = edit[q] \/ edit'[q] = NoEdit
    BY <1>3 DEF Turned
  <1>5. ASSUME pages[u].entry # e PROVE Ground' /\ Lists'
    <2>1. pages' = pages
      BY <1>2, <1>5 DEF AnswerContent
    <2>2. UNCHANGED <<galleries, lastDrawn, revision, overlapped, wanted>>
      BY <1>3 DEF content
    <2>3. Lists'
      BY <1>3, <1>4, <2>1, <2>2, QuietLists
    <2>4. Typed'
      BY <1>0, <1>3, <1>4, <2>1, <2>2, TypedNow DEF Typed
    <2>5. \A q \in EditThreads : Follows(q)
      BY <1>4 DEF Follows
    <2> QED
      BY <1>3, <2>1, <2>3, <2>4, <2>5, GroundKeeps
  <1>6. ASSUME pages[u].entry = e PROVE Ground' /\ Lists'
    <2>1. PICK S : S = edit[p].blocks
      OBVIOUS
    <2>2. PICK P : P = pages[u].blocks
      OBVIOUS
    <2>3. PICK E : E = entries[e].blocks
      OBVIOUS
    <2>4. S \in SUBSET BlockDoc /\ KeyOnce(S) /\ P \in SUBSET BlockDoc /\ KeyOnce(P) /\ E \in SUBSET BlockDoc /\ KeyOnce(E)
      BY <1>0, <1>1, <2>1, <2>2, <2>3 DEF EditRec, PageRec, EntryRec, KeysInv
    <2>5. PICK T : T = {Named(b, S) : b \in P}
      OBVIOUS
    <2>6. /\ T \in SUBSET BlockDoc /\ KeyOnce(T) /\ Keys(T) = Keys(P)
          /\ \A k, i \in 0 .. MaxIds : Has(T, k, i) => Has(P, k, i) \/ Has(S, k, i)
          /\ \A k, i \in 0 .. MaxIds : Has(T, k, i) /\ k \in Keys(S) /\ ~Has(S, k, i) => i # 0
      BY <2>4, <2>5, NamedList
    <2>7. PICK g : g = [pages[u] EXCEPT !.blocks = T, !.revision = edit[p].base]
      OBVIOUS
    <2>8. g \in PageRec /\ g.entry = e /\ g.blocks = T /\ g.revision = edit[p].base
      BY <1>1, <1>6, <2>6, <2>7, EditBase DEF PageRec
    <2>9. pages' = [pages EXCEPT ![u] = g]
      BY <1>1, <1>2, <1>6, <2>1, <2>2, <2>5, <2>7 DEF AnswerContent
    <2>10. Paged(u, g)
      BY <1>1, <2>8, <2>9 DEF Paged
    <2>11. e \in Created /\ g.revision <= revision[e]
      BY <1>0, <1>2, <2>8, EntryTyped DEF BornInv, FreshInv
    <2>12. \A k, i \in 0 .. MaxIds : Has(T, k, i) => Somewhere(e, k, i)
      BY <1>2, <1>6, <2>1, <2>2, <2>6 DEF Somewhere
    <2>13. ASSUME Live(e), g.revision = revision[e]
           PROVE  Same(T, E)
      <3>1. FreshEdit(p, e)
        BY <1>2, <2>8, <2>13 DEF FreshEdit, AnswerContent, Saving
      <3>2. Same(S, E) /\ Keys(P) = Keys(E)
        BY <1>0, <1>2, <1>6, <2>1, <2>2, <2>3, <2>13, <3>1 DEF FreshInv
      <3>3. Keys(S) = Keys(E)
        BY <2>4, <3>2, SameKeys
      <3>4. ASSUME NEW k \in 0 .. MaxIds, NEW i \in 0 .. MaxIds, Has(T, k, i)
            PROVE  Has(E, k, i)
        <4>1. k \in Keys(T)
          BY <3>4 DEF Has, Keys
        <4>2. PICK c \in E : c.key = k
          BY <2>6, <3>2, <4>1 DEF Keys
        <4>3. c.id \in 0 .. MaxIds /\ Has(E, k, c.id) /\ Somewhere(e, k, c.id)
          BY <2>3, <2>4, <4>2 DEF Has, BlockDoc, Somewhere
        <4>4. Somewhere(e, k, i)
          BY <2>12, <3>4
        <4>5. CASE k # 0
          <5>1. i = k /\ c.id = k
            BY <1>0, <4>3, <4>4, <4>5 DEF IdsInv
          <5> QED
            BY <4>3, <5>1
        <4>6. CASE k = 0 /\ ~Has(S, k, i)
          <5>1. i # 0
            BY <2>6, <2>6, <3>2, <3>3, <3>4, <4>1, <4>6
          <5>2. c.id = i
            BY <1>0, <2>3, <2>13, <4>3, <4>4, <4>6, <5>1 DEF OldIdInv
          <5> QED
            BY <4>3, <5>2
        <4>7. CASE Has(S, k, i)
          BY <3>2, <4>7 DEF Same
        <4> QED
          BY <4>5, <4>6, <4>7
      <3>5. ASSUME NEW k \in 0 .. MaxIds, NEW i \in 0 .. MaxIds, Has(E, k, i)
            PROVE  Has(T, k, i)
        <4>1. k \in Keys(T)
          BY <2>6, <3>2, <3>5 DEF Has, Keys
        <4>2. PICK t \in T : t.key = k
          BY <4>1 DEF Keys
        <4>3. t.id \in 0 .. MaxIds /\ Has(T, k, t.id)
          BY <2>6, <4>2 DEF BlockDoc, Has
        <4>4. Has(E, k, t.id)
          BY <3>4, <4>3
        <4>5. t.id = i
          BY <2>4, <3>5, <4>4 DEF Has, KeyOnce
        <4> QED
          BY <4>3, <4>5
      <3> QED
        BY <3>4, <3>5 DEF Same
    <2>14. Keys(P) = Keys(E) => Keys(T) = Keys(E)
      BY <2>6
    <2> QED
      BY <1>3, <1>4, <1>6, <2>2, <2>3, <2>6, <2>8, <2>10, <2>11, <2>12, <2>13, <2>14, PageStep
  <1>7. ASSUME Galleried PROVE Galleried'
    <2>1. edit[p].at = "galleries" /\ edit[p].todo = {}
      BY DEF AnswerContent
    <2>2. \A v \in Editors :
            \/ pages'[v] = pages[v]
            \/ \A k \in 0 .. MaxIds, x \in 1 .. MaxIds : Shows(pages'[v].blocks, k, x) => GalleryAt(pages'[v].entry, k, x)
      <3>1. CASE pages[u].entry # e
        BY <1>2, <3>1 DEF AnswerContent
      <3>2. CASE pages[u].entry = e
        <4>1. PICK S, P, T : S = edit[p].blocks /\ P = pages[u].blocks /\ T = {Named(b, S) : b \in P}
          OBVIOUS
        <4>2. S \in SUBSET BlockDoc /\ KeyOnce(S) /\ P \in SUBSET BlockDoc
          BY <1>0, <1>1, <4>1 DEF EditRec, PageRec, KeysInv
        <4>3. \A b \in P : Named(b, S).key = b.key /\ Named(b, S).gallery = b.gallery
          BY <4>2, NamedBlock
        <4>4. \A k \in 0 .. MaxIds, x \in 1 .. MaxIds : Shows(T, k, x) => Shows(P, k, x)
          BY <4>1, <4>3 DEF Shows
        <4>5. PICK g : g = [pages[u] EXCEPT !.blocks = T, !.revision = edit[p].base]
          OBVIOUS
        <4>6. g.entry = e /\ g.blocks = T
          BY <1>1, <3>2, <4>5 DEF PageRec
        <4>7. pages' = [pages EXCEPT ![u] = g]
          BY <1>1, <1>2, <3>2, <4>1, <4>5 DEF AnswerContent
        <4>8. \A v \in Editors : pages'[v] = pages[v] \/ (v = u /\ pages'[v] = g)
          BY <1>1, <4>7
        <4>9. \A k \in 0 .. MaxIds, x \in 1 .. MaxIds : Shows(T, k, x) => GalleryAt(e, k, x)
          BY <3>2, <4>1, <4>4 DEF GalleryAt
        <4> QED
          BY <4>6, <4>8, <4>9
      <3> QED
        BY <3>1, <3>2
    <2> QED
      BY <1>2, <1>3, <1>7, <2>1, <2>2, AnswerShown
  <1> QED
    BY <1>5, <1>6, <1>7

\* cms_upsert_media_gallery().
SavedOne(p, e, b, c, n) ==
    /\ e \in EntryIds /\ edit[p].entry = e /\ edit[p].at = "galleries" /\ edit[p].user \in Editors
    /\ b \in edit[p].todo /\ b \in edit[p].blocks /\ b.kind = "gallery" /\ b.pics \in 1 .. MaxPics
    /\ n = c.gallery /\ n \in 1 .. MaxIds /\ n = (IF b.gallery = 0 THEN lastDrawn + 1 ELSE b.gallery)
    /\ c \in BlockDoc /\ c.key = b.key /\ c.id = b.id /\ c.kind = b.kind /\ c.pics = b.pics
    /\ lastDrawn' = IF b.gallery = 0 THEN lastDrawn + 1 ELSE lastDrawn
    /\ galleries' = GalleriesWith(n, IF b.gallery = 0 THEN e ELSE galleries[n].entry, b.pics)
    /\ Turned(p, edit'[p]) /\ edit'[p] \in EditRec
    /\ edit'[p].at = "rewrite" /\ edit'[p].entry = e /\ edit'[p].user = edit[p].user /\ edit'[p].base = edit[p].base
    /\ edit'[p].block = edit[p].block
    /\ edit'[p].todo = edit[p].todo \ {b} /\ edit'[p].blocks = (edit[p].blocks \ {b}) \cup {c}
    /\ UNCHANGED <<entries, born, pages, revision, overlapped, wanted, lastSaved>>

LEMMA SaveGalleryDoes ==
  ASSUME Ground, Lists, NEW p \in EditThreads, SaveGallery(p)
  PROVE  \E e, b, c, n : SavedOne(p, e, b, c, n)
  <1>0. EntryTypes /\ KeysInv
    BY DEF Ground, Lists
  <1>1. /\ edit \in [EditThreads -> EditRec] /\ edit[p] \in EditRec /\ lastDrawn \in 0 .. MaxIds
        /\ MaxIds \in Nat /\ MaxPics \in Nat
    BY <1>0, EntryTyped, EntriesAssumption
  <1>2. PICK e \in EntryIds : e = edit[p].entry /\ edit[p].at = "galleries" /\ edit[p].user \in Editors
    BY <1>0 DEF SaveGallery, EntryTypes
  <1>3. PICK b \in edit[p].todo :
           LET new == b.gallery = 0
               g == IF new THEN lastDrawn + 1 ELSE b.gallery
           IN  /\ g <= MaxIds
               /\ lastDrawn' = IF new THEN g ELSE lastDrawn
               /\ galleries' = GalleriesWith(g, IF new THEN edit[p].entry ELSE galleries[g].entry, b.pics)
               /\ edit' = [edit EXCEPT ![p] = [@ EXCEPT !.at = "rewrite", !.todo = edit[p].todo \ {b},
                                                        !.blocks = (edit[p].blocks \ {b}) \cup {[b EXCEPT !.gallery = g]}]]
    BY DEF SaveGallery
  <1>4. b \in edit[p].blocks /\ b \in BlockDoc /\ b.kind = "gallery" /\ b.pics > 0
    BY <1>0, <1>1 DEF KeysInv, Pending, EditRec
  <1>5. b.pics \in 1 .. MaxPics /\ b.gallery \in 0 .. MaxIds
    BY <1>1, <1>4 DEF BlockDoc
  <1>6. PICK n : n = IF b.gallery = 0 THEN lastDrawn + 1 ELSE b.gallery
    OBVIOUS
  <1>7. n \in 1 .. MaxIds
    BY <1>1, <1>3, <1>5, <1>6
  <1>8. PICK c : c = [b EXCEPT !.gallery = n]
    OBVIOUS
  <1>9. c \in BlockDoc /\ c.key = b.key /\ c.id = b.id /\ c.kind = b.kind /\ c.pics = b.pics /\ c.gallery = n
    BY <1>4, <1>7, <1>8 DEF BlockDoc
  <1>10. PICK T : T = (edit[p].blocks \ {b}) \cup {c}
    OBVIOUS
  <1>11. PICK D : D = edit[p].todo \ {b}
    OBVIOUS
  <1>12. T \in SUBSET BlockDoc /\ D \in SUBSET BlockDoc
    BY <1>1, <1>9, <1>10, <1>11 DEF EditRec
  <1>13. PICK r : r = [edit[p] EXCEPT !.at = "rewrite", !.todo = D, !.blocks = T]
    OBVIOUS
  <1>14. /\ r \in EditRec /\ r.at = "rewrite" /\ r.entry = edit[p].entry /\ r.user = edit[p].user /\ r.base = edit[p].base
         /\ r.block = edit[p].block /\ r.todo = D /\ r.blocks = T
    BY <1>1, <1>12, <1>13 DEF EditRec
  <1>15. edit' = [edit EXCEPT ![p] = r]
    BY <1>3, <1>6, <1>8, <1>10, <1>11, <1>13
  <1>16. Turned(p, r) /\ edit'[p] = r
    BY <1>1, <1>14, <1>15 DEF Turned
  <1>17. /\ lastDrawn' = IF b.gallery = 0 THEN lastDrawn + 1 ELSE lastDrawn
         /\ galleries' = GalleriesWith(n, IF b.gallery = 0 THEN e ELSE galleries[n].entry, b.pics)
    BY <1>2, <1>3, <1>6
  <1>18. UNCHANGED <<entries, born, pages, revision, overlapped, wanted, lastSaved>>
    BY DEF SaveGallery
  <1>19. SavedOne(p, e, b, c, n)
    BY <1>2, <1>4, <1>5, <1>6, <1>7, <1>9, <1>10, <1>11, <1>14, <1>16, <1>17, <1>18 DEF SavedOne
  <1> QED
    BY <1>19

LEMMA SaveGalleryShown ==
  ASSUME Ground, Lists, Galleried, NEW p \in EditThreads, NEW e, NEW b, NEW c, NEW n, SavedOne(p, e, b, c, n)
  PROVE  Galleried'
  <1>0. EntryTypes /\ KeysInv /\ GalleryInv /\ SyncInv /\ edit \in [EditThreads -> EditRec] /\ lastDrawn \in 0 .. MaxIds
        /\ MaxIds \in Nat /\ MaxPics \in Nat /\ entries \in [EntryIds -> EntryRec]
    BY EntryTyped, EntriesAssumption DEF Ground, Lists, Galleried
  <1>1. /\ e \in EntryIds /\ edit[p].entry = e /\ edit[p].at = "galleries"
        /\ b \in edit[p].todo /\ b \in edit[p].blocks /\ b.kind = "gallery" /\ b.pics \in 1 .. MaxPics
        /\ n = c.gallery /\ n \in 1 .. MaxIds /\ n = (IF b.gallery = 0 THEN lastDrawn + 1 ELSE b.gallery)
        /\ c \in BlockDoc /\ c.key = b.key /\ c.kind = b.kind /\ c.pics = b.pics
        /\ lastDrawn' = IF b.gallery = 0 THEN lastDrawn + 1 ELSE lastDrawn
        /\ galleries' = GalleriesWith(n, IF b.gallery = 0 THEN e ELSE galleries[n].entry, b.pics)
        /\ UNCHANGED <<entries, pages, revision, overlapped>>
    BY DEF SavedOne
  <1>2. /\ edit'[p].at = "rewrite" /\ edit'[p].entry = e /\ edit'[p].base = edit[p].base
        /\ edit'[p].todo = edit[p].todo \ {b} /\ edit'[p].blocks = (edit[p].blocks \ {b}) \cup {c}
        /\ \A q \in EditThreads : q # p => edit'[q] = edit[q]
    BY DEF SavedOne, Turned
  <1>3. b \in BlockDoc /\ b.key \in 0 .. MaxIds /\ b.gallery \in 0 .. MaxIds
    BY <1>0, <1>1 DEF EditRec, BlockDoc
  <1>4. GalleryAt(e, b.key, b.gallery)
    BY <1>1 DEF GalleryAt, Shows
  <1>5. \/ b.gallery = 0 /\ n = lastDrawn + 1 /\ n \notin DOMAIN galleries
        \/ b.gallery = n /\ n \in DOMAIN galleries /\ galleries[n].entry = e
    <2>1. CASE b.gallery = 0
      <3>1. DOMAIN galleries \subseteq 1 .. lastDrawn
        BY <1>0 DEF GalleryInv
      <3> QED
        BY <1>0, <1>1, <2>1, <3>1
    <2>2. CASE b.gallery # 0
      BY <1>0, <1>1, <1>3, <1>4, <2>2 DEF GalleryInv
    <2> QED
      BY <2>1, <2>2
  <1>6. /\ DOMAIN galleries' = DOMAIN galleries \cup {n}
        /\ galleries'[n] = [entry |-> e, pics |-> b.pics]
        /\ \A h \in DOMAIN galleries : h # n => galleries'[h] = galleries[h]
        /\ galleries' = [h \in DOMAIN galleries \cup {n} |-> IF h = n THEN [entry |-> e, pics |-> b.pics] ELSE galleries[h]]
    <2>1. PICK x : x = IF b.gallery = 0 THEN e ELSE galleries[n].entry
      OBVIOUS
    <2>2. x = e
      BY <1>1, <1>5, <2>1
    <2>3. galleries' = [h \in DOMAIN galleries \cup {n} |-> IF h = n THEN [entry |-> e, pics |-> b.pics] ELSE galleries[h]]
      BY <1>1, <2>1, <2>2 DEF GalleriesWith
    <2> QED
      BY <2>3
  \* no other block has that gallery
  <1>7. ASSUME NEW d \in EntryIds, NEW k \in 0 .. MaxIds, GalleryAt(d, k, n)
        PROVE  d = e /\ k = b.key /\ b.gallery = n
    <2>1. n \in DOMAIN galleries /\ galleries[n].entry = d /\ \A l \in 0 .. MaxIds : GalleryAt(d, l, n) => l = k
      BY <1>0, <1>1, <1>7 DEF GalleryInv
    <2>2. b.gallery = n /\ d = e
      BY <1>5, <2>1
    <2> QED
      BY <1>3, <1>4, <2>1, <2>2
  <1>8. ASSUME NEW d \in EntryIds, NEW k \in 0 .. MaxIds, NEW g \in 1 .. MaxIds, GalleryAt(d, k, g)'
        PROVE  GalleryAt(d, k, g) \/ (d = e /\ k = b.key /\ g = n)
    <2>1. CASE Shows(entries'[d].blocks, k, g)
      BY <1>1, <2>1 DEF GalleryAt
    <2>2. CASE \E u \in Editors : pages'[u].entry = d /\ Shows(pages'[u].blocks, k, g)
      BY <1>1, <2>2 DEF GalleryAt
    <2>3. ASSUME NEW q \in EditThreads, edit'[q].entry = d, Shows(edit'[q].blocks, k, g)
          PROVE  GalleryAt(d, k, g) \/ (d = e /\ k = b.key /\ g = n)
      <3>1. CASE q # p
        BY <1>2, <2>3, <3>1 DEF GalleryAt
      <3>2. CASE q = p
        <4>1. d = e /\ (Shows(edit[p].blocks, k, g) \/ (k = c.key /\ g = c.gallery))
          BY <1>2, <2>3, <3>2 DEF Shows
        <4> QED
          BY <1>1, <4>1 DEF GalleryAt
      <3> QED
        BY <3>1, <3>2
    <2> QED
      BY <1>8, <2>1, <2>2, <2>3 DEF GalleryAt
  <1>9. GalleryInv'
    <2>1. galleries' \in [DOMAIN galleries' -> [entry : EntryIds, pics : 1 .. MaxPics]]
      <3>1. galleries \in [DOMAIN galleries -> [entry : EntryIds, pics : 1 .. MaxPics]]
        BY <1>0 DEF GalleryInv
      <3>2. [entry |-> e, pics |-> b.pics] \in [entry : EntryIds, pics : 1 .. MaxPics]
        BY <1>1
      <3> QED
        BY <1>6, <3>1, <3>2
    <2>2. DOMAIN galleries' \subseteq 1 .. lastDrawn'
      <3>1. DOMAIN galleries \subseteq 1 .. lastDrawn
        BY <1>0 DEF GalleryInv
      <3>2. n \in 1 .. lastDrawn' /\ lastDrawn <= lastDrawn' /\ lastDrawn' \in Nat
        BY <1>0, <1>1, <1>5, <3>1
      <3> QED
        BY <1>0, <1>6, <3>1, <3>2
    <2>3. ASSUME NEW d \in EntryIds, NEW k \in 0 .. MaxIds, NEW g \in 1 .. MaxIds, GalleryAt(d, k, g)'
          PROVE  /\ g \in DOMAIN galleries' /\ galleries'[g].entry = d
                 /\ \A l \in 0 .. MaxIds : GalleryAt(d, l, g)' => l = k
      <3>1. CASE g = n
        <4>1. d = e /\ k = b.key
          BY <1>7, <1>8, <2>3, <3>1
        <4>2. \A l \in 0 .. MaxIds : GalleryAt(d, l, g)' => l = b.key
          BY <1>7, <1>8, <3>1
        <4> QED
          BY <1>6, <3>1, <4>1, <4>2
      <3>2. CASE g # n
        <4>1. GalleryAt(d, k, g) /\ \A l \in 0 .. MaxIds : GalleryAt(d, l, g)' => GalleryAt(d, l, g)
          BY <1>8, <2>3, <3>2
        <4>2. g \in DOMAIN galleries /\ galleries[g].entry = d /\ \A l \in 0 .. MaxIds : GalleryAt(d, l, g) => l = k
          BY <1>0, <4>1 DEF GalleryInv
        <4> QED
          BY <1>6, <3>2, <4>1, <4>2
      <3> QED
        BY <3>1, <3>2
    <2> QED
      BY <2>1, <2>2, <2>3 DEF GalleryInv
  \* the others keep their pictures
  <1>10. ASSUME NEW d \in EntryIds, NEW x \in BlockDoc, GalleryAt(d, x.key, x.gallery), InSync(x),
                d # e \/ x.key # b.key
         PROVE  InSync(x)'
    <2>1. CASE x.gallery = 0
      BY <2>1 DEF InSync
    <2>2. CASE x.gallery # 0
      <3>1. x.gallery \in 1 .. MaxIds /\ x.key \in 0 .. MaxIds
        BY <2>2, <1>0 DEF BlockDoc
      <3>2. x.gallery # n
        BY <1>7, <1>10, <3>1
      <3>3. x.gallery \in DOMAIN galleries
        BY <1>0, <1>10, <3>1 DEF GalleryInv
      <3>4. galleries'[x.gallery] = galleries[x.gallery]
        BY <1>6, <3>2, <3>3
      <3> QED
        BY <1>10, <3>4 DEF InSync
    <2> QED
      BY <2>1, <2>2
  <1>11. ASSUME NEW d \in EntryIds, d # e PROVE SyncAt(d)'
    <2>1. SyncAt(d) /\ revision'[d] = revision[d] /\ (Live(d)' => Live(d) /\ entries'[d].blocks = entries[d].blocks)
      BY <1>0, <1>1 DEF SyncInv, Live
    <2>2. \A x \in entries[d].blocks : x \in BlockDoc /\ GalleryAt(d, x.key, x.gallery)
      BY <1>0 DEF EntryRec, GalleryAt, Shows
    <2>3. \A q \in EditThreads : edit[q].entry = d => \A x \in edit[q].blocks : x \in BlockDoc /\ GalleryAt(d, x.key, x.gallery)
      BY <1>0 DEF EditRec, GalleryAt, Shows
    <2>4. \A x \in entries[d].blocks : InSync(x) => InSync(x)'
      BY <1>10, <1>11, <2>2
    <2>5. \A q \in EditThreads : edit[q].entry = d => \A x \in edit[q].blocks : InSync(x) => InSync(x)'
      BY <1>10, <1>11, <2>3
    <2>6. \A q \in EditThreads :
            \/ edit'[q] = edit[q]
            \/ /\ ~(edit[q].entry = d /\ edit[q].at \in Writing)
               /\ ~(edit'[q].entry = d /\ edit'[q].at \in Writing)
      BY <1>1, <1>2, <1>11
    <2> QED
      BY <2>1, <2>4, <2>5, <2>6, SyncOther
  <1>12. SyncAt(e)'
    <2>0. SyncAt(e)
      BY <1>0, <1>1 DEF SyncInv
    <2>1. \A q \in EditThreads : Writer(q, e)' <=> Writer(q, e)
      BY <1>1, <1>2 DEF Writer, Writing
    <2>2. \A q \in EditThreads : Doom(q, e) => Doom(q, e)'
      BY <1>1, <1>2 DEF Doom, Writing
    <2>3. Writer(p, e) \/ Doom(p, e)'
      BY <1>1, <1>2 DEF Writer, Doom, Writing
    <2>4. ASSUME Live(e)', \A q \in EditThreads : ~Doom(q, e)'
          PROVE  /\ \A q \in EditThreads : Writer(q, e)' =>
                       /\ \A x \in edit'[q].blocks \ edit'[q].todo : InSync(x)'
                       /\ edit'[q].at = "galleries" => entries'[e].blocks = edit'[q].blocks
                 /\ (\A q \in EditThreads : ~Writer(q, e)') => \A x \in entries'[e].blocks : InSync(x)'
      <3>1. Writer(p, e) /\ Writer(p, e)' /\ \A q \in EditThreads : Writer(q, e)' => q = p
        BY <2>0, <2>1, <2>3, <2>4 DEF SyncAt
      <3>2. Live(e)
        BY <1>1, <2>4 DEF Live
      <3>3. \A x \in edit[p].blocks \ edit[p].todo : InSync(x)
        BY <2>0, <2>2, <2>4, <3>1, <3>2 DEF SyncAt
      <3>4. ASSUME NEW x \in edit'[p].blocks, x \notin edit'[p].todo PROVE InSync(x)'
        <4>1. CASE x = c
          <5>1. galleries'[c.gallery].pics = c.pics
            BY <1>1, <1>6
          <5> QED
            BY <4>1, <5>1 DEF InSync
        <4>2. CASE x \in edit[p].blocks /\ x # b
          <5>1. InSync(x) /\ x \in BlockDoc /\ GalleryAt(e, x.key, x.gallery)
            BY <1>0, <1>1, <1>2, <3>3, <3>4, <4>2 DEF EditRec, GalleryAt, Shows
          <5>2. x.key # b.key
            BY <1>0, <1>1, <4>2 DEF KeysInv, KeyOnce
          <5> QED
            BY <1>1, <1>10, <5>1, <5>2
        <4> QED
          BY <1>2, <3>4, <4>1, <4>2
      <3> QED
        BY <1>2, <3>1, <3>4
    <2>5. \A q, r \in EditThreads : Writer(q, e)' /\ Writer(r, e)' => q = r
      BY <2>0, <2>1 DEF SyncAt
    <2> QED
      BY <2>4, <2>5 DEF SyncAt
  <1> QED
    BY <1>9, <1>11, <1>12 DEF Galleried, SyncInv

LEMMA SaveGalleryStep ==
  ASSUME Ground, Lists, NEW p \in EditThreads, SaveGallery(p)
  PROVE  Ground' /\ Lists' /\ (Galleried => Galleried')
  <1>0. EntryTypes /\ KeysInv /\ IdsInv /\ OldIdInv /\ FreshInv /\ WantInv
    BY DEF Ground, Lists
  <1>1. PICK e, b, c, n : SavedOne(p, e, b, c, n)
    BY SaveGalleryDoes
  <1>2. PICK r : r = edit'[p]
    OBVIOUS
  <1>3. /\ r \in EditRec /\ r.at = "rewrite" /\ r.entry = e /\ r.user = edit[p].user /\ r.base = edit[p].base
        /\ r.block = edit[p].block /\ r.todo = edit[p].todo \ {b} /\ r.blocks = (edit[p].blocks \ {b}) \cup {c}
        /\ edit'[p] = r /\ (\A q \in EditThreads : q # p => edit'[q] = edit[q]) /\ edit' \in [EditThreads -> EditRec]
        /\ e \in EntryIds /\ edit[p].entry = e /\ edit[p].at = "galleries" /\ edit[p].user \in Editors
    BY <1>1, <1>2 DEF SavedOne, Turned
  <1>4. UNCHANGED <<entries, born, pages, revision, overlapped, wanted, lastSaved>>
    BY <1>1 DEF SavedOne
  <1>5. Typed /\ lastDrawn \in 0 .. MaxIds /\ revision \in [EntryIds -> Nat \ {0}] /\ edit[p] \in EditRec /\ MaxIds \in Nat
    BY <1>0, TypedNow, EntryTyped, EntriesAssumption
  <1>6. lastDrawn' \in 0 .. MaxIds /\ lastDrawn <= lastDrawn'
    BY <1>1, <1>5 DEF SavedOne
  <1>7. r.blocks \in SUBSET BlockDoc /\ KeyOnce(r.blocks) /\ Same(edit[p].blocks, r.blocks)
    <2>1. edit[p].blocks \in SUBSET BlockDoc /\ KeyOnce(edit[p].blocks)
      BY <1>0, <1>5 DEF EditRec, KeysInv
    <2>2. b \in edit[p].blocks /\ c \in BlockDoc /\ c.key = b.key /\ c.id = b.id
      BY <1>1 DEF SavedOne
    <2> QED
      BY <1>3, <2>1, <2>2, Replaced
  <1>8. r.todo \subseteq Pending(r.blocks)
    BY <1>0, <1>3 DEF KeysInv, Pending
  <1>9. Ground'
    <2>1. Typed'
      BY <1>3, <1>4, <1>5, <1>6 DEF Typed
    <2>2. \A q \in EditThreads : Follows(q)
      BY <1>3 DEF Follows
    <2> QED
      BY <1>4, <2>1, <2>2, GroundKeeps
  <1>10. \A d \in EntryIds : \A k, i \in 0 .. MaxIds : Somewhere(d, k, i)' => Somewhere(d, k, i)
    <2> SUFFICES ASSUME NEW d \in EntryIds, NEW k \in 0 .. MaxIds, NEW i \in 0 .. MaxIds, Somewhere(d, k, i)'
                 PROVE  Somewhere(d, k, i)
      OBVIOUS
    <2>1. CASE Has(entries[d].blocks, k, i) \/ \E v \in Editors : pages[v].entry = d /\ Has(pages[v].blocks, k, i)
      BY <2>1 DEF Somewhere
    <2>2. ASSUME NEW q \in EditThreads, edit'[q].entry = d, Has(edit'[q].blocks, k, i) \/ Has({edit'[q].block}, k, i)
          PROVE  Somewhere(d, k, i)
      <3>1. edit[q].entry = d /\ (Has(edit[q].blocks, k, i) \/ Has({edit[q].block}, k, i))
        BY <1>3, <1>7, <2>2 DEF Same
      <3> QED
        BY <3>1 DEF Somewhere
    <2> QED
      BY <1>4, <2>1, <2>2 DEF Somewhere
  <1>11. KeysInv'
    BY <1>0, <1>3, <1>4, <1>7, <1>8 DEF KeysInv
  <1>12. IdsInv'
    BY <1>0, <1>5, <1>6, <1>10, IdsKeep
  <1>13. \A d \in EntryIds : Live(d)' <=> Live(d)
    BY <1>4 DEF Live
  <1>14. OldIdInv'
    BY <1>0, <1>4, <1>10, <1>13, OldIdKeep
  <1>15. FreshInv'
    <2> SUFFICES ASSUME NEW d \in EntryIds
                 PROVE  /\ \A v \in Editors : pages[v].entry = d => pages[v].revision <= revision[d]
                        /\ \A q \in EditThreads : edit'[q].entry = d => edit'[q].base <= revision[d]
                        /\ Live(d) =>
                              /\ \A v \in Editors : FreshPage(v, d) => Same(pages[v].blocks, entries[d].blocks)
                              /\ \A q \in EditThreads : FreshEdit(q, d)' =>
                                    /\ Same(edit'[q].blocks, entries[d].blocks)
                                    /\ pages[edit'[q].user].entry = d =>
                                          Keys(pages[edit'[q].user].blocks) = Keys(entries[d].blocks)
      BY <1>4, <1>13 DEF FreshInv, FreshPage
    <2>1. \A q \in EditThreads : edit'[q].entry = edit[q].entry /\ edit'[q].base = edit[q].base /\ edit'[q].user = edit[q].user
      BY <1>3
    <2>2. \A q \in EditThreads : FreshEdit(q, d)' => FreshEdit(q, d)
      BY <1>3, <1>4 DEF FreshEdit, Saving
    <2>3. \A q \in EditThreads : Same(edit[q].blocks, entries[d].blocks) => Same(edit'[q].blocks, entries[d].blocks)
      BY <1>3, <1>7 DEF Same
    <2> QED
      BY <1>0, <2>1, <2>2, <2>3 DEF FreshInv
  <1>16. WantInv'
    BY <1>0, <1>3, <1>4, <1>13 DEF WantInv, Created
  <1>17. Galleried => Galleried'
    BY <1>1, SaveGalleryShown
  <1> QED
    BY <1>9, <1>11, <1>12, <1>14, <1>15, <1>16, <1>17 DEF Lists

-----------------------------------------------------------------------------
(* Writes of blocks.                                                       *)

\* Only pages and requests of e change.
Touches(e) ==
    /\ \A u \in Editors : pages'[u] = pages[u] \/ (pages[u].entry = e /\ pages'[u].entry = e)
    /\ \A q \in EditThreads :
          \/ edit'[q] = edit[q]
          \/ edit'[q] = NoEdit
          \/ /\ edit[q].entry = e /\ edit'[q].entry = e /\ edit'[q].user = edit[q].user
             /\ edit'[q].at = "galleries"

LEMMA Elsewhere ==
  ASSUME NEW e \in EntryIds, Touches(e), \A d \in EntryIds : d # e => entries'[d] = entries[d],
         NEW d \in EntryIds, d # e, NEW k, NEW i, Somewhere(d, k, i)'
  PROVE  Somewhere(d, k, i)
  <1>1. \A q \in EditThreads : edit'[q].entry = d => edit'[q] = edit[q]
    BY EntryValues, EntriesAssumption DEF Touches
  <1>2. \A u \in Editors : pages'[u].entry = d => pages'[u] = pages[u]
    BY DEF Touches
  <1>3. entries'[d] = entries[d]
    OBVIOUS
  <1> QED
    BY <1>1, <1>2, <1>3 DEF Somewhere

LEMMA WriteLists ==
  ASSUME Ground, Lists, IdsInv', Typed', born' = born,
         NEW e \in EntryIds, NEW S \in SUBSET BlockDoc, NEW base, Wrote(e, S, base), Touches(e), KeyOnce(S), e \in Created,
         \A d \in EntryIds : d # e => wanted'[d] = wanted[d],
         \A u \in Editors : KeyOnce(pages'[u].blocks) /\ (pages'[u] # pages[u] => pages'[u].revision <= revision[e] + 1),
         \A q \in EditThreads :
            /\ KeyOnce(edit'[q].blocks) /\ edit'[q].todo \subseteq Pending(edit'[q].blocks)
            /\ edit'[q] # edit[q] /\ edit'[q] # NoEdit => edit'[q].base <= revision[e] + 1,
         Live(e) /\ base = revision[e] =>
            /\ \A i, j \in 0 .. MaxIds : Has(S, 0, i) /\ Somewhere(e, 0, j)' /\ j # 0 => i = j
            /\ \A u \in Editors :
                  pages'[u] # pages[u] /\ pages'[u].revision = revision[e] + 1 => Same(pages'[u].blocks, S)
            /\ \A q \in EditThreads : edit'[q] # edit[q] /\ edit'[q] # NoEdit =>
                  /\ Same(edit'[q].blocks, S)
                  /\ pages'[edit'[q].user].entry = e => Keys(pages'[edit'[q].user].blocks) = Keys(S)
            /\ Keys(S) = wanted'[e]
  PROVE  Lists'
  <1>0. EntryTypes /\ BornInv /\ KeysInv /\ IdsInv /\ OldIdInv /\ FreshInv /\ WantInv
    BY DEF Ground, Lists
  <1>1. /\ entries' \in [EntryIds -> EntryRec] /\ revision' \in [EntryIds -> Nat \ {0}]
        /\ \A d \in EntryIds : d # e => entries'[d] = entries[d] /\ revision'[d] = revision[d]
        /\ revision'[e] = revision[e] + 1 /\ entries'[e].exists = entries[e].exists
        /\ entries[e].exists => entries'[e].blocks = S
        /\ ~entries[e].exists => entries'[e] = entries[e]
        /\ overlapped' = IF base = revision[e] THEN overlapped ELSE overlapped \cup {e}
    BY DEF Wrote
  <1>2. revision \in [EntryIds -> Nat \ {0}] /\ edit \in [EditThreads -> EditRec] /\ pages \in [Editors -> PageRec]
    BY <1>0, EntryTyped
  <1>3. Live(e)' => Live(e) /\ base = revision[e] /\ entries'[e].blocks = S
    BY <1>1 DEF Live
  <1>4. \A d \in EntryIds : d # e => (Live(d)' <=> Live(d))
    BY <1>1 DEF Live
  <1>5. KeysInv'
    <2>1. \A d \in EntryIds : KeyOnce(entries'[d].blocks)
      BY <1>0, <1>1 DEF KeysInv
    <2> QED
      BY <2>1 DEF KeysInv
  <1>6. OldIdInv'
    <2> SUFFICES ASSUME NEW d \in EntryIds, Live(d)', NEW i \in 0 .. MaxIds, NEW j \in 0 .. MaxIds,
                        Has(entries'[d].blocks, 0, i), Somewhere(d, 0, j)', j # 0
                 PROVE  i = j
      BY DEF OldIdInv
    <2>1. CASE d = e
      BY <1>3, <2>1
    <2>2. CASE d # e
      <3>1. Live(d) /\ entries'[d] = entries[d] /\ Somewhere(d, 0, j)
        BY <1>1, <1>4, <2>2, Elsewhere
      <3> QED
        BY <1>0, <3>1 DEF OldIdInv
    <2> QED
      BY <2>1, <2>2
  <1>7. \A q \in EditThreads, d \in EntryIds :
           edit'[q].entry = d => edit'[q] = edit[q] \/ (d = e /\ edit'[q] # NoEdit /\ edit'[q].at \in Saving)
    BY EntryValues, EntriesAssumption DEF Touches, Saving
  <1>8. \A u \in Editors, d \in EntryIds : pages'[u].entry = d => pages'[u] = pages[u] \/ d = e
    BY DEF Touches
  <1>9. FreshInv'
    <2> SUFFICES ASSUME NEW d \in EntryIds
                 PROVE  /\ \A v \in Editors : pages'[v].entry = d => pages'[v].revision <= revision'[d]
                        /\ \A q \in EditThreads : edit'[q].entry = d => edit'[q].base <= revision'[d]
                        /\ Live(d)' =>
                              /\ \A v \in Editors : FreshPage(v, d)' => Same(pages'[v].blocks, entries'[d].blocks)
                              /\ \A q \in EditThreads : FreshEdit(q, d)' =>
                                    /\ Same(edit'[q].blocks, entries'[d].blocks)
                                    /\ pages'[edit'[q].user].entry = d =>
                                          Keys(pages'[edit'[q].user].blocks) = Keys(entries'[d].blocks)
      BY DEF FreshInv
    <2>0. revision[d] \in Nat /\ revision'[d] \in {revision[d], revision[d] + 1} /\ (\A q \in EditThreads : edit[q].base \in Nat)
          /\ (\A v \in Editors : pages[v].revision \in Nat)
      BY <1>1, <1>2 DEF EditRec, PageRec
    <2>1. ASSUME NEW v \in Editors, pages'[v].entry = d
          PROVE  pages'[v].revision <= revision'[d]
      <3>1. CASE pages'[v] = pages[v]
        BY <1>0, <2>0, <2>1, <3>1 DEF FreshInv
      <3>2. CASE pages'[v] # pages[v]
        BY <1>1, <1>8, <2>1, <3>2
      <3> QED
        BY <3>1, <3>2
    <2>2. ASSUME NEW q \in EditThreads, edit'[q].entry = d
          PROVE  edit'[q].base <= revision'[d]
      <3>1. CASE edit'[q] = edit[q]
        BY <1>0, <2>0, <2>2, <3>1 DEF FreshInv
      <3>2. CASE edit'[q] # edit[q]
        BY <1>1, <1>7, <2>2, <3>2
      <3> QED
        BY <3>1, <3>2
    <2>3. ASSUME Live(d)', NEW v \in Editors, FreshPage(v, d)'
          PROVE  Same(pages'[v].blocks, entries'[d].blocks)
      <3>1. CASE d = e
        <4>1. pages'[v] # pages[v]
          BY <1>0, <1>1, <2>0, <2>3, <3>1 DEF FreshInv, FreshPage
        <4> QED
          BY <1>1, <1>3, <2>3, <3>1, <4>1 DEF FreshPage
      <3>2. CASE d # e
        <4>1. pages'[v] = pages[v] /\ FreshPage(v, d) /\ Live(d) /\ entries'[d] = entries[d]
          BY <1>1, <1>4, <1>8, <2>3, <3>2 DEF FreshPage
        <4> QED
          BY <1>0, <4>1 DEF FreshInv
      <3> QED
        BY <3>1, <3>2
    <2>4. ASSUME Live(d)', NEW q \in EditThreads, FreshEdit(q, d)'
          PROVE  /\ Same(edit'[q].blocks, entries'[d].blocks)
                 /\ pages'[edit'[q].user].entry = d => Keys(pages'[edit'[q].user].blocks) = Keys(entries'[d].blocks)
      <3>1. CASE d = e
        <4>1. edit'[q] # edit[q]
          BY <1>0, <1>1, <2>0, <2>4, <3>1 DEF FreshInv, FreshEdit
        <4>2. edit'[q] # NoEdit
          BY <1>7, <2>4, <3>1, <4>1 DEF FreshEdit
        <4> QED
          BY <1>3, <2>4, <3>1, <4>1, <4>2
      <3>2. CASE d # e
        <4>1. edit'[q] = edit[q] /\ FreshEdit(q, d) /\ Live(d) /\ entries'[d] = entries[d]
          BY <1>1, <1>4, <1>7, <2>4, <3>2 DEF FreshEdit
        <4>2. edit[q].user \in Editors
          BY <1>0, <4>1, EntryTyped DEF EntryTypes, FreshEdit
        <4>3. pages'[edit[q].user].entry = d => pages'[edit[q].user] = pages[edit[q].user]
          BY <1>8, <3>2, <4>2
        <4> QED
          BY <1>0, <4>1, <4>3 DEF FreshInv
      <3> QED
        BY <3>1, <3>2
    <2> QED
      BY <2>1, <2>2, <2>3, <2>4
  <1>10. WantInv'
    <2>1. \A d \in EntryIds : Live(d)' => Keys(entries'[d].blocks) = wanted'[d]
      <3> SUFFICES ASSUME NEW d \in EntryIds, Live(d)' PROVE Keys(entries'[d].blocks) = wanted'[d]
        OBVIOUS
      <3>1. CASE d = e
        BY <1>3, <3>1
      <3>2. CASE d # e
        BY <1>0, <1>1, <1>4, <3>2 DEF WantInv
      <3> QED
        BY <3>1, <3>2
    <2>2. Created' = Created /\ \A d \in EntryIds : d \notin Created => wanted'[d] = {}
      BY <1>0 DEF WantInv, Created
    <2>3. ASSUME NEW q \in EditThreads
          PROVE  /\ edit'[q].at = "content" /\ edit'[q].base # 0 => edit'[q].want = Keys(edit'[q].blocks)
                 /\ edit'[q].at = "pull" => edit'[q].block.id # 0
      <3>1. edit'[q] = edit[q] \/ edit'[q].at \in {"idle", "galleries"}
        BY EntryValues DEF Touches
      <3> QED
        BY <1>0, <3>1 DEF WantInv
    <2> QED
      BY <2>1, <2>2, <2>3 DEF WantInv
  <1> QED
    BY <1>5, <1>6, <1>9, <1>10 DEF Lists

\* A request goes on, after a write of its entry.
LEMMA WentOn ==
  ASSUME EntryTypes, NEW p \in EditThreads, NEW e \in EntryIds, edit[p].entry = e, NEW r \in EditRec, Turned(p, r),
         edit[p].user \in Editors, edit[p].at # "idle",
         r.entry = e, r.user = edit[p].user, r.at = "galleries", pages' = pages
  PROVE  Touches(e) /\ \A q \in EditThreads : Follows(q)
  <1>1. Touches(e)
    BY DEF Touches, Turned
  <1>2. \A q \in EditThreads : Follows(q)
    BY DEF Follows, Turned
  <1> QED
    BY <1>1, <1>2

\* What a write of e leaves of the galleries.
LEMMA WroteShown ==
  ASSUME Ground, Galleried, NEW e \in EntryIds, NEW S, NEW base, Wrote(e, S, base), Touches(e), galleries' = galleries,
         lastDrawn' \in 0 .. MaxIds, lastDrawn <= lastDrawn',
         \A k \in 0 .. MaxIds, g \in 1 .. MaxIds : Shows(S, k, g) => GalleryAt(e, k, g),
         \A u \in Editors :
            \/ pages'[u] = pages[u]
            \/ \A k \in 0 .. MaxIds, g \in 1 .. MaxIds : Shows(pages'[u].blocks, k, g) => GalleryAt(e, k, g),
         \A q \in EditThreads : edit'[q] = edit[q] \/ (edit[q].entry = e /\ (edit'[q] = NoEdit \/ edit'[q].blocks = S)),
         SyncAt(e)'
  PROVE  Galleried'
  <1>0. GalleryInv /\ SyncInv /\ EntryTypes
    BY DEF Galleried, Ground
  <1>1. /\ \A d \in EntryIds : d # e => entries'[d] = entries[d] /\ revision'[d] = revision[d]
        /\ entries'[e].blocks = S \/ entries'[e] = entries[e]
        /\ \A d \in EntryIds : d # e => (d \in overlapped' <=> d \in overlapped)
    BY DEF Wrote
  <1>2. \A q \in EditThreads : edit'[q] = edit[q] \/ (edit[q].entry = e /\ edit'[q].entry = e) \/ edit'[q] = NoEdit
    BY DEF Touches
  <1>3. GalleryInv'
    <2>1. lastDrawn \in 0 .. MaxIds
      BY <1>0, EntryTyped
    <2>2. \A d \in EntryIds : \A k \in 0 .. MaxIds, g \in 1 .. MaxIds : Shows(entries'[d].blocks, k, g) => GalleryAt(d, k, g)
      BY <1>1 DEF GalleryAt
    <2>3. \A u \in Editors, d \in EntryIds : pages'[u].entry = d =>
             \A k \in 0 .. MaxIds, g \in 1 .. MaxIds : Shows(pages'[u].blocks, k, g) => GalleryAt(d, k, g)
      BY DEF GalleryAt, Touches
    <2>4. \A q \in EditThreads, d \in EntryIds : edit'[q].entry = d =>
             \A k \in 0 .. MaxIds, g \in 1 .. MaxIds : Shows(edit'[q].blocks, k, g) => GalleryAt(d, k, g)
      BY <1>2, EntryValues, EntriesAssumption DEF GalleryAt
    <2> QED
      BY <1>0, <2>1, <2>2, <2>3, <2>4, GalleryKeep
  <1>4. \A b : InSync(b)' <=> InSync(b)
    BY DEF InSync
  <1>5. ASSUME NEW d \in EntryIds, d # e PROVE SyncAt(d)'
    <2>1. SyncAt(d) /\ revision'[d] = revision[d] /\ (Live(d)' => Live(d) /\ entries'[d].blocks = entries[d].blocks)
      BY <1>0, <1>1, <1>5 DEF SyncInv, Live
    <2>2. \A q \in EditThreads :
            \/ edit'[q] = edit[q]
            \/ /\ ~(edit[q].entry = d /\ edit[q].at \in Writing)
               /\ ~(edit'[q].entry = d /\ edit'[q].at \in Writing)
      BY <1>2, <1>5, EntryValues, EntriesAssumption
    <2> QED
      BY <1>4, <2>1, <2>2, SyncOther
  <1> QED
    BY <1>3, <1>5 DEF Galleried, SyncInv

\* A request that was overtaken before the write still is; one that was writing is now.
LEMMA DoomStays ==
  ASSUME Ground, FreshInv, NEW e \in EntryIds, NEW S, NEW base, Wrote(e, S, base),
         NEW q \in EditThreads, edit'[q] = edit[q]
  PROVE  /\ ~Writer(q, e)'
         /\ Doom(q, e) => Doom(q, e)'
         /\ Writer(q, e) => Doom(q, e)' \/ (edit[q].at = "galleries" /\ edit[q].todo = {})
  <1>1. edit[q].base \in Nat /\ revision[e] \in Nat
    BY EntryTyped, EditBase DEF Ground
  <1>2. revision'[e] = revision[e] + 1
    BY DEF Wrote
  <1>3. edit[q].entry = e => edit[q].base <= revision[e] /\ edit[q].base # revision'[e]
    <2>1. edit[q].entry = e => edit[q].base <= revision[e]
      BY DEF FreshInv
    <2> QED
      BY <1>1, <1>2, <2>1
  <1> QED
    BY <1>3 DEF Writer, Doom, Writing

\* The request that wrote goes on.
LEMMA WentOnSync ==
  ASSUME Ground, FreshInv, NEW e \in EntryIds, NEW S, NEW base, Wrote(e, S, base), galleries' = galleries,
         NEW p \in EditThreads, NEW r, Turned(p, r), r.entry = e, r.at = "galleries", r.base = revision[e] + 1, r.blocks = S,
         Live(e) /\ base = revision[e] /\ (\A q \in EditThreads : q # p => ~Doom(q, e)) => \A b \in S \ r.todo : InSync(b)
  PROVE  SyncAt(e)'
  <1>1. edit'[p] = r /\ \A q \in EditThreads : q # p => edit'[q] = edit[q]
    BY DEF Turned
  <1>2. \A q \in EditThreads : q # p => ~Writer(q, e)' /\ (Doom(q, e) => Doom(q, e)')
    BY <1>1, DoomStays
  <1>3. Writer(p, e)'
    BY <1>1 DEF Writer, Writing, Wrote
  <1>4. ASSUME Live(e)', \A q \in EditThreads : ~Doom(q, e)'
        PROVE  /\ \A b \in r.blocks \ r.todo : InSync(b)'
               /\ entries'[e].blocks = r.blocks
    <2>1. Live(e) /\ base = revision[e] /\ entries'[e].blocks = S
      BY <1>4 DEF Live, Wrote
    <2>2. \A b \in S \ r.todo : InSync(b)
      BY <1>2, <1>4, <2>1
    <2> QED
      BY <2>1, <2>2 DEF InSync
  <1> QED
    BY <1>1, <1>2, <1>3, <1>4 DEF SyncAt

\* The request that wrote ends.
LEMMA EndedSync ==
  ASSUME Ground, FreshInv, NEW e \in EntryIds, SyncAt(e), NEW S, NEW base, Wrote(e, S, base), galleries' = galleries,
         NEW p \in EditThreads, Turned(p, NoEdit), edit[p].at \notin Writing,
         \A b \in S : b \in entries[e].blocks \/ InSync(b)
  PROVE  SyncAt(e)'
  <1>1. edit'[p] = NoEdit /\ \A q \in EditThreads : q # p => edit'[q] = edit[q]
    BY DEF Turned
  <1>2. ~Writer(p, e)' /\ ~Writer(p, e) /\ ~Doom(p, e)
    BY <1>1, EntryValues, EntriesAssumption DEF Writer, Doom
  <1>3. \A q \in EditThreads : q # p =>
          /\ ~Writer(q, e)' /\ (Doom(q, e) => Doom(q, e)')
          /\ Writer(q, e) => Doom(q, e)' \/ (edit[q].at = "galleries" /\ edit[q].todo = {})
    BY <1>1, DoomStays
  <1>4. ASSUME Live(e)', \A q \in EditThreads : ~Doom(q, e)'
        PROVE  \A b \in entries'[e].blocks : InSync(b)'
    <2>1. Live(e) /\ entries'[e].blocks = S
      BY <1>4 DEF Live, Wrote
    <2>2. \A q \in EditThreads : ~Doom(q, e)
      BY <1>2, <1>3, <1>4
    <2>3. \A b \in entries[e].blocks : InSync(b)
      <3>1. CASE \A q \in EditThreads : ~Writer(q, e)
        BY <2>1, <2>2, <3>1 DEF SyncAt
      <3>2. ASSUME NEW q \in EditThreads, Writer(q, e) PROVE \A b \in entries[e].blocks : InSync(b)
        <4>1. edit[q].at = "galleries" /\ edit[q].todo = {}
          BY <1>2, <1>3, <1>4, <3>2
        <4>2. /\ \A b \in edit[q].blocks \ edit[q].todo : InSync(b)
              /\ entries[e].blocks = edit[q].blocks
          BY <2>1, <2>2, <3>2, <4>1 DEF SyncAt
        <4> QED
          BY <4>1, <4>2
      <3> QED
        BY <3>1, <3>2
    <2> QED
      BY <2>1, <2>3 DEF InSync
  <1>5. \A q \in EditThreads : ~Writer(q, e)'
    BY <1>2, <1>3
  <1> QED
    BY <1>4, <1>5 DEF SyncAt

LEMMA RewriteStep ==
  ASSUME Ground, Lists, NEW p \in EditThreads, RewriteContent(p)
  PROVE  Ground' /\ Lists' /\ (Galleried => Galleried')
  <1>0. EntryTypes /\ BornInv /\ KeysInv /\ IdsInv /\ OldIdInv /\ FreshInv /\ WantInv
    BY DEF Ground, Lists
  <1>1. /\ revision \in [EntryIds -> Nat \ {0}] /\ edit \in [EditThreads -> EditRec] /\ edit[p] \in EditRec
        /\ lastDrawn \in 0 .. MaxIds /\ entries \in [EntryIds -> EntryRec]
    BY <1>0, EntryTyped
  <1>2. PICK e \in EntryIds : e = edit[p].entry /\ edit[p].at = "rewrite" /\ edit[p].user \in Editors /\ e \in Created
    BY <1>0 DEF RewriteContent, EntryTypes, BornInv
  <1>3. PICK S : S = edit[p].blocks
    OBVIOUS
  <1>4. PICK base : base = edit[p].base
    OBVIOUS
  <1>5. S \in SUBSET BlockDoc /\ KeyOnce(S) /\ edit[p].todo \subseteq Pending(S) /\ base \in Nat /\ base <= revision[e]
    BY <1>0, <1>1, <1>2, <1>3, <1>4 DEF EditRec, KeysInv, FreshInv
  <1>6. WriteBlocks(e, S, base)
    BY <1>2, <1>3, <1>4 DEF RewriteContent
  <1>7. Wrote(e, S, base)
    BY <1>0, <1>5, <1>6, WriteWrote
  <1>80. PICK n \in Nat : n = revision[e] + 1
    BY <1>1
  <1>8. PICK r : r = [edit[p] EXCEPT !.at = "galleries", !.base = n]
    OBVIOUS
  <1>9. /\ r \in EditRec /\ r.at = "galleries" /\ r.entry = e /\ r.user = edit[p].user /\ r.base = n
        /\ r.block = edit[p].block /\ r.todo = edit[p].todo /\ r.blocks = S
    BY <1>1, <1>2, <1>3, <1>8 DEF EditRec
  <1>10. edit' = [edit EXCEPT ![p] = r]
    <2>1. revision'[e] = revision[e] + 1
      BY <1>7 DEF Wrote
    <2> QED
      BY <1>2, <1>8, <1>80, <2>1 DEF RewriteContent
  <1>11. Turned(p, r)
    BY <1>1, <1>9, <1>10 DEF Turned
  <1>12. UNCHANGED <<born, galleries, lastDrawn, pages, wanted, lastSaved, edits>>
    BY DEF RewriteContent
  <1>13. Touches(e) /\ \A q \in EditThreads : Follows(q)
    BY <1>0, <1>2, <1>9, <1>11, <1>12, WentOn
  <1>14. Typed /\ Typed'
    <2>1. Typed
      BY <1>0, TypedNow
    <2>2. overlapped' \subseteq EntryIds /\ entries' \in [EntryIds -> EntryRec] /\ revision' \in [EntryIds -> Nat \ {0}]
      BY <2>1, <1>7 DEF Wrote, Typed
    <2> QED
      BY <2>1, <2>2, <1>11, <1>12 DEF Typed, Turned
  <1>15. Ground'
    BY <1>7, <1>12, <1>13, <1>14, WroteGround
  <1>16. \A d \in EntryIds : \A k, i \in 0 .. MaxIds : Somewhere(d, k, i)' => Somewhere(d, k, i)
    <2> SUFFICES ASSUME NEW d \in EntryIds, NEW k \in 0 .. MaxIds, NEW i \in 0 .. MaxIds, Somewhere(d, k, i)'
                 PROVE  Somewhere(d, k, i)
      OBVIOUS
    <2>1. CASE d # e
      BY <1>7, <1>13, <2>1, Elsewhere DEF Wrote
    <2>2. CASE d = e
      <3>1. ASSUME Has(entries'[e].blocks, k, i) PROVE Somewhere(e, k, i)
        <4>1. entries'[e].blocks = S \/ entries'[e] = entries[e]
          BY <1>7 DEF Wrote
        <4> QED
          BY <1>2, <1>3, <3>1, <4>1 DEF Somewhere
      <3>2. ASSUME NEW q \in EditThreads, edit'[q].entry = e, Has(edit'[q].blocks, k, i) \/ Has({edit'[q].block}, k, i)
            PROVE  Somewhere(e, k, i)
        <4>1. edit[q].entry = e /\ edit'[q].blocks = edit[q].blocks /\ edit'[q].block = edit[q].block
          BY <1>2, <1>3, <1>9, <1>11, <3>2 DEF Turned
        <4> QED
          BY <3>2, <4>1 DEF Somewhere
      <3>3. ASSUME NEW u \in Editors, pages'[u].entry = e, Has(pages'[u].blocks, k, i) PROVE Somewhere(e, k, i)
        BY <1>12, <3>3 DEF Somewhere
      <3> QED
        BY <2>2, <3>1, <3>2, <3>3 DEF Somewhere
    <2> QED
      BY <2>1, <2>2
  <1>17. IdsInv'
    BY <1>0, <1>1, <1>12, <1>16, IdsKeep
  <1>18. ASSUME Live(e), base = revision[e]
         PROVE  /\ \A i, j \in 0 .. MaxIds : Has(S, 0, i) /\ Somewhere(e, 0, j)' /\ j # 0 => i = j
                /\ pages[edit[p].user].entry = e => Keys(pages[edit[p].user].blocks) = Keys(S)
                /\ Keys(S) = wanted[e]
    <2>1. FreshEdit(p, e)
      BY <1>2, <1>4, <1>18 DEF FreshEdit, Saving
    <2>2. Same(S, entries[e].blocks)
          /\ (pages[edit[p].user].entry = e => Keys(pages[edit[p].user].blocks) = Keys(entries[e].blocks))
      BY <1>0, <1>3, <1>18, <2>1 DEF FreshInv
    <2>3. Keys(S) = Keys(entries[e].blocks)
      BY <1>1, <1>5, <2>2, SameKeys DEF EntryRec
    <2>4. Keys(S) = wanted[e]
      BY <1>0, <1>18, <2>3 DEF WantInv
    <2>5. ASSUME NEW i \in 0 .. MaxIds, NEW j \in 0 .. MaxIds, Has(S, 0, i), Somewhere(e, 0, j)', j # 0 PROVE i = j
      <3>1. Has(entries[e].blocks, 0, i) /\ Somewhere(e, 0, j)
        BY <1>16, <2>2, <2>5, EntriesAssumption DEF Same
      <3> QED
        BY <1>0, <1>18, <2>5, <3>1 DEF OldIdInv
    <2> QED
      BY <2>2, <2>3, <2>4, <2>5
  <1>19. /\ \A u \in Editors : KeyOnce(pages'[u].blocks) /\ pages'[u] = pages[u]
         /\ \A q \in EditThreads :
               /\ KeyOnce(edit'[q].blocks) /\ edit'[q].todo \subseteq Pending(edit'[q].blocks)
               /\ edit'[q] # edit[q] => edit'[q].base = revision[e] + 1 /\ edit'[q].blocks = S /\ edit'[q].user = edit[p].user
    BY <1>0, <1>5, <1>80, <1>9, <1>11, <1>12 DEF KeysInv, Turned
  <1>20. \A q \in EditThreads : edit'[q] # edit[q] => edit'[q].base <= revision[e] + 1
    BY <1>1, <1>19
  <1>21. Same(S, S)
    BY DEF Same
  <1>22. Lists'
    BY <1>2, <1>5, <1>7, <1>12, <1>13, <1>14, <1>17, <1>18, <1>19, <1>20, <1>21, WriteLists
  <1>23. ASSUME Galleried PROVE Galleried'
    <2>1. ASSUME Live(e), base = revision[e], \A q \in EditThreads : q # p => ~Doom(q, e)
          PROVE  \A b \in S \ r.todo : InSync(b)
      <3>1. Writer(p, e) /\ ~Doom(p, e)
        BY <1>2, <1>4, <2>1 DEF Writer, Doom, Writing
      <3>2. SyncAt(e)
        BY <1>23 DEF Galleried, SyncInv
      <3> QED
        BY <1>3, <1>9, <2>1, <3>1, <3>2 DEF SyncAt
    <2>2. SyncAt(e)'
      BY <1>0, <1>7, <1>80, <1>9, <1>11, <1>12, <2>1, WentOnSync
    <2>3. \A k \in 0 .. MaxIds, g \in 1 .. MaxIds : Shows(S, k, g) => GalleryAt(e, k, g)
      BY <1>2, <1>3 DEF GalleryAt
    <2>4. \A q \in EditThreads : edit'[q] = edit[q] \/ (edit[q].entry = e /\ edit'[q].blocks = S)
      BY <1>2, <1>9, <1>11 DEF Turned
    <2>5. lastDrawn' \in 0 .. MaxIds /\ lastDrawn <= lastDrawn'
      BY <1>1, <1>12, EntriesAssumption
    <2> QED
      BY <1>7, <1>12, <1>13, <1>23, <2>2, <2>3, <2>4, <2>5, WroteShown
  <1> QED
    BY <1>15, <1>22, <1>23

\* What becomes of a list whose blocks without ids are given one.
LEMMA MintedList ==
  ASSUME IdsInv, NEW e \in EntryIds, NEW B \in SUBSET BlockDoc, KeyOnce(B),
         \A k, i \in 0 .. MaxIds : Has(B, k, i) => Somewhere(e, k, i),
         NEW n, n = lastDrawn + 1, lastDrawn \in 0 .. MaxIds,
         NEW T, T = Minted(B), T # B => n \in 1 .. MaxIds
  PROVE  /\ T \in SUBSET BlockDoc /\ KeyOnce(T) /\ Keys(T) = Keys(B)
         /\ \A k, i \in 0 .. MaxIds : Has(T, k, i) => i # 0 /\ (Has(B, k, i) \/ (k = 0 /\ i = n /\ Has(B, 0, 0)))
         /\ T # B => Has(B, 0, 0)
  <1>0. MaxIds \in Nat /\ n \in Nat /\ n # 0
    BY EntriesAssumption
  <1>1. \A b \in B : b.key \in 0 .. MaxIds /\ b.id \in 0 .. MaxIds /\ (b.id = 0 => b.key = 0)
    <2> SUFFICES ASSUME NEW b \in B PROVE b.key \in 0 .. MaxIds /\ b.id \in 0 .. MaxIds /\ (b.id = 0 => b.key = 0)
      OBVIOUS
    <2>1. b.key \in 0 .. MaxIds /\ b.id \in 0 .. MaxIds
      BY DEF BlockDoc
    <2>2. Somewhere(e, b.key, b.id)
      BY <2>1 DEF Has
    <2> QED
      BY <2>1, <2>2 DEF IdsInv
  <1>2. CASE \A b \in B : b.id # 0
    <2>1. T = B
      BY <1>2 DEF Minted
    <2>2. \A k, i \in 0 .. MaxIds : Has(T, k, i) => i # 0 /\ Has(B, k, i)
      BY <1>2, <2>1 DEF Has
    <2> QED
      BY <2>1, <2>2
  <1>3. CASE \E b \in B : b.id = 0
    <2>1. PICK b \in B : b.id = 0
      BY <1>3
    <2>2. b.key = 0 /\ Has(B, 0, 0) /\ b \in BlockDoc
      BY <1>1, <2>1 DEF Has
    <2>3. PICK m : m = [b EXCEPT !.id = n]
      OBVIOUS
    <2>4. m.id = n /\ m.key = 0
      BY <2>2, <2>3 DEF BlockDoc
    <2>5. T = (B \ {b}) \cup {m}
      <3>1. \A c \in B : c.id = 0 => c = b
        BY <1>1, <2>1, <2>2 DEF KeyOnce
      <3> QED
        BY <2>1, <2>3, <3>1 DEF Minted
    <2>6. b \notin T
      BY <1>0, <2>1, <2>4, <2>5
    <2>7. n \in 1 .. MaxIds
      BY <2>6
    <2>8. m \in BlockDoc
      BY <1>0, <2>2, <2>3, <2>7 DEF BlockDoc
    <2>9. T \in SUBSET BlockDoc /\ KeyOnce(T) /\ Keys(T) = Keys(B)
      BY <2>2, <2>4, <2>5, <2>8 DEF KeyOnce, Keys
    <2>10. ASSUME NEW k \in 0 .. MaxIds, NEW i \in 0 .. MaxIds, Has(T, k, i)
           PROVE  i # 0 /\ (Has(B, k, i) \/ (k = 0 /\ i = n))
      <3>1. PICK t \in T : t.key = k /\ t.id = i
        BY <2>10 DEF Has
      <3>2. CASE t = m
        BY <1>0, <2>4, <3>1, <3>2
      <3>3. CASE t \in B /\ t # b
        <4>1. i # 0
          BY <1>1, <2>2, <3>1, <3>3 DEF KeyOnce
        <4> QED
          BY <3>1, <3>3, <4>1 DEF Has
      <3> QED
        BY <2>5, <3>1, <3>2, <3>3
    <2> QED
      BY <2>2, <2>9, <2>10
  <1> QED
    BY <1>2, <1>3

LEMMA UpdateContentStep ==
  ASSUME Ground, Lists, NEW p \in EditThreads, UpdateContent(p)
  PROVE  Ground' /\ Lists' /\ (Galleried => Galleried')
  <1>0. EntryTypes /\ BornInv /\ KeysInv /\ IdsInv /\ OldIdInv /\ FreshInv /\ WantInv
    BY DEF Ground, Lists
  <1>1. /\ revision \in [EntryIds -> Nat \ {0}] /\ edit \in [EditThreads -> EditRec] /\ edit[p] \in EditRec
        /\ lastDrawn \in 0 .. MaxIds /\ entries \in [EntryIds -> EntryRec] /\ MaxIds \in Nat
    BY <1>0, EntryTyped, EntriesAssumption
  <1>2. PICK e \in EntryIds : e = edit[p].entry /\ edit[p].at = "content" /\ edit[p].user \in Editors /\ e \in Created
    BY <1>0 DEF UpdateContent, EntryTypes, BornInv
  <1>3. PICK B : B = edit[p].blocks
    OBVIOUS
  <1>4. PICK base : base = edit[p].base
    OBVIOUS
  <1>5. B \in SUBSET BlockDoc /\ KeyOnce(B) /\ base \in Nat /\ base <= revision[e] /\ edit[p].want \in SUBSET Nat
    BY <1>0, <1>1, <1>2, <1>3, <1>4 DEF EditRec, KeysInv, FreshInv
  <1>6. PICK S : S = Minted(B)
    OBVIOUS
  <1>7. PICK n : n = lastDrawn + 1
    OBVIOUS
  <1>8. /\ WriteBlocks(e, S, base) /\ lastDrawn' = (IF S = B THEN lastDrawn ELSE n) /\ lastDrawn' <= MaxIds
        /\ wanted' = IF entries[e].exists THEN [wanted EXCEPT ![e] = edit[p].want] ELSE wanted
        /\ edit' = [edit EXCEPT ![p] = [@ EXCEPT !.at = "galleries", !.blocks = S, !.want = {},
                                                 !.todo = Pending(S), !.base = revision'[e]]]
    BY <1>2, <1>3, <1>4, <1>6, <1>7 DEF UpdateContent
  <1>9. \A k, i \in 0 .. MaxIds : Has(B, k, i) => Somewhere(e, k, i)
    BY <1>2, <1>3 DEF Somewhere
  <1>10. S # B => n \in 1 .. MaxIds
    BY <1>1, <1>7, <1>8
  <1>11. /\ S \in SUBSET BlockDoc /\ KeyOnce(S) /\ Keys(S) = Keys(B)
         /\ \A k, i \in 0 .. MaxIds : Has(S, k, i) => i # 0 /\ (Has(B, k, i) \/ (k = 0 /\ i = n /\ Has(B, 0, 0)))
         /\ S # B => Has(B, 0, 0)
    BY <1>0, <1>1, <1>5, <1>6, <1>7, <1>9, <1>10, MintedList
  <1>12. Wrote(e, S, base)
    BY <1>0, <1>8, <1>11, WriteWrote
  <1>13. PICK m \in Nat : m = revision[e] + 1
    BY <1>1
  <1>14. PICK D : D = Pending(S)
    OBVIOUS
  <1>15. D \in SUBSET BlockDoc /\ D \subseteq S
    BY <1>11, <1>14 DEF Pending
  <1>16. PICK r : r = [edit[p] EXCEPT !.at = "galleries", !.blocks = S, !.want = {}, !.todo = D, !.base = m]
    OBVIOUS
  <1>17. /\ r \in EditRec /\ r.at = "galleries" /\ r.entry = e /\ r.user = edit[p].user /\ r.base = m
         /\ r.block = edit[p].block /\ r.todo = D /\ r.blocks = S
    BY <1>1, <1>2, <1>11, <1>15, <1>16 DEF EditRec
  <1>18. edit' = [edit EXCEPT ![p] = r]
    <2>1. revision'[e] = m
      BY <1>12, <1>13 DEF Wrote
    <2> QED
      BY <1>8, <1>14, <1>16, <2>1
  <1>19. Turned(p, r)
    BY <1>1, <1>17, <1>18 DEF Turned
  <1>20. UNCHANGED <<born, galleries, pages, lastSaved>>
    BY DEF UpdateContent
  <1>21. Touches(e) /\ \A q \in EditThreads : Follows(q)
    BY <1>0, <1>2, <1>17, <1>19, <1>20, WentOn
  <1>22. Typed /\ lastDrawn' \in 0 .. MaxIds /\ wanted' \in [EntryIds -> SUBSET Nat]
         /\ \A d \in EntryIds : d # e => wanted'[d] = wanted[d]
    <2>1. Typed
      BY <1>0, TypedNow
    <2>2. wanted \in [EntryIds -> SUBSET Nat]
      BY <2>1 DEF Typed
    <2>3. wanted' \in [EntryIds -> SUBSET Nat] /\ \A d \in EntryIds : d # e => wanted'[d] = wanted[d]
      BY <1>5, <1>8, <2>2
    <2>4. lastDrawn' \in 0 .. MaxIds
      BY <1>1, <1>7, <1>8
    <2> QED
      BY <2>1, <2>3, <2>4
  <1>23. Typed'
    <2>2. overlapped' \subseteq EntryIds /\ entries' \in [EntryIds -> EntryRec] /\ revision' \in [EntryIds -> Nat \ {0}]
      BY <1>12, <1>22 DEF Wrote, Typed
    <2> QED
      BY <2>2, <1>19, <1>20, <1>22 DEF Typed, Turned
  <1>24. Ground'
    BY <1>12, <1>20, <1>21, <1>23, WroteGround
  <1>25. \A d \in EntryIds : \A k, i \in 0 .. MaxIds :
            Somewhere(d, k, i)' => Somewhere(d, k, i) \/ (d = e /\ k = 0 /\ i = n /\ Has(B, 0, 0))
    <2> SUFFICES ASSUME NEW d \in EntryIds, NEW k \in 0 .. MaxIds, NEW i \in 0 .. MaxIds, Somewhere(d, k, i)'
                 PROVE  Somewhere(d, k, i) \/ (d = e /\ k = 0 /\ i = n /\ Has(B, 0, 0))
      OBVIOUS
    <2>1. CASE d # e
      BY <1>12, <1>21, <2>1, Elsewhere DEF Wrote
    <2>2. CASE d = e
      <3>0. Has(S, k, i) => Somewhere(e, k, i) \/ (k = 0 /\ i = n /\ Has(B, 0, 0))
        BY <1>9, <1>11
      <3>1. ASSUME Has(entries'[e].blocks, k, i) PROVE Somewhere(e, k, i) \/ Has(S, k, i)
        <4>1. entries'[e].blocks = S \/ entries'[e] = entries[e]
          BY <1>12 DEF Wrote
        <4> QED
          BY <3>1, <4>1 DEF Somewhere
      <3>2. ASSUME NEW q \in EditThreads, edit'[q].entry = e, Has(edit'[q].blocks, k, i) \/ Has({edit'[q].block}, k, i)
            PROVE  Somewhere(e, k, i) \/ Has(S, k, i)
        <4>1. edit[q].entry = e /\ edit'[q].blocks \in {edit[q].blocks, S} /\ edit'[q].block = edit[q].block
          BY <1>2, <1>17, <1>19, <3>2 DEF Turned
        <4> QED
          BY <3>2, <4>1 DEF Somewhere
      <3>3. ASSUME NEW u \in Editors, pages'[u].entry = e, Has(pages'[u].blocks, k, i) PROVE Somewhere(e, k, i)
        BY <1>20, <3>3 DEF Somewhere
      <3>4. Somewhere(e, k, i)'
        BY <2>2
      <3>5. Somewhere(e, k, i) \/ Has(S, k, i)
        BY <3>1, <3>2, <3>3, <3>4 DEF Somewhere
      <3> QED
        BY <2>2, <3>0, <3>5
    <2> QED
      BY <2>1, <2>2
  <1>26. IdsInv'
    <2>1. CASE S = B
      <3>1. ~Has(B, 0, 0)
        BY <1>1, <1>11, <2>1
      <3>2. lastDrawn' = lastDrawn
        BY <1>8, <2>1
      <3> QED
        BY <1>0, <1>1, <1>25, <3>1, <3>2, IdsKeep
    <2>2. CASE S # B
      <3>1. lastDrawn' = n /\ n \in 1 .. MaxIds
        BY <1>8, <1>10, <2>2
      <3> QED
        BY <1>0, <1>1, <1>7, <1>25, <3>1, IdsDrawId
    <2> QED
      BY <2>1, <2>2
  <1>27. ASSUME Live(e), base = revision[e]
         PROVE  /\ \A i, j \in 0 .. MaxIds : Has(S, 0, i) /\ Somewhere(e, 0, j)' /\ j # 0 => i = j
                /\ pages[edit[p].user].entry = e => Keys(pages[edit[p].user].blocks) = Keys(S)
                /\ Keys(S) = wanted'[e]
    <2>1. FreshEdit(p, e)
      BY <1>2, <1>4, <1>27 DEF FreshEdit, Saving
    <2>2. Same(B, entries[e].blocks)
          /\ (pages[edit[p].user].entry = e => Keys(pages[edit[p].user].blocks) = Keys(entries[e].blocks))
      BY <1>0, <1>3, <1>27, <2>1 DEF FreshInv
    <2>3. Keys(B) = Keys(entries[e].blocks)
      BY <1>1, <1>5, <2>2, SameKeys DEF EntryRec
    <2>4. edit[p].want = Keys(B)
      <3>1. edit[p].base # 0
        BY <1>1, <1>4, <1>27
      <3> QED
        BY <1>0, <1>2, <1>3, <3>1 DEF WantInv
    <2>5. wanted'[e] = edit[p].want
      BY <1>8, <1>22, <1>27 DEF Live, Typed
    <2>6. ASSUME NEW i \in 0 .. MaxIds, NEW j \in 0 .. MaxIds, Has(S, 0, i), Somewhere(e, 0, j)', j # 0 PROVE i = j
      <3>0. 0 \in 0 .. MaxIds
        BY <1>1
      <3>1. CASE Has(B, 0, 0)
        <4>1. i = n
          <5>1. i # 0 /\ (Has(B, 0, i) \/ i = n)
            BY <1>11, <2>6, <3>0
          <5>2. ~Has(B, 0, i)
            BY <1>5, <3>1, <5>1 DEF Has, KeyOnce
          <5> QED
            BY <5>1, <5>2
        <4>2. ~Somewhere(e, 0, j)
          <5>1. Has(entries[e].blocks, 0, 0)
            BY <2>2, <3>0, <3>1 DEF Same
          <5> QED
            BY <1>0, <1>27, <2>6, <3>0, <5>1 DEF OldIdInv
        <4> QED
          BY <1>25, <2>6, <3>0, <4>1, <4>2
      <3>2. CASE ~Has(B, 0, 0)
        <4>1. Somewhere(e, 0, j) /\ Has(B, 0, i)
          BY <1>11, <1>25, <2>6, <3>0, <3>2
        <4>2. Has(entries[e].blocks, 0, i)
          BY <2>2, <3>0, <4>1 DEF Same
        <4> QED
          BY <1>0, <1>27, <2>6, <4>1, <4>2 DEF OldIdInv
      <3> QED
        BY <3>1, <3>2
    <2> QED
      BY <1>11, <2>2, <2>3, <2>4, <2>5, <2>6
  <1>28. /\ \A u \in Editors : KeyOnce(pages'[u].blocks) /\ pages'[u] = pages[u]
         /\ \A q \in EditThreads :
               /\ KeyOnce(edit'[q].blocks) /\ edit'[q].todo \subseteq Pending(edit'[q].blocks)
               /\ edit'[q] # edit[q] => edit'[q].base = m /\ edit'[q].blocks = S /\ edit'[q].user = edit[p].user
    BY <1>0, <1>11, <1>14, <1>17, <1>19, <1>20 DEF KeysInv, Turned
  <1>29. \A q \in EditThreads : edit'[q] # edit[q] => edit'[q].base <= revision[e] + 1
    BY <1>1, <1>13, <1>28
  <1>30. Same(S, S)
    BY DEF Same
  <1>31. Lists'
    BY <1>2, <1>11, <1>12, <1>20, <1>21, <1>22, <1>23, <1>26, <1>27, <1>28, <1>29, <1>30, WriteLists
  <1>32. ASSUME Galleried PROVE Galleried'
    <2>1. \A b \in S \ r.todo : InSync(b)
      BY <1>14, <1>17 DEF Pending, InSync
    <2>2. SyncAt(e)'
      BY <1>0, <1>12, <1>13, <1>17, <1>19, <1>20, <2>1, WentOnSync
    <2>3. \A k \in 0 .. MaxIds, g \in 1 .. MaxIds : Shows(S, k, g) => GalleryAt(e, k, g)
      <3>1. \A k \in 0 .. MaxIds, g \in 1 .. MaxIds : Shows(S, k, g) => Shows(B, k, g)
        <4>1. ASSUME NEW c \in S PROVE \E b \in B : b.key = c.key /\ b.gallery = c.gallery
          <5>1. PICK b \in B : c = IF b.id = 0 THEN [b EXCEPT !.id = n] ELSE b
            BY <1>6, <1>7, <4>1 DEF Minted
          <5>2. b \in BlockDoc
            BY <1>5
          <5>3. c.key = b.key /\ c.gallery = b.gallery
            BY <5>1, <5>2 DEF BlockDoc
          <5> QED
            BY <5>3
        <4> QED
          BY <4>1 DEF Shows
      <3> QED
        BY <1>2, <1>3, <3>1 DEF GalleryAt
    <2>4. \A q \in EditThreads : edit'[q] = edit[q] \/ (edit[q].entry = e /\ edit'[q].blocks = S)
      BY <1>2, <1>17, <1>19 DEF Turned
    <2>5. lastDrawn <= lastDrawn'
      BY <1>1, <1>7, <1>8
    <2> QED
      BY <1>12, <1>20, <1>21, <1>22, <1>32, <2>2, <2>3, <2>4, <2>5, WroteShown
  <1> QED
    BY <1>24, <1>31, <1>32

\* A list, and the block that is pushed onto it.
LEMMA PushedList ==
  ASSUME IdsInv, NEW e \in EntryIds, NEW L \in SUBSET BlockDoc, KeyOnce(L),
         \A k, i \in 0 .. MaxIds : Has(L, k, i) => Somewhere(e, k, i),
         NEW n, n = lastDrawn + 1, lastDrawn \in 0 .. MaxIds, NEW b \in BlockDoc, b.key = n, b.id = n
  PROVE  /\ L \cup {b} \in SUBSET BlockDoc /\ KeyOnce(L \cup {b}) /\ Keys(L \cup {b}) = Keys(L) \cup {n}
         /\ \A k, i \in 0 .. MaxIds : Has(L \cup {b}, k, i) <=> Has(L, k, i) \/ (k = n /\ i = n)
  <1>1. \A c \in L : c.key # n
    <2> SUFFICES ASSUME NEW c \in L PROVE c.key # n
      OBVIOUS
    <2>1. c.key \in 0 .. MaxIds /\ c.id \in 0 .. MaxIds
      BY DEF BlockDoc
    <2>2. Somewhere(e, c.key, c.id)
      BY <2>1 DEF Has
    <2>3. c.key <= lastDrawn
      BY <2>1, <2>2 DEF IdsInv
    <2> QED
      BY <2>1, <2>3, EntriesAssumption
  <1>2. KeyOnce(L \cup {b})
    BY <1>1 DEF KeyOnce
  <1>3. Keys(L \cup {b}) = Keys(L) \cup {n}
    BY DEF Keys
  <1>4. \A k, i \in 0 .. MaxIds : Has(L \cup {b}, k, i) <=> Has(L, k, i) \/ (k = n /\ i = n)
    BY DEF Has
  <1> QED
    BY <1>2, <1>3, <1>4

\* What PushBlock() and PullBlock() leave a page.
LEMMA CaughtPage ==
  ASSUME NEW g \in PageRec, NEW T \in SUBSET BlockDoc, NEW r \in Nat
  PROVE  /\ Caught(g, T, r) \in PageRec /\ Caught(g, T, r).entry = g.entry /\ Caught(g, T, r).blocks = T
         /\ Caught(g, T, r).revision = IF g.revision = r THEN r + 1 ELSE g.revision
  <1>1. PICK m : m = IF g.revision = r THEN r + 1 ELSE g.revision
    OBVIOUS
  <1>2. m \in Nat
    BY <1>1 DEF PageRec
  <1>3. Caught(g, T, r) = [g EXCEPT !.blocks = T, !.revision = m]
    BY <1>1 DEF Caught
  <1>4. PICK h : h = [g EXCEPT !.blocks = T, !.revision = m]
    OBVIOUS
  <1>5. h \in PageRec /\ h.entry = g.entry /\ h.blocks = T /\ h.revision = m
    BY <1>2, <1>4 DEF PageRec
  <1> QED
    BY <1>1, <1>3, <1>4, <1>5

\* A request ends with a write of e that leaves the pages of one editor T.
Ended(p, u, e, S, T) ==
    /\ edit[p].at # "idle" /\ edit[p].entry = e /\ e \in Created
    /\ Turned(p, NoEdit) /\ Wrote(e, S, revision[e]) /\ Typed' /\ born' = born /\ lastSaved' = lastSaved
    /\ IF pages[u].entry # e THEN pages' = pages
       ELSE Paged(u, Caught(pages[u], T, revision[e]))

LEMMA EndedLists ==
  ASSUME Ground, Lists, IdsInv', NEW p \in EditThreads, NEW u \in Editors, NEW e \in EntryIds,
         NEW S \in SUBSET BlockDoc, NEW T \in SUBSET BlockDoc, Ended(p, u, e, S, T), KeyOnce(S), KeyOnce(T),
         \A d \in EntryIds : d # e => wanted'[d] = wanted[d],
         \A k, i \in 0 .. MaxIds : k = 0 /\ Has(S, k, i) => Has(entries[e].blocks, k, i),
         \A k, i \in 0 .. MaxIds : k = 0 /\ Somewhere(e, k, i)' => Somewhere(e, k, i),
         pages[u].entry = e /\ Same(pages[u].blocks, entries[e].blocks) => Same(T, S),
         Live(e) => Keys(S) = wanted'[e]
  PROVE  Ground' /\ Lists'
  <1>0. EntryTypes /\ BornInv /\ KeysInv /\ IdsInv /\ OldIdInv /\ FreshInv /\ WantInv
    BY DEF Ground, Lists
  <1>1. /\ revision \in [EntryIds -> Nat \ {0}] /\ edit \in [EditThreads -> EditRec] /\ pages \in [Editors -> PageRec]
        /\ lastDrawn \in 0 .. MaxIds /\ entries \in [EntryIds -> EntryRec] /\ MaxIds \in Nat
    BY <1>0, EntryTyped, EntriesAssumption
  <1>2. /\ edit[p].at # "idle" /\ edit[p].entry = e /\ e \in Created
        /\ Turned(p, NoEdit) /\ Wrote(e, S, revision[e]) /\ Typed' /\ born' = born /\ lastSaved' = lastSaved
    BY DEF Ended
  <1>3. PICK base \in Nat : base = revision[e]
    BY <1>1
  <1>4. Wrote(e, S, base)
    BY <1>2, <1>3
  <1>5. \A q \in EditThreads : edit'[q] = edit[q] \/ edit'[q] = NoEdit
    BY <1>2 DEF Turned
  <1>6. PICK g : g = Caught(pages[u], T, base)
    OBVIOUS
  <1>7. /\ g \in PageRec /\ g.entry = pages[u].entry /\ g.blocks = T
        /\ g.revision = IF pages[u].revision = base THEN base + 1 ELSE pages[u].revision
    BY <1>1, <1>3, <1>6, CaughtPage
  <1>8. \A v \in Editors : pages'[v] = pages[v] \/ (v = u /\ pages[v].entry = e /\ pages'[v] = g)
    BY <1>3, <1>6 DEF Ended, Paged
  <1>9. Touches(e) /\ (\A q \in EditThreads : Follows(q))
        /\ \A v \in Editors : pages'[v] = pages[v] \/ (pages'[v].entry \in EntryIds /\ pages'[v].entry \in Created)
    <2>1. Touches(e)
      BY <1>5, <1>7, <1>8 DEF Touches
    <2>2. \A q \in EditThreads : Follows(q)
      BY <1>5 DEF Follows
    <2> QED
      BY <1>2, <1>7, <1>8, <2>1, <2>2
  <1>10. Ground'
    BY <1>2, <1>9, WroteGround
  <1>11. pages[u].entry = e => g.revision <= base + 1 /\ (g.revision = base + 1 => pages[u].revision = base)
    <2>1. pages[u].entry = e => pages[u].revision <= base
      BY <1>0, <1>3 DEF FreshInv
    <2>2. pages[u].revision \in Nat
      BY <1>1 DEF PageRec
    <2> QED
      BY <1>3, <1>7, <2>1, <2>2
  <1>12. \A v \in Editors : KeyOnce(pages'[v].blocks) /\ (pages'[v] # pages[v] => pages'[v].revision <= revision[e] + 1)
    BY <1>0, <1>3, <1>7, <1>8, <1>11 DEF KeysInv
  <1>13. \A q \in EditThreads : KeyOnce(edit'[q].blocks) /\ edit'[q].todo \subseteq Pending(edit'[q].blocks)
    BY <1>0, <1>5, EntryValues DEF KeysInv, KeyOnce, Pending
  <1>14. ASSUME Live(e)
         PROVE  /\ \A i, j \in 0 .. MaxIds : Has(S, 0, i) /\ Somewhere(e, 0, j)' /\ j # 0 => i = j
                /\ \A v \in Editors :
                      pages'[v] # pages[v] /\ pages'[v].revision = revision[e] + 1 => Same(pages'[v].blocks, S)
                /\ Keys(S) = wanted'[e]
    <2>1. ASSUME NEW i \in 0 .. MaxIds, NEW j \in 0 .. MaxIds, Has(S, 0, i), Somewhere(e, 0, j)', j # 0 PROVE i = j
      <3>1. Has(entries[e].blocks, 0, i) /\ Somewhere(e, 0, j)
        BY <1>1, <2>1
      <3> QED
        BY <1>0, <1>14, <2>1, <3>1 DEF OldIdInv
    <2>2. ASSUME NEW v \in Editors, pages'[v] # pages[v], pages'[v].revision = revision[e] + 1
          PROVE  Same(pages'[v].blocks, S)
      <3>1. v = u /\ pages[u].entry = e /\ pages'[u] = g
        BY <1>8, <2>2
      <3>2. pages[u].revision = revision[e]
        BY <1>3, <1>11, <2>2, <3>1
      <3>3. Same(pages[u].blocks, entries[e].blocks)
        BY <1>0, <1>14, <3>1, <3>2 DEF FreshInv, FreshPage
      <3> QED
        BY <1>7, <3>1, <3>3
    <2> QED
      BY <1>14, <2>1, <2>2
  <1>15. \A q \in EditThreads : edit'[q] # edit[q] => edit'[q] = NoEdit
    BY <1>5
  <1>16. Lists'
    BY <1>2, <1>3, <1>4, <1>9, <1>12, <1>13, <1>14, <1>15, WriteLists
  <1> QED
    BY <1>10, <1>16

LEMMA EndedSomewhere ==
  ASSUME EntryTypes, NEW p \in EditThreads, NEW u \in Editors, NEW e \in EntryIds,
         NEW S \in SUBSET BlockDoc, NEW T \in SUBSET BlockDoc, Ended(p, u, e, S, T),
         NEW d \in EntryIds, NEW k \in 0 .. MaxIds, NEW i \in 0 .. MaxIds, Somewhere(d, k, i)'
  PROVE  Somewhere(d, k, i) \/ (d = e /\ (Has(S, k, i) \/ (pages[u].entry = e /\ Has(T, k, i))))
  <1>1. /\ Turned(p, NoEdit) /\ Wrote(e, S, revision[e]) /\ revision[e] \in Nat /\ pages[u] \in PageRec
    BY EntryTyped DEF Ended
  <1>2. PICK g : g = Caught(pages[u], T, revision[e])
    OBVIOUS
  <1>3. g.entry = pages[u].entry /\ g.blocks = T
    BY <1>1, <1>2, CaughtPage
  <1>4. \A v \in Editors : pages'[v] = pages[v] \/ (v = u /\ pages[v].entry = e /\ pages'[v] = g)
    BY <1>2 DEF Ended, Paged
  <1>5. \A q \in EditThreads : edit'[q].entry = d => edit'[q] = edit[q]
    BY <1>1, EntryValues, EntriesAssumption DEF Turned
  <1>6. entries'[d].blocks = entries[d].blocks \/ (d = e /\ entries'[d].blocks = S)
    BY <1>1 DEF Wrote
  <1>7. CASE Has(entries'[d].blocks, k, i)
    BY <1>6, <1>7 DEF Somewhere
  <1>8. CASE \E v \in Editors : pages'[v].entry = d /\ Has(pages'[v].blocks, k, i)
    BY <1>3, <1>4, <1>8 DEF Somewhere
  <1>9. CASE \E q \in EditThreads : edit'[q].entry = d /\ (Has(edit'[q].blocks, k, i) \/ Has({edit'[q].block}, k, i))
    BY <1>5, <1>9 DEF Somewhere
  <1> QED
    BY <1>7, <1>8, <1>9 DEF Somewhere

LEMMA EndedShown ==
  ASSUME Ground, Lists, Galleried, NEW p \in EditThreads, NEW u \in Editors, NEW e \in EntryIds,
         NEW S, NEW T \in SUBSET BlockDoc, Ended(p, u, e, S, T), edit[p].at \notin Writing, galleries' = galleries,
         lastDrawn' \in 0 .. MaxIds, lastDrawn <= lastDrawn',
         \A b \in S : b \in entries[e].blocks \/ (b.pics = 0 /\ b.gallery = 0),
         pages[u].entry = e => \A b \in T : b \in pages[u].blocks \/ (b.pics = 0 /\ b.gallery = 0)
  PROVE  Galleried'
  <1>0. EntryTypes /\ SyncInv /\ FreshInv
    BY DEF Ground, Galleried, Lists
  <1>1. /\ edit[p].entry = e /\ Turned(p, NoEdit) /\ Wrote(e, S, revision[e]) /\ revision[e] \in Nat /\ pages[u] \in PageRec
    BY <1>0, EntryTyped DEF Ended
  <1>2. PICK g : g = Caught(pages[u], T, revision[e])
    OBVIOUS
  <1>3. g.entry = pages[u].entry /\ g.blocks = T
    BY <1>1, <1>2, CaughtPage
  <1>4. \A v \in Editors : pages'[v] = pages[v] \/ (v = u /\ pages[v].entry = e /\ pages'[v] = g)
    BY <1>2 DEF Ended, Paged
  <1>5. \A q \in EditThreads : edit'[q] = edit[q] \/ (edit[q].entry = e /\ edit'[q] = NoEdit)
    BY <1>1 DEF Turned
  <1>6. Touches(e)
    BY <1>3, <1>4, <1>5 DEF Touches
  <1>7. SyncAt(e)'
    <2>1. \A b \in S : b \in entries[e].blocks \/ InSync(b)
      BY DEF InSync
    <2> QED
      BY <1>0, <1>1, <2>1, EndedSync DEF SyncInv
  <1>8. \A k \in 0 .. MaxIds, x \in 1 .. MaxIds : Shows(S, k, x) => GalleryAt(e, k, x)
    BY DEF Shows, GalleryAt
  <1>9. pages[u].entry = e => \A k \in 0 .. MaxIds, x \in 1 .. MaxIds : Shows(T, k, x) => GalleryAt(e, k, x)
    BY DEF Shows, GalleryAt
  <1>10. PICK base : base = revision[e]
    OBVIOUS
  <1>11. Wrote(e, S, base)
    BY <1>1, <1>10
  <1> QED
    BY <1>3, <1>4, <1>5, <1>6, <1>7, <1>8, <1>9, <1>11, WroteShown

LEMMA PushStep ==
  ASSUME Ground, Lists, NEW p \in EditThreads, PushBlock(p)
  PROVE  Ground' /\ Lists' /\ (Galleried => Galleried')
  <1>0. EntryTypes /\ BornInv /\ KeysInv /\ IdsInv /\ WantInv
    BY DEF Ground, Lists
  <1>1. /\ edit[p] \in EditRec /\ lastDrawn \in 0 .. MaxIds /\ entries \in [EntryIds -> EntryRec]
        /\ pages \in [Editors -> PageRec] /\ MaxIds \in Nat /\ MaxPics \in Nat /\ revision \in [EntryIds -> Nat \ {0}]
    BY <1>0, EntryTyped, EntriesAssumption
  <1>2. PICK e \in EntryIds, u \in Editors : e = edit[p].entry /\ u = edit[p].user /\ e \in Created /\ edit[p].at = "push"
    BY <1>0 DEF PushBlock, EntryTypes, BornInv
  <1>3. PICK n \in 1 .. MaxIds : n = lastDrawn + 1 /\ lastDrawn' = n
    BY <1>1 DEF PushBlock
  <1>4. PICK b : b = [id |-> n, key |-> n, kind |-> edit[p].kind, pics |-> 0, gallery |-> 0]
    OBVIOUS
  <1>5. b \in BlockDoc /\ b.key = n /\ b.id = n
    BY <1>1, <1>3, <1>4 DEF BlockDoc, EditRec
  <1>6. PICK E, P : E = entries[e].blocks /\ P = pages[u].blocks
    OBVIOUS
  <1>7. E \in SUBSET BlockDoc /\ KeyOnce(E) /\ P \in SUBSET BlockDoc /\ KeyOnce(P)
    BY <1>0, <1>1, <1>6 DEF EntryRec, PageRec, KeysInv
  <1>8. /\ \A k, i \in 0 .. MaxIds : Has(E, k, i) => Somewhere(e, k, i)
        /\ pages[u].entry = e => \A k, i \in 0 .. MaxIds : Has(P, k, i) => Somewhere(e, k, i)
    BY <1>6 DEF Somewhere
  <1>9. PICK S, T : S = E \cup {b} /\ T = P \cup {b}
    OBVIOUS
  <1>10. /\ S \in SUBSET BlockDoc /\ KeyOnce(S) /\ Keys(S) = Keys(E) \cup {n}
         /\ \A k, i \in 0 .. MaxIds : Has(S, k, i) <=> Has(E, k, i) \/ (k = n /\ i = n)
    BY <1>0, <1>1, <1>3, <1>5, <1>7, <1>8, <1>9, PushedList
  <1>11. pages[u].entry = e =>
            /\ T \in SUBSET BlockDoc /\ KeyOnce(T)
            /\ \A k, i \in 0 .. MaxIds : Has(T, k, i) <=> Has(P, k, i) \/ (k = n /\ i = n)
    BY <1>0, <1>1, <1>3, <1>5, <1>7, <1>8, <1>9, PushedList
  <1>12. /\ WriteBlocks(e, S, revision[e])
         /\ wanted' = IF entries[e].exists THEN [wanted EXCEPT ![e] = @ \cup {n}] ELSE wanted
         /\ pages' = IF pages[u].entry # e THEN pages ELSE [pages EXCEPT ![u] = Caught(pages[u], T, revision[e])]
         /\ DoneEdit(p) /\ UNCHANGED <<born, galleries, lastSaved>>
    BY <1>1, <1>2, <1>3, <1>4, <1>5, <1>6, <1>9 DEF PushBlock
  <1>13. PICK U : U = IF pages[u].entry = e THEN T ELSE {}
    OBVIOUS
  <1>14. U \in SUBSET BlockDoc /\ KeyOnce(U) /\ (pages[u].entry = e => U = T)
    BY <1>11, <1>13 DEF KeyOnce
  <1>15. Wrote(e, S, revision[e]) /\ Turned(p, NoEdit)
    BY <1>0, <1>10, <1>12, WriteWrote, DoneTurns
  <1>16. wanted \in [EntryIds -> SUBSET Nat] /\ wanted' \in [EntryIds -> SUBSET Nat]
         /\ (entries[e].exists => wanted'[e] = wanted[e] \cup {n})
         /\ \A d \in EntryIds : d # e => wanted'[d] = wanted[d]
    <2>1. wanted \in [EntryIds -> SUBSET Nat] /\ n \in Nat
      BY <1>0, <1>3 DEF EntryTypes
    <2> QED
      BY <1>12, <2>1
  <1>17. pages' \in [Editors -> PageRec] /\ (pages[u].entry = e => Paged(u, Caught(pages[u], U, revision[e])))
        /\ (pages[u].entry # e => pages' = pages)
    <2>1. CASE pages[u].entry = e
      <3>1. Caught(pages[u], T, revision[e]) \in PageRec
        BY <1>1, <1>11, <2>1, CaughtPage
      <3> QED
        BY <1>1, <1>12, <1>14, <2>1, <3>1 DEF Paged
    <2>2. CASE pages[u].entry # e
      BY <1>1, <1>12, <2>2
    <2> QED
      BY <2>1, <2>2
  <1>18. Typed'
    <2>1. overlapped' \subseteq EntryIds /\ entries' \in [EntryIds -> EntryRec] /\ revision' \in [EntryIds -> Nat \ {0}]
      BY <1>0, <1>15, EntryTyped DEF Wrote
    <2> QED
      BY <1>3, <1>15, <1>16, <1>17, <2>1 DEF Typed, Turned
  <1>19. Ended(p, u, e, S, U)
    BY <1>2, <1>12, <1>15, <1>17, <1>18 DEF Ended
  <1>20. \A d \in EntryIds : \A k, i \in 0 .. MaxIds : Somewhere(d, k, i)' => Somewhere(d, k, i) \/ (k = n /\ i = n)
    <2> SUFFICES ASSUME NEW d \in EntryIds, NEW k \in 0 .. MaxIds, NEW i \in 0 .. MaxIds, Somewhere(d, k, i)'
                 PROVE  Somewhere(d, k, i) \/ (k = n /\ i = n)
      OBVIOUS
    <2>1. Somewhere(d, k, i) \/ (d = e /\ (Has(S, k, i) \/ (pages[u].entry = e /\ Has(U, k, i))))
      <3>1. EntryTypes /\ S \in SUBSET BlockDoc /\ U \in SUBSET BlockDoc
        BY <1>0, <1>10, <1>14
      <3> QED
        BY <1>19, <3>1, EndedSomewhere, ZenonT(30)
    <2> QED
      BY <1>8, <1>10, <1>11, <1>14, <2>1
  <1>21. IdsInv'
    BY <1>0, <1>1, <1>3, <1>20, IdsDrawKey
  <1>22. \A k, i \in 0 .. MaxIds : k = 0 /\ Has(S, k, i) => Has(E, k, i)
    BY <1>3, <1>10
  <1>23. \A k, i \in 0 .. MaxIds : k = 0 /\ Somewhere(e, k, i)' => Somewhere(e, k, i)
    BY <1>3, <1>20
  <1>24. pages[u].entry = e /\ Same(P, E) => Same(U, S)
    BY <1>10, <1>11, <1>14 DEF Same
  <1>25. Live(e) => Keys(S) = wanted'[e]
    BY <1>0, <1>6, <1>10, <1>16 DEF WantInv, Live
  <1>26. Galleried => Galleried'
    <2>1. \A c \in S : c \in entries[e].blocks \/ (c.pics = 0 /\ c.gallery = 0)
      BY <1>4, <1>6, <1>9
    <2>2. pages[u].entry = e => \A c \in U : c \in pages[u].blocks \/ (c.pics = 0 /\ c.gallery = 0)
      BY <1>4, <1>6, <1>9, <1>14
    <2>3. edit[p].at \notin Writing
      BY <1>2 DEF Writing
    <2>4. lastDrawn' \in 0 .. MaxIds /\ lastDrawn <= lastDrawn'
      BY <1>1, <1>3
    <2> QED
      BY <1>12, <1>14, <1>19, <2>1, <2>2, <2>3, <2>4, EndedShown
  <1> QED
    BY <1>6, <1>10, <1>14, <1>16, <1>19, <1>21, <1>22, <1>23, <1>24, <1>25, <1>26, EndedLists

LEMMA PullStep ==
  ASSUME Ground, Lists, NEW p \in EditThreads, PullBlock(p)
  PROVE  Ground' /\ Lists' /\ (Galleried => Galleried')
  <1>0. EntryTypes /\ BornInv /\ KeysInv /\ IdsInv /\ OldIdInv /\ WantInv
    BY DEF Ground, Lists
  <1>1. /\ edit[p] \in EditRec /\ lastDrawn \in 0 .. MaxIds /\ entries \in [EntryIds -> EntryRec]
        /\ pages \in [Editors -> PageRec] /\ revision \in [EntryIds -> Nat \ {0}] /\ MaxIds \in Nat
    BY <1>0, EntryTyped, EntriesAssumption
  <1>2. PICK e \in EntryIds, u \in Editors : e = edit[p].entry /\ u = edit[p].user /\ e \in Created /\ edit[p].at = "pull"
    BY <1>0 DEF PullBlock, EntryTypes, BornInv
  <1>3. PICK x, y : x = edit[p].block.id /\ y = edit[p].block.key
    OBVIOUS
  <1>4. x \in 0 .. MaxIds /\ y \in 0 .. MaxIds /\ x # 0 /\ Somewhere(e, y, x)
    <2>1. x # 0
      BY <1>0, <1>2, <1>3 DEF WantInv
    <2>2. x \in 0 .. MaxIds /\ y \in 0 .. MaxIds
      BY <1>1, <1>3 DEF EditRec, BlockDoc
    <2> QED
      BY <1>2, <1>3, <2>1, <2>2 DEF Somewhere, Has
  <1>5. PICK E, P : E = entries[e].blocks /\ P = pages[u].blocks
    OBVIOUS
  <1>6. E \in SUBSET BlockDoc /\ KeyOnce(E) /\ P \in SUBSET BlockDoc /\ KeyOnce(P)
    BY <1>0, <1>1, <1>5 DEF EntryRec, PageRec, KeysInv
  <1>7. PICK S, T : S = {c \in E : c.id # x} /\ T = {c \in P : c.id # x}
    OBVIOUS
  <1>8. /\ S \in SUBSET BlockDoc /\ KeyOnce(S) /\ T \in SUBSET BlockDoc /\ KeyOnce(T)
        /\ \A k, i \in 0 .. MaxIds : Has(S, k, i) <=> Has(E, k, i) /\ i # x
        /\ \A k, i \in 0 .. MaxIds : Has(T, k, i) <=> Has(P, k, i) /\ i # x
    BY <1>6, <1>7 DEF KeyOnce, Has
  <1>9. /\ WriteBlocks(e, S, revision[e])
        /\ wanted' = [wanted EXCEPT ![e] = @ \ {y}]
        /\ pages' = IF pages[u].entry # e THEN pages ELSE [pages EXCEPT ![u] = Caught(pages[u], T, revision[e])]
        /\ DoneEdit(p) /\ UNCHANGED <<born, galleries, lastDrawn, lastSaved>>
    BY <1>1, <1>2, <1>3, <1>5, <1>7 DEF PullBlock
  <1>10. Wrote(e, S, revision[e]) /\ Turned(p, NoEdit)
    BY <1>0, <1>8, <1>9, WriteWrote, DoneTurns
  <1>11. wanted' \in [EntryIds -> SUBSET Nat] /\ wanted'[e] = wanted[e] \ {y}
         /\ \A d \in EntryIds : d # e => wanted'[d] = wanted[d]
    <2>1. wanted \in [EntryIds -> SUBSET Nat]
      BY <1>0 DEF EntryTypes
    <2> QED
      BY <1>9, <2>1
  <1>12. pages' \in [Editors -> PageRec] /\ (pages[u].entry = e => Paged(u, Caught(pages[u], T, revision[e])))
         /\ (pages[u].entry # e => pages' = pages)
    <2>1. Caught(pages[u], T, revision[e]) \in PageRec
      BY <1>1, <1>8, CaughtPage
    <2> QED
      BY <1>1, <1>9, <2>1 DEF Paged
  <1>13. Typed'
    <2>1. overlapped' \subseteq EntryIds /\ entries' \in [EntryIds -> EntryRec] /\ revision' \in [EntryIds -> Nat \ {0}]
      BY <1>0, <1>10, EntryTyped DEF Wrote
    <2>2. lastDrawn' \in 0 .. MaxIds
      BY <1>1, <1>9
    <2> QED
      BY <1>10, <1>11, <1>12, <2>1, <2>2 DEF Typed, Turned
  <1>14. Ended(p, u, e, S, T)
    BY <1>2, <1>9, <1>10, <1>12, <1>13 DEF Ended
  <1>15. \A d \in EntryIds : \A k, i \in 0 .. MaxIds : Somewhere(d, k, i)' => Somewhere(d, k, i)
    <2> SUFFICES ASSUME NEW d \in EntryIds, NEW k \in 0 .. MaxIds, NEW i \in 0 .. MaxIds, Somewhere(d, k, i)'
                 PROVE  Somewhere(d, k, i)
      OBVIOUS
    <2>1. Somewhere(d, k, i) \/ (d = e /\ (Has(S, k, i) \/ (pages[u].entry = e /\ Has(T, k, i))))
      BY <1>0, <1>8, <1>14, EndedSomewhere
    <2>2. Has(S, k, i) => Somewhere(e, k, i)
      BY <1>5, <1>8 DEF Somewhere
    <2>3. pages[u].entry = e /\ Has(T, k, i) => Somewhere(e, k, i)
      BY <1>5, <1>8 DEF Somewhere
    <2> QED
      BY <2>1, <2>2, <2>3
  <1>16. IdsInv'
    BY <1>0, <1>1, <1>9, <1>15, IdsKeep
  <1>17. Same(P, E) => Same(T, S)
    BY <1>8 DEF Same
  <1>18. ASSUME Live(e) PROVE Keys(S) = wanted'[e]
    <2>1. ASSUME NEW c \in E PROVE c.id = x <=> c.key = y
      <3>1. c.id \in 0 .. MaxIds /\ c.key \in 0 .. MaxIds
        BY <1>6 DEF BlockDoc
      <3>2. Has(E, c.key, c.id) /\ Somewhere(e, c.key, c.id)
        BY <1>5 DEF Has, Somewhere
      <3>3. /\ c.key # 0 => c.id = c.key
            /\ c.key = 0 /\ c.id # 0 => ~Somewhere(e, c.id, c.id)
        BY <1>0, <3>1, <3>2 DEF IdsInv
      <3>4. /\ y # 0 => x = y
            /\ y = 0 => ~Somewhere(e, x, x)
        BY <1>0, <1>4 DEF IdsInv
      <3>5. c.key = 0 /\ y = 0 => c.id = x
        BY <1>0, <1>4, <1>5, <1>18, <3>1, <3>2 DEF OldIdInv
      <3> QED
        BY <1>4, <3>2, <3>3, <3>4, <3>5
    <2>2. Keys(S) = Keys(E) \ {y}
      BY <1>7, <2>1 DEF Keys
    <2> QED
      BY <1>0, <1>5, <1>11, <1>18, <2>2 DEF WantInv
  <1>19. \A k, i \in 0 .. MaxIds : k = 0 /\ Has(S, k, i) => Has(E, k, i)
    BY <1>8
  <1>20. Galleried => Galleried'
    <2>1. \A c \in S : c \in entries[e].blocks
      BY <1>5, <1>7
    <2>2. \A c \in T : c \in pages[u].blocks
      BY <1>5, <1>7
    <2>3. edit[p].at \notin Writing
      BY <1>2 DEF Writing
    <2>4. lastDrawn' \in 0 .. MaxIds /\ lastDrawn <= lastDrawn'
      BY <1>1, <1>9
    <2> QED
      BY <1>8, <1>9, <1>14, <2>1, <2>2, <2>3, <2>4, EndedShown
  <1> QED
    BY <1>5, <1>8, <1>11, <1>14, <1>15, <1>16, <1>17, <1>18, <1>19, <1>20, EndedLists

LEMMA EntriesInitInv == ASSUME EntriesInit PROVE EntriesIInv
  <1> USE EntriesAssumption
  <1>1. PICK old \in {{}} \cup {{e} : e \in EntryIds} :
           /\ entries = [e \in EntryIds |->
                          IF e \in old THEN [Absent EXCEPT !.exists = TRUE, !.by = CHOOSE u \in Managers : TRUE, !.blocks = {OldBlock}]
                          ELSE Absent]
           /\ born = IF old = {} THEN <<>> ELSE <<CHOOSE e \in old : TRUE>>
           /\ wanted = [e \in EntryIds |-> IF e \in old THEN {OldBlock.key} ELSE {}]
    BY DEF EntriesInit
  <1>2. /\ lastDrawn = 0 /\ pages = [u \in Editors |-> NoPage] /\ edit = [p \in EditThreads |-> NoEdit]
        /\ revision = [e \in EntryIds |-> 1] /\ overlapped = {}
        /\ lastSaved = [e \in EntryIds |-> [meta |-> Meta(Absent), closed |-> FALSE]]
    BY DEF EntriesInit
  <1>3. PICK x : x = [Absent EXCEPT !.exists = TRUE, !.by = CHOOSE u \in Managers : TRUE, !.blocks = {OldBlock}]
    OBVIOUS
  <1>4. x \in EntryRec /\ x.exists /\ x.blocks = {OldBlock} /\ Meta(x) = Meta(Absent) /\ x.closed = FALSE
        /\ x.by \in Managers
    <2>1. PICK m : m = CHOOSE u \in Managers : TRUE
      OBVIOUS
    <2>2. m \in Managers
      BY <2>1
    <2> QED
      BY <1>3, <2>1, <2>2, EntryValues DEF Absent, EntryRec, Editors, Meta
  <1>5. old \subseteq EntryIds /\ \A e \in EntryIds : entries[e] = IF e \in old THEN x ELSE Absent
    <2>1. old \subseteq EntryIds
      OBVIOUS
    <2>2. entries = [e \in EntryIds |-> IF e \in old THEN x ELSE Absent]
      BY <1>1, <1>3
    <2> QED
      BY <2>1, <2>2
  <1>6. /\ \A e \in EntryIds : entries[e].exists <=> e \in old
        /\ \A e \in EntryIds : entries[e].blocks = IF e \in old THEN {OldBlock} ELSE {}
        /\ \A e \in EntryIds : wanted[e] = IF e \in old THEN {0} ELSE {}
    BY <1>1, <1>4, <1>5, EntryValues
  <1>7. born \in Seq(EntryIds) /\ Created = old /\ \A i, j \in DOMAIN born : born[i] = born[j] => i = j
    <2>1. CASE old = {}
      BY <1>1, <2>1 DEF Created
    <2>2. CASE old # {}
      <3>1. PICK e \in EntryIds : old = {e}
        BY <2>2
      <3>2. (CHOOSE d \in old : TRUE) = e
        BY <3>1
      <3>3. born = <<e>>
        BY <1>1, <2>2, <3>2
      <3> QED
        BY <3>1, <3>3 DEF Created
    <2> QED
      BY <2>1, <2>2
  <1>8. entries \in [EntryIds -> EntryRec]
    BY <1>1, <1>3, <1>4, EntryValues
  <1>9. EntryTypes
    <2>1. EntriesTypeOK
      BY <1>2, <1>8 DEF EntriesTypeOK, EntryRec, BlockDoc
    <2>2. edit \in [EditThreads -> EditRec] /\ pages \in [Editors -> PageRec] /\ revision \in [EntryIds -> Nat \ {0}]
      BY <1>2, EntryValues
    <2>3. wanted \in [EntryIds -> SUBSET Nat]
      <3>1. {OldBlock.key} \in SUBSET Nat
        BY EntryValues
      <3> QED
        BY <1>1, <3>1
    <2>4. lastSaved \in [EntryIds -> [meta : Links \X Types \X BOOLEAN, closed : BOOLEAN]]
      BY <1>2 DEF Meta, Absent, Types
    <2> QED
      BY <1>2, <1>7, <2>1, <2>2, <2>3, <2>4, EntryValues DEF EntryTypes
  <1>10. BornInv
    BY <1>2, <1>5, <1>6, <1>7, EntryValues DEF BornInv
  <1>11. OwnInv
    BY <1>2, EntryValues DEF OwnInv
  <1>12. SavedKept
    BY <1>2, <1>4, <1>5, <1>6, EntryValues DEF SavedKept
  <1>13. \A e \in EntryIds, k, i \in 0 .. MaxIds : Somewhere(e, k, i) => k = 0 /\ i = 0
    BY <1>2, <1>6, EntryValues DEF Somewhere, Has
  <1>14. KeysInv
    <2>1. KeyOnce({}) /\ KeyOnce({OldBlock}) /\ {} \subseteq Pending({})
      BY DEF KeyOnce
    <2>2. \A u \in Editors : pages[u].blocks = {}
      BY <1>2 DEF NoPage
    <2>3. \A p \in EditThreads : edit[p].blocks = {} /\ edit[p].todo = {}
      BY <1>2, EntryValues
    <2> QED
      BY <1>6, <2>1, <2>2, <2>3 DEF KeysInv
  <1>15. IdsInv
    BY <1>2, <1>13 DEF IdsInv
  <1>16. OldIdInv
    BY <1>13 DEF OldIdInv
  <1>17. FreshInv
    BY <1>2, EntryValues DEF FreshInv, FreshPage, FreshEdit
  <1>18. WantInv
    BY <1>2, <1>6, <1>7, EntryValues DEF WantInv, Keys
  <1>19. galleries = [g \in {} |-> [entry |-> "none", pics |-> 0]]
    BY DEF EntriesInit
  <1>20. GalleryInv
    <2>1. \A e \in EntryIds, k \in 0 .. MaxIds, g \in 1 .. MaxIds : ~GalleryAt(e, k, g)
      BY <1>2, <1>6, EntryValues DEF GalleryAt, Shows, OldBlock, NoPage
    <2>2. DOMAIN galleries = {}
      BY <1>19
    <2>3. galleries \in [DOMAIN galleries -> [entry : EntryIds, pics : 1 .. MaxPics]]
      BY <1>19, <2>2
    <2> QED
      BY <2>1, <2>2, <2>3 DEF GalleryInv
  <1>21. SyncInv
    <2>1. \A p \in EditThreads, e \in EntryIds : ~Writer(p, e)
      BY <1>2, EntryValues DEF Writer
    <2>2. \A e \in EntryIds : \A b \in entries[e].blocks : InSync(b)
      BY <1>6 DEF InSync, OldBlock
    <2> QED
      BY <2>1, <2>2 DEF SyncInv, SyncAt
  <1> QED
    BY <1>9, <1>10, <1>11, <1>12, <1>14, <1>15, <1>16, <1>17, <1>18, <1>20, <1>21 DEF Ground, Lists, Galleried, EntriesIInv

LEMMA StutterStep == ASSUME Ground, Lists, UNCHANGED entryVars PROVE Ground' /\ Lists' /\ (Galleried => Galleried')
  <1>1. /\ UNCHANGED <<entries, born, pages, revision, overlapped, wanted, lastDrawn, edit, lastSaved>>
    BY DEF entryVars
  <1>2. Typed'
    BY <1>1, TypedNow DEF Typed, Ground
  <1>3. \A p \in EditThreads : Follows(p)
    BY <1>1 DEF Follows
  <1>4. Ground'
    BY <1>1, <1>2, <1>3, GroundKeeps
  <1>5. Lists'
    BY <1>1, QuietLists
  <1>6. ASSUME Galleried PROVE Galleried'
    <2>1. galleries' = galleries
      BY DEF entryVars
    <2>2. \A d \in EntryIds : Live(d)' => Live(d)
      BY <1>1 DEF Live
    <2> QED
      BY <1>1, <1>6, <2>1, <2>2, QuietShown
  <1> QED
    BY <1>4, <1>5, <1>6

\* What an editor posts, and what a request then does.
Posts(p, u) ==
    \/ \E e \in EntryIds : CreateEntry(p, u, e) \/ DeleteEntry(p, u, e)
    \/ \E link \in Links, type \in Types, enabled \in BOOLEAN : PostMeta(p, u, link, type, enabled)
    \/ \E closed \in BOOLEAN : PostHeader(p, u, closed)
    \/ PostContent(p, u)
    \/ \E kind \in {"text", "gallery"} : PostBlock(p, u, kind)
    \/ pages[u] # NoPage /\ \E b \in pages[u].blocks : PostBlockDelete(p, u, b)

Serves(p) ==
    \/ UpdateMeta(p) \/ UpdateHeader(p) \/ UpdateContent(p) \/ SaveGallery(p) \/ RewriteContent(p) \/ AnswerContent(p)
    \/ PushBlock(p) \/ PullBlock(p)

Browses ==
    \/ \E u \in Editors, e \in EntryIds : OpenEditor(u, e)
    \/ \E u \in Editors : pages[u] # NoPage /\ \E b \in pages[u].blocks, n \in 0 .. MaxPics : ChoosePictures(u, b, n)

LEMMA EntriesSteps ==
  ASSUME EntriesNext
  PROVE  \/ Browses
         \/ \E p \in EditThreads, u \in Editors : Idling(p) /\ Posts(p, u)
         \/ \E p \in EditThreads : Serves(p)
  BY DEF EntriesNext, Browses, Posts, Serves

LEMMA EntriesNextInv ==
  ASSUME Ground, Lists, [EntriesNext]_entryVars
  PROVE  Ground' /\ Lists' /\ (Galleried => Galleried')
  <1>1. CASE UNCHANGED entryVars
    BY <1>1, StutterStep
  <1>2. CASE Browses
    BY <1>2, OpenStep, ChooseStep DEF Browses
  <1>3. ASSUME NEW p \in EditThreads, NEW u \in Editors, Posts(p, u)
        PROVE  Ground' /\ Lists' /\ (Galleried => Galleried')
    <2>1. CASE \E e \in EntryIds : CreateEntry(p, u, e) \/ DeleteEntry(p, u, e)
      BY <2>1, CreateStep, DeleteStep
    <2>2. CASE \/ \E link \in Links, type \in Types, enabled \in BOOLEAN : PostMeta(p, u, link, type, enabled)
               \/ \E closed \in BOOLEAN : PostHeader(p, u, closed)
               \/ PostContent(p, u)
               \/ \E kind \in {"text", "gallery"} : PostBlock(p, u, kind)
               \/ \E b \in pages[u].blocks : PostBlockDelete(p, u, b)
      BY <2>2, PostsStep
    <2> QED
      BY <1>3, <2>1, <2>2 DEF Posts
  <1>4. ASSUME NEW p \in EditThreads, Serves(p)
        PROVE  Ground' /\ Lists' /\ (Galleried => Galleried')
    BY <1>4, MetaStep, UpdateContentStep, SaveGalleryStep, RewriteStep, AnswerStep, PushStep, PullStep DEF Serves
  <1>5. EntriesNext \/ UNCHANGED entryVars
    OBVIOUS
  <1> QED
    BY <1>1, <1>2, <1>3, <1>4, <1>5, EntriesSteps

\* The inductive invariant.
LEMMA EntriesInductive == EntriesSpec => []EntriesIInv
  <1>1. EntriesInit => EntriesIInv
    BY EntriesInitInv
  <1>2. EntriesIInv /\ [EntriesNext]_entryVars => EntriesIInv'
    BY EntriesNextInv DEF EntriesIInv
  <1> QED
    BY <1>1, <1>2, PTL DEF EntriesSpec

\* The invariant gives what the editors were promised.
LEMMA KeptFollows == ASSUME Ground, Lists PROVE EditsKept
  <1>0. EntryTypes /\ SavedKept /\ KeysInv /\ IdsInv /\ WantInv
    BY DEF Ground, Lists
  <1>1. EntriesTypeOK
    BY <1>0 DEF EntryTypes
  <1>2. BlocksKept
    <2> SUFFICES ASSUME NEW e \in EntryIds, e \notin overlapped, entries[e].exists
                 PROVE  /\ Keys(entries[e].blocks) = wanted[e]
                        /\ \A b, c \in entries[e].blocks : b.key = c.key \/ b.id = c.id => b = c
      BY DEF BlocksKept
    <2>1. Keys(entries[e].blocks) = wanted[e]
      BY <1>0 DEF WantInv, Live
    <2>2. entries[e].blocks \in SUBSET BlockDoc
      BY <1>0, EntryTyped DEF EntryRec
    <2>3. \A k, i \in 0 .. MaxIds : Has(entries[e].blocks, k, i) => Somewhere(e, k, i)
      BY DEF Somewhere
    <2>4. KeyOnce(entries[e].blocks)
      BY <1>0 DEF KeysInv
    <2>5. \A b, c \in entries[e].blocks : b.key = c.key \/ b.id = c.id => b = c
      BY <1>0, <2>2, <2>3, <2>4, IdOnce
    <2> QED
      BY <2>1, <2>5
  <1> QED
    BY <1>0, <1>1, <1>2 DEF EditsKept

\* However posts of several editors, and of one editor's page, interleave, an entry no
\* stale page or request wrote over has exactly the blocks its editors want, each
\* once, with its own id, and every entry the meta and the header saved last
\* (cms_update_entry_content(), cms_update_entry_meta() and the rest).
THEOREM EditsKeptThm == EntriesSpec => []EditsKept
  <1>1. EntriesIInv => EditsKept
    BY KeptFollows DEF EntriesIInv
  <1> QED
    BY <1>1, EntriesInductive, PTL

LEMMA ServesOwn ==
  ASSUME EntryTypes, NEW q \in EditThreads, Serves(q), NEW e \in EntryIds, entries'[e] # entries[e]
  PROVE  edit[q].entry = e /\ entries[e].exists
  <1>1. edit[q].entry \in EntryIds
    BY DEF EntryTypes, Serves, UpdateMeta, UpdateHeader, UpdateContent, SaveGallery, RewriteContent, AnswerContent,
           PushBlock, PullBlock
  <1>2. entries \in [EntryIds -> EntryRec]
    BY EntryTyped
  <1>3. PICK d \in EntryIds : d = edit[q].entry
    BY <1>1
  <1>4. ASSUME NEW S, NEW base, WriteBlocks(d, S, base) PROVE d = e /\ entries[e].exists
    BY <1>2, <1>4 DEF WriteBlocks
  <1>5. CASE UpdateMeta(q)
    BY <1>2, <1>3, <1>5 DEF UpdateMeta
  <1>6. CASE UpdateHeader(q)
    BY <1>2, <1>3, <1>6 DEF UpdateHeader
  <1>7. CASE UpdateContent(q) \/ RewriteContent(q) \/ PushBlock(q) \/ PullBlock(q)
    BY <1>3, <1>4, <1>7 DEF UpdateContent, RewriteContent, PushBlock, PullBlock
  <1>8. CASE SaveGallery(q) \/ AnswerContent(q)
    BY <1>8 DEF SaveGallery, AnswerContent
  <1> QED
    BY <1>3, <1>5, <1>6, <1>7, <1>8 DEF Serves

LEMMA AuthorStep ==
  ASSUME Ground, [EntriesNext]_entryVars, NEW p \in EditThreads, NEW e \in EntryIds,
         edit[p] # NoEdit, edit'[p] # edit[p], edit[p].user \in Authors, entries'[e] # entries[e]
  PROVE  entries[e].by = edit[p].user
  <1>0. EntryTypes /\ OwnInv /\ edit \in [EditThreads -> EditRec]
    BY EntryTyped DEF Ground
  <1>1. EntriesNext
    BY DEF entryVars
  <1>2. ~Browses
    BY DEF Browses, OpenEditor, ChoosePictures
  <1>3. ASSUME NEW q \in EditThreads, NEW u \in Editors, Idling(q), Posts(q, u) PROVE FALSE
    <2>1. edit[q] = NoEdit
      BY <1>3 DEF Idling
    <2>2. PICK r : edit' = [edit EXCEPT ![q] = r]
      BY <1>3 DEF Posts, CreateEntry, DeleteEntry, PostMeta, PostHeader, PostContent, PostBlock, PostBlockDelete,
                  Admitted, BeginEdit
    <2> QED
      BY <1>0, <2>1, <2>2
  <1>4. PICK q \in EditThreads : Serves(q)
    BY <1>1, <1>2, <1>3, EntriesSteps
  <1>5. edit[q].entry = e /\ entries[e].exists
    BY <1>0, <1>4, ServesOwn
  <1>6. q = p
    <2>1. PICK r : edit' = [edit EXCEPT ![q] = r]
      BY <1>4 DEF Serves, UpdateMeta, UpdateHeader, UpdateContent, SaveGallery, RewriteContent, AnswerContent,
                  PushBlock, PullBlock, DoneEdit
    <2> QED
      BY <1>0, <2>1
  <1> QED
    BY <1>0, <1>5, <1>6 DEF OwnInv

\* A request of an author changes nothing but entries that author created, whatever
\* administrators change between can_edit_entry() and the write.
THEOREM AuthorConfinedThm == EntriesSpec => AuthorConfined
  <1>1. EntriesIInv /\ [EntriesNext]_entryVars
            => [\A p \in EditThreads, e \in EntryIds :
                   edit[p] # NoEdit /\ edit'[p] # edit[p] /\ edit[p].user \in Authors /\ entries'[e] # entries[e]
                       => entries[e].by = edit[p].user]_entryVars
    BY AuthorStep DEF EntriesIInv
  <1> QED
    BY <1>1, EntriesInductive, PTL DEF EntriesSpec, AuthorConfined

-----------------------------------------------------------------------------
(* What visitors are shown.                                                *)

\* First() picks from the set, and finds the one entry there is.
LEMMA FirstAmong == ASSUME NEW S PROVE First(S) \subseteq S
  BY DEF First

LEMMA FirstOne ==
  ASSUME EntryTypes, BornInv, NEW e \in Created
  PROVE  First({e}) = {e}
  <1>1. PICK i \in DOMAIN born : born[i] = e
    BY DEF Created
  <1>2. DOMAIN born = 1 .. Len(born) /\ Len(born) \in Nat
    BY DEF EntryTypes
  <1>3. \A k \in 1 .. i - 1 : born[k] \notin {e}
    BY <1>1, <1>2 DEF BornInv
  <1>4. e \in First({e})
    BY <1>1, <1>3 DEF First
  <1> QED
    BY <1>4, FirstAmong

\* An entry whose link no other has is the one its address shows.
LEMMA ServedOne ==
  ASSUME EntryTypes, BornInv, NEW e \in EntryIds, entries[e].exists, NEW drafts \in BOOLEAN,
         drafts \/ entries[e].enabled, \A d \in EntryIds \ {e} : entries[d].link # entries[e].link,
         entries[e].link # NoLink, entries[e].link \notin Shadowed
  PROVE  EntryServed(entries[e].type, entries[e].link, drafts) = {e}
  <1>1. PICK link : link = entries[e].link
    OBVIOUS
  <1>2. {d \in EntryIds : entries[d].exists /\ entries[d].link = link /\ (drafts \/ entries[d].enabled)} = {e}
    BY <1>1
  <1>3. e \in Created
    BY DEF BornInv
  <1>4. ByLink(link, drafts) = {e}
    BY <1>2, <1>3, FirstOne DEF ByLink
  <1> QED
    BY <1>1, <1>4 DEF EntryServed

LEMMA GalleriesFollow == ASSUME EntriesIInv PROVE GalleriesShown
  <1>0. EntryTypes /\ BornInv /\ GalleryInv /\ SyncInv /\ entries \in [EntryIds -> EntryRec]
    BY EntryTyped DEF EntriesIInv, Ground, Galleried
  <1> SUFFICES ASSUME NEW e \in EntryIds, e \notin overlapped, NEW b \in entries[e].blocks,
                      b.kind = "gallery", ~Busy(e), b.pics > 0, b.gallery # 0
               PROVE  galleries[b.gallery] = [entry |-> e, pics |-> b.pics]
    BY DEF GalleriesShown
  <1>1. Live(e)
    BY <1>0, EntryValues DEF BornInv, Live
  <1>2. \A p \in EditThreads : edit[p].entry # e
    BY EntryValues, EntriesAssumption DEF Busy
  <1>3. InSync(b)
    BY <1>0, <1>1, <1>2 DEF SyncInv, SyncAt, Writer, Doom
  <1>4. b \in BlockDoc /\ b.gallery \in 1 .. MaxIds /\ b.key \in 0 .. MaxIds
    BY <1>0, EntriesAssumption DEF EntryRec, BlockDoc
  <1>5. GalleryAt(e, b.key, b.gallery)
    BY DEF GalleryAt, Shows
  <1>6. b.gallery \in DOMAIN galleries /\ galleries[b.gallery].entry = e
    BY <1>0, <1>4, <1>5 DEF GalleryInv
  <1>7. galleries[b.gallery].pics = b.pics
    BY <1>3 DEF InSync
  <1>8. galleries[b.gallery] \in [entry : EntryIds, pics : 1 .. MaxPics]
    BY <1>0, <1>6 DEF GalleryInv
  <1> QED
    BY <1>6, <1>7, <1>8

\* The links of a gallery of n pictures.
LEMMA Around ==
  ASSUME NEW n \in Nat, n > 0, NEW c \in Nat, c < n
  PROVE  /\ (c + 1) % n = (IF c + 1 < n THEN c + 1 ELSE 0)
         /\ (c + n - 1) % n = (IF c = 0 THEN n - 1 ELSE c - 1)
  OBVIOUS

LEMMA PagesFollow == ASSUME EntriesIInv PROVE GalleryPages
  <1>0. EntryTypes /\ BornInv /\ GalleryInv
    BY DEF EntriesIInv, Ground, Galleried
  <1> SUFFICES ASSUME NEW g \in DOMAIN galleries
               PROVE  /\ galleries[g].pics > 0
                      /\ \A img \in 0 .. MaxPics :
                          LET page == GalleryPage(g, img)
                          IN  page.cur < galleries[g].pics /\ GalleryPage(g, page.next).prev = page.cur
                      /\ \A type \in Types, link \in Links : <<type, link>> \in Backlinks(g) =>
                          \/ link \in Shadowed
                          \/ \E d \in EntryIds \ {galleries[g].entry} : entries[d].link = link
                          \/ EntryServed(type, link, TRUE) = {galleries[g].entry}
    BY DEF GalleryPages
  <1>1. PICK n, e : n = galleries[g].pics /\ e = galleries[g].entry
    OBVIOUS
  <1>2. n \in 1 .. MaxPics /\ e \in EntryIds /\ n \in Nat /\ n > 0
    BY <1>0, <1>1, EntriesAssumption DEF GalleryInv
  <1>3. ASSUME NEW img \in 0 .. MaxPics
        PROVE  GalleryPage(g, img).cur < n /\ GalleryPage(g, GalleryPage(g, img).next).prev = GalleryPage(g, img).cur
    <2>1. PICK c : c = IF img < n THEN img ELSE 0
      OBVIOUS
    <2>2. c \in Nat /\ c < n
      BY <1>2, <2>1
    <2>3. GalleryPage(g, img) = [cur |-> c, prev |-> (c + n - 1) % n, next |-> (c + 1) % n]
      BY <1>1, <2>1 DEF GalleryPage
    <2>4. PICK m : m = (c + 1) % n
      OBVIOUS
    <2>5. m = (IF c + 1 < n THEN c + 1 ELSE 0) /\ m \in Nat /\ m < n
      BY <1>2, <2>2, <2>4, Around
    <2>6. GalleryPage(g, m) = [cur |-> m, prev |-> (m + n - 1) % n, next |-> (m + 1) % n]
      BY <1>1, <2>5 DEF GalleryPage
    <2>7. (m + n - 1) % n = c
      <3>1. (m + n - 1) % n = (IF m = 0 THEN n - 1 ELSE m - 1)
        BY <1>2, <2>5, Around
      <3> QED
        BY <1>2, <2>2, <2>5, <3>1
    <2> QED
      BY <2>2, <2>3, <2>4, <2>6, <2>7
  <1>4. ASSUME NEW type \in Types, NEW link \in Links, <<type, link>> \in Backlinks(g), link \notin Shadowed,
               \A d \in EntryIds \ {e} : entries[d].link # link
        PROVE  EntryServed(type, link, TRUE) = {e}
    <2>1. entries[e].exists /\ entries[e].link # NoLink /\ type = entries[e].type /\ link = entries[e].link
      BY <1>1, <1>4 DEF Backlinks
    <2>2. EntryServed(entries[e].type, entries[e].link, TRUE) = {e}
      BY <1>0, <1>2, <1>4, <2>1, ServedOne
    <2> QED
      BY <2>1, <2>2
  <1> QED
    BY <1>1, <1>2, <1>3, <1>4

LEMMA SearchFollows == SearchOpens
  <1> SUFFICES ASSUME NEW type \in Types, NEW link \in Links \ {NoLink}, <<type, link>> \in SearchResults,
                      ~(type = "blog" /\ link \in Shadowed)
               PROVE  \E e \in EntryServed(type, link, FALSE) : entries[e].enabled
    BY DEF SearchOpens
  <1>1. PICK l, e : e \in ByLink(l, FALSE) /\ <<type, link>> = <<entries[e].type, l>>
    BY DEF SearchResults
  <1>2. e \in ByLink(link, FALSE) /\ entries[e].type = type
    BY <1>1
  <1>3. entries[e].enabled
    BY <1>2, FirstAmong DEF ByLink
  <1> QED
    BY <1>2, <1>3 DEF EntryServed

LEMMA ListsFollow == ASSUME EntriesIInv PROVE ListedOpens
  <1>0. EntryTypes /\ BornInv
    BY DEF EntriesIInv, Ground
  <1> SUFFICES ASSUME NEW e \in BlogList, \A d \in EntryIds \ {e} : entries[d].link # entries[e].link,
                      entries[e].link \notin Shadowed \cup {NoLink}, NEW drafts \in BOOLEAN
               PROVE  EntryServed("blog", entries[e].link, drafts) = {e}
    BY DEF ListedOpens
  <1>1. e \in EntryIds /\ entries[e].exists /\ entries[e].type = "blog" /\ entries[e].enabled
    BY DEF BlogList
  <1>2. EntryServed(entries[e].type, entries[e].link, drafts) = {e}
    BY <1>0, <1>1, ServedOne
  <1> QED
    BY <1>1, <1>2

LEMMA DashboardFollows == DashboardAgrees
  BY EntriesAssumption DEF DashboardAgrees, Listed, CanEdit, Editors

\* Once the saves of an entry are over the gallery pages show the pictures its editors
\* saved, whichever interleaving of content saves, block posts and gallery
\* writes came before; a gallery's links and backlink, the blog's lists, the search
\* and the dashboard lead where they say (cms_upsert_media_gallery(),
\* cms_get_entry_by_link(), cms_search_entries()).
THEOREM ShownAsSavedThm == EntriesSpec => []ShownAsSaved
  <1>1. EntriesIInv => ShownAsSaved
    BY GalleriesFollow, PagesFollow, SearchFollows, ListsFollow, DashboardFollows DEF ShownAsSaved
  <1> QED
    BY <1>1, EntriesInductive, PTL

-----------------------------------------------------------------------------
(* BrowsersInv: the rules that sort the browsers.                           *)

Pair == Int \X Int

LEMMA VersionOrder ==
  ASSUME NEW v \in Pair, NEW w \in Pair
  PROVE  /\ AtLeast(v, v) /\ (AtLeast(v, w) \/ AtLeast(w, v)) /\ (AtLeast(v, w) /\ AtLeast(w, v) => v = w)
         /\ ~AtLeast(v, w) => AtLeast(w, v) /\ v # w
  <1>1. PICK a \in Int, b \in Int : v = <<a, b>>
    BY DEF Pair
  <1>2. PICK c \in Int, d \in Int : w = <<c, d>>
    BY DEF Pair
  <1> QED
    BY <1>1, <1>2 DEF AtLeast

LEMMA VersionChain ==
  ASSUME NEW u \in Pair, NEW v \in Pair, NEW w \in Pair, AtLeast(u, v), AtLeast(v, w)
  PROVE  AtLeast(u, w)
  BY DEF AtLeast, Pair

\* The scan of the first n tiers, as a function of how far it has come.
IsScan(f, r, v, n) ==
    f = [k \in 0 .. n |-> IF k = 0 THEN NoTier(r)
                          ELSE IF TakesOver(r.tiers[k], f[k - 1], v) THEN r.tiers[k] ELSE f[k - 1]]

LEMMA ScanExists ==
  ASSUME NEW r, NEW v, NEW l \in Nat
  PROVE  \E f : IsScan(f, r, v, l)
  <1> DEFINE Bad == {n \in Nat : ~\E f : IsScan(f, r, v, n)}
  <1>1. SUFFICES ASSUME Bad # {} PROVE FALSE
    OBVIOUS
  <1>2. PICK n \in Bad : \A k \in Bad : n <= k
    <2>1. Bad \in SUBSET Nat
      OBVIOUS
    <2> HIDE DEF Bad
    <2> QED
      BY <1>1, <2>1, LeastExists
  <1>3. n # 0
    <2>1. IsScan([k \in 0 .. 0 |-> NoTier(r)], r, v, 0)
      BY DEF IsScan
    <2>2. 0 \notin Bad
      BY <2>1
    <2> QED
      BY <2>2
  <1>4. n \in Nat /\ n - 1 \in Nat /\ n - 1 \notin Bad
    BY <1>2, <1>3
  <1>5. PICK f : IsScan(f, r, v, n - 1)
    BY <1>4
  <1> DEFINE g == [k \in 0 .. n |-> IF k < n THEN f[k]
                                    ELSE IF TakesOver(r.tiers[n], f[n - 1], v) THEN r.tiers[n] ELSE f[n - 1]]
  <1>6. \A k \in 0 .. n - 1 : g[k] = f[k]
    BY <1>4
  <1>7. g[n] = IF TakesOver(r.tiers[n], g[n - 1], v) THEN r.tiers[n] ELSE g[n - 1]
    BY <1>4, <1>6
  <1>8. \A k \in 0 .. n - 1 : g[k] = IF k = 0 THEN NoTier(r)
                                     ELSE IF TakesOver(r.tiers[k], g[k - 1], v) THEN r.tiers[k] ELSE g[k - 1]
    <2>1. TAKE k \in 0 .. n - 1
    <2>2. f[k] = IF k = 0 THEN NoTier(r)
                 ELSE IF TakesOver(r.tiers[k], f[k - 1], v) THEN r.tiers[k] ELSE f[k - 1]
      <3>1. f[k] = [i \in 0 .. n - 1 |-> IF i = 0 THEN NoTier(r)
                          ELSE IF TakesOver(r.tiers[i], f[i - 1], v) THEN r.tiers[i] ELSE f[i - 1]][k]
        BY <1>5 DEF IsScan
      <3> QED
        BY <3>1
    <2>3. k # 0 => k - 1 \in 0 .. n - 1
      BY <1>4
    <2> HIDE DEF g
    <2> QED
      BY <1>6, <2>2, <2>3
  <1>9. IsScan(g, r, v, n)
    <2>1. g = [k \in 0 .. n |-> g[k]]
      OBVIOUS
    <2> HIDE DEF g
    <2>2. \A k \in 0 .. n : g[k] = IF k = 0 THEN NoTier(r)
                                   ELSE IF TakesOver(r.tiers[k], g[k - 1], v) THEN r.tiers[k] ELSE g[k - 1]
      BY <1>3, <1>4, <1>7, <1>8
    <2> QED
      BY <2>1, <2>2 DEF IsScan
  <1> QED
    BY <1>4, <1>9

\* What the rule's first n tiers say of a version.
ReachedBy(r, v, n) == {i \in 1 .. n : AtLeast(v, r.tiers[i].from)}
IsTop(i, r, v, n) ==
    /\ i \in ReachedBy(r, v, n)
    /\ \A j \in ReachedBy(r, v, n) : /\ AtLeast(r.tiers[i].from, r.tiers[j].from)
                                     /\ r.tiers[i].from = r.tiers[j].from => i <= j
SaysBest(b, r, v, n) ==
    \/ ReachedBy(r, v, n) = {} /\ b = NoTier(r)
    \/ \E i \in 1 .. n : IsTop(i, r, v, n) /\ b = r.tiers[i]

\* A rule whose tiers have versions.
Scannable(r) == r \in RuleType /\ \A i \in 1 .. Len(r.tiers) : r.tiers[i].from # NoVersion

LEMMA TierIs ==
  ASSUME NEW r, Scannable(r), NEW i \in 1 .. Len(r.tiers)
  PROVE  r.tiers[i] \in TierType /\ r.tiers[i].from \in Pair /\ r.tiers[i].from # NoVersion
  <1>1. r.tiers \in Seq(TierType)
    BY DEF Scannable, RuleType
  <1>2. r.tiers[i] \in TierType
    BY <1>1, ElementOfSeq
  <1> QED
    BY <1>2 DEF Scannable, TierType, Pair

LEMMA ScanStep ==
  ASSUME NEW r, Scannable(r), NEW v \in Pair, NEW n \in 1 .. Len(r.tiers), NEW b, SaysBest(b, r, v, n - 1)
  PROVE  SaysBest(IF TakesOver(r.tiers[n], b, v) THEN r.tiers[n] ELSE b, r, v, n)
  <1>0. n \in Nat /\ n - 1 \in Nat /\ Len(r.tiers) \in Nat
    <2>1. r.tiers \in Seq(TierType)
      BY DEF Scannable, RuleType
    <2> QED
      BY <2>1, LenProperties
  <1>1. PICK t : t = r.tiers[n]
    OBVIOUS
  <1>2. t.from \in Pair /\ t.from # NoVersion
    BY <1>1, TierIs
  <1>3. ReachedBy(r, v, n) = ReachedBy(r, v, n - 1) \cup (IF AtLeast(v, t.from) THEN {n} ELSE {})
    BY <1>0, <1>1 DEF ReachedBy
  <1>4. \A i \in ReachedBy(r, v, n - 1) : i \in 1 .. n - 1 /\ i \in 1 .. Len(r.tiers) /\ i < n /\ r.tiers[i].from \in Pair /\ r.tiers[i].from # NoVersion
    <2>1. \A i \in ReachedBy(r, v, n - 1) : i \in 1 .. n - 1 /\ i \in 1 .. Len(r.tiers) /\ i < n
      BY <1>0 DEF ReachedBy
    <2> QED
      BY <2>1, TierIs
  <1>5. CASE ReachedBy(r, v, n - 1) = {} /\ b = NoTier(r)
    <2>1. TakesOver(t, b, v) <=> AtLeast(v, t.from)
      BY <1>5 DEF TakesOver, NoTier
    <2>2. CASE AtLeast(v, t.from)
      <3>1. ReachedBy(r, v, n) = {n}
        BY <1>3, <1>5, <2>2
      <3>2. IsTop(n, r, v, n)
        BY <1>0, <1>1, <1>2, <3>1, VersionOrder DEF IsTop
      <3> QED
        BY <1>0, <1>1, <2>1, <2>2, <3>2 DEF SaysBest
    <2>3. CASE ~AtLeast(v, t.from)
      BY <1>1, <1>3, <1>5, <2>1, <2>3 DEF SaysBest
    <2> QED
      BY <2>2, <2>3
  <1>6. ASSUME NEW i \in 1 .. n - 1, IsTop(i, r, v, n - 1), b = r.tiers[i]
        PROVE  SaysBest(IF TakesOver(r.tiers[n], b, v) THEN r.tiers[n] ELSE b, r, v, n)
    <2>1. i \in ReachedBy(r, v, n - 1) /\ b.from \in Pair /\ b.from # NoVersion
      BY <1>4, <1>6 DEF IsTop
    <2>2. \A j \in ReachedBy(r, v, n - 1) : AtLeast(b.from, r.tiers[j].from) /\ (b.from = r.tiers[j].from => i <= j)
      BY <1>6 DEF IsTop
    <2>3. CASE TakesOver(t, b, v)
      <3>1. AtLeast(v, t.from) /\ ~AtLeast(b.from, t.from)
        BY <2>1, <2>3 DEF TakesOver
      <3>2. AtLeast(t.from, b.from)
        BY <1>2, <2>1, <3>1, VersionOrder
      <3>3. ASSUME NEW j \in ReachedBy(r, v, n - 1)
            PROVE  AtLeast(t.from, r.tiers[j].from) /\ t.from # r.tiers[j].from
        <4>1. PICK w \in Pair : w = r.tiers[j].from
          BY <1>4
        <4>2. AtLeast(b.from, w)
          BY <2>2, <4>1
        <4>3. PICK x \in Pair, y \in Pair : x = t.from /\ y = b.from
          BY <1>2, <2>1
        <4>4. AtLeast(x, w)
          BY <3>2, <4>2, <4>3, VersionChain
        <4>5. x # w
          BY <3>1, <4>2, <4>3
        <4> QED
          BY <4>1, <4>3, <4>4, <4>5
      <3>4. IsTop(n, r, v, n)
        <4>1. n \in ReachedBy(r, v, n)
          BY <1>3, <3>1
        <4>2. AtLeast(t.from, t.from)
          BY <1>2, VersionOrder
        <4> QED
          BY <1>0, <1>1, <1>3, <3>3, <4>1, <4>2 DEF IsTop
      <3> QED
        BY <1>0, <1>1, <2>3, <3>4 DEF SaysBest
    <2>4. CASE ~TakesOver(t, b, v)
      <3>1. AtLeast(v, t.from) => AtLeast(b.from, t.from)
        BY <2>4 DEF TakesOver
      <3>2. IsTop(i, r, v, n)
        <4>1. i \in ReachedBy(r, v, n)
          BY <1>3, <2>1
        <4>2. ASSUME NEW j \in ReachedBy(r, v, n)
              PROVE  AtLeast(b.from, r.tiers[j].from) /\ (b.from = r.tiers[j].from => i <= j)
          <5>1. CASE j \in ReachedBy(r, v, n - 1)
            BY <2>2, <5>1
          <5>2. CASE j \notin ReachedBy(r, v, n - 1)
            <6>1. j = n /\ AtLeast(v, t.from)
              BY <1>3, <5>2
            <6> QED
              BY <1>0, <1>1, <3>1, <6>1
          <5> QED
            BY <5>1, <5>2
        <4> QED
          BY <1>6, <4>1, <4>2 DEF IsTop
      <3>3. i \in 1 .. n
        BY <1>0
      <3> QED
        BY <1>1, <1>6, <2>4, <3>2, <3>3 DEF SaysBest
    <2> QED
      BY <2>3, <2>4
  <1> QED
    BY <1>5, <1>6 DEF SaysBest

\* The scan of all the tiers ends with the highest reached, the first of equals.
LEMMA BestTierIs ==
  ASSUME NEW r, Scannable(r), NEW v \in Pair
  PROVE  SaysBest(BestTier(r, v), r, v, Len(r.tiers))
  <1>0. Len(r.tiers) \in Nat
    <2>1. r.tiers \in Seq(TierType)
      BY DEF Scannable, RuleType
    <2> QED
      BY <2>1, LenProperties
  <1>1. PICK f : f = CHOOSE h : IsScan(h, r, v, Len(r.tiers))
    OBVIOUS
  <1>2. IsScan(f, r, v, Len(r.tiers))
    BY <1>0, <1>1, ScanExists
  <1>3. BestTier(r, v) = f[Len(r.tiers)]
    BY <1>1 DEF BestTier, IsScan
  <1>4. \A k \in 0 .. Len(r.tiers) : f[k] = IF k = 0 THEN NoTier(r)
                          ELSE IF TakesOver(r.tiers[k], f[k - 1], v) THEN r.tiers[k] ELSE f[k - 1]
    <2>1. TAKE k \in 0 .. Len(r.tiers)
    <2>2. f[k] = [i \in 0 .. Len(r.tiers) |-> IF i = 0 THEN NoTier(r)
                          ELSE IF TakesOver(r.tiers[i], f[i - 1], v) THEN r.tiers[i] ELSE f[i - 1]][k]
      BY <1>2 DEF IsScan
    <2> QED
      BY <2>2
  <1> DEFINE Bad == {n \in 0 .. Len(r.tiers) : ~SaysBest(f[n], r, v, n)}
  <1>5. Bad = {}
    <2>1. SUFFICES ASSUME Bad # {} PROVE FALSE
      OBVIOUS
    <2>2. PICK n \in Bad : \A k \in Bad : n <= k
      <3>1. Bad \in SUBSET Nat
        BY <1>0
      <3> HIDE DEF Bad
      <3> QED
        BY <2>1, <3>1, LeastExists
    <2>3. n # 0
      <3>1. ReachedBy(r, v, 0) = {}
        BY DEF ReachedBy
      <3>2. f[0] = NoTier(r)
        BY <1>0, <1>4
      <3> QED
        BY <3>1, <3>2 DEF SaysBest
    <2>4. n \in 1 .. Len(r.tiers) /\ n - 1 \in 0 .. Len(r.tiers) /\ n - 1 \notin Bad
      BY <1>0, <2>2, <2>3
    <2>5. PICK b : b = f[n - 1]
      OBVIOUS
    <2>6. SaysBest(b, r, v, n - 1)
      BY <2>4, <2>5
    <2>7. SaysBest(IF TakesOver(r.tiers[n], b, v) THEN r.tiers[n] ELSE b, r, v, n)
      BY <2>4, <2>6, ScanStep
    <2>8. f[n] = IF TakesOver(r.tiers[n], b, v) THEN r.tiers[n] ELSE b
      BY <1>0, <1>4, <2>3, <2>4, <2>5
    <2> QED
      BY <2>7, <2>8
  <1> QED
    BY <1>0, <1>3, <1>5

LEMMA HighestIs ==
  ASSUME NEW r, Scannable(r), NEW v \in Pair
  PROVE  Highest(r, v) = [epoch |-> BestTier(r, v).epoch, dash |-> BestTier(r, v).dash]
  <1>1. PICK b : b = BestTier(r, v)
    OBVIOUS
  <1>2. SaysBest(b, r, v, Len(r.tiers))
    BY <1>1, BestTierIs
  <1> DEFINE reached == ReachedBy(r, v, Len(r.tiers))
             top == {i \in reached : IsTop(i, r, v, Len(r.tiers))}
  <1>3. DOMAIN r.tiers = 1 .. Len(r.tiers)
    <2>1. r.tiers \in Seq(TierType)
      BY DEF Scannable, RuleType
    <2> QED
      BY <2>1, LenProperties
  <1>4. Highest(r, v) = IF reached = {} THEN [epoch |-> r.epoch, dash |-> r.dash]
                        ELSE LET i == CHOOSE k \in top : TRUE IN [epoch |-> r.tiers[i].epoch, dash |-> r.tiers[i].dash]
    <2>1. top = {i \in reached : \A j \in reached : /\ AtLeast(r.tiers[i].from, r.tiers[j].from)
                                                    /\ r.tiers[i].from = r.tiers[j].from => i <= j}
      BY DEF IsTop
    <2>2. reached = {i \in DOMAIN r.tiers : AtLeast(v, r.tiers[i].from)}
      BY <1>3 DEF ReachedBy
    <2> HIDE DEF top, reached
    <2> QED
      BY <2>1, <2>2 DEF Highest
  <1>5. CASE reached = {} /\ b = NoTier(r)
    BY <1>1, <1>4, <1>5 DEF NoTier
  <1>6. ASSUME NEW i \in 1 .. Len(r.tiers), IsTop(i, r, v, Len(r.tiers)), b = r.tiers[i]
        PROVE  Highest(r, v) = [epoch |-> b.epoch, dash |-> b.dash]
    <2>1. i \in top /\ reached # {}
      BY <1>6 DEF IsTop
    <2>2. PICK k : k = CHOOSE x \in top : TRUE
      OBVIOUS
    <2>3. k \in top
      BY <2>1, <2>2
    <2>4. i \in 1 .. Len(r.tiers) /\ k \in 1 .. Len(r.tiers) /\ IsTop(k, r, v, Len(r.tiers)) /\ k \in reached
      BY <2>3 DEF ReachedBy
    <2>5. r.tiers[i].from \in Pair /\ r.tiers[k].from \in Pair
      BY <2>4, TierIs
    <2>6. AtLeast(r.tiers[i].from, r.tiers[k].from) /\ AtLeast(r.tiers[k].from, r.tiers[i].from)
      BY <1>6, <2>1, <2>4 DEF IsTop
    <2>7. r.tiers[i].from = r.tiers[k].from
      BY <2>5, <2>6, VersionOrder
    <2>8. i <= k /\ k <= i
      BY <1>6, <2>1, <2>4, <2>7 DEF IsTop
    <2>9. i = k
      BY <2>4, <2>8
    <2> HIDE DEF top, reached
    <2> QED
      BY <1>4, <1>6, <2>1, <2>2, <2>9
  <1> QED
    BY <1>1, <1>2, <1>5, <1>6 DEF SaysBest

\* The rule sets there can be are documents.
LEMMA RuleSetIs ==
  ASSUME NEW d \in RuleSets
  PROVE  d \in Documents
  <1>1. NoRules \in Documents
    <2>1. << >> \in Seq(RuleType)
      BY EmptySeq
    <2> QED
      BY <2>1 DEF NoRules, Documents
  <1> QED
    BY <1>1, BrowsersAssumption DEF RuleSets

LEMMA RuleIs ==
  ASSUME NEW d \in Documents, NEW i \in DOMAIN d.rules
  PROVE  d.rules[i] \in RuleType /\ DOMAIN d.rules = 1 .. Len(d.rules) /\ Len(d.rules) \in Nat /\ i \in Nat
  <1>1. d.rules \in Seq(RuleType)
    BY DEF Documents
  <1>2. DOMAIN d.rules = 1 .. Len(d.rules) /\ Len(d.rules) \in Nat
    BY <1>1, LenProperties
  <1> QED
    BY <1>1, <1>2, ElementOfSeq

LEMMA ValidRule ==
  ASSUME NEW d \in Documents, Valid(d), NEW i \in DOMAIN d.rules
  PROVE  Scannable(d.rules[i]) /\ EpochValid(d.rules[i].epoch) /\ \A j \in 1 .. Len(d.rules[i].tiers) : EpochValid(d.rules[i].tiers[j].epoch)
  <1>1. PICK r \in RuleType : r = d.rules[i]
    BY RuleIs
  <1>2. RuleValid(r)
    BY <1>1 DEF Valid
  <1>3. r.tiers \in Seq(TierType)
    BY DEF RuleType
  <1>4. DOMAIN r.tiers = 1 .. Len(r.tiers)
    BY <1>3, LenProperties
  <1> QED
    BY <1>1, <1>2, <1>4 DEF RuleValid, Scannable

\* The rule that decides is the first that matches.
LEMMA FirstMatch ==
  ASSUME NEW d \in Documents, NEW ua
  PROVE  /\ Matching(d, ua) = {} => Classify(d, ua) = [epoch |-> d.fallback, dash |-> FALSE]
         /\ \A m \in Matching(d, ua) : (\A n \in Matching(d, ua) : m <= n) => Classify(d, ua) = ClassifyRule(d.rules[m], ua)
         /\ Matching(d, ua) # {} => \E m \in Matching(d, ua) : \A n \in Matching(d, ua) : m <= n
  <1>1. PICK S : S = Matching(d, ua)
    OBVIOUS
  <1>2. DOMAIN d.rules = 1 .. Len(d.rules)
    <2>1. d.rules \in Seq(RuleType)
      BY DEF Documents
    <2> QED
      BY <2>1, LenProperties
  <1>3. S \in SUBSET Nat /\ 0 \notin S
    BY <1>1, <1>2 DEF Matching
  <1>4. SelectInSeq(d.rules, LAMBDA r : Applies(r, ua)) = IF S # {} THEN Min(S) ELSE 0
    BY <1>1, <1>2 DEF SelectInSeq, Matching
  <1>5. ASSUME NEW m \in S, \A n \in S : m <= n PROVE Min(S) = m
    <2>1. PICK k : k = Min(S)
      OBVIOUS
    <2>2. k \in S /\ \A n \in S : k <= n
      BY <1>5, <2>1 DEF Min
    <2>3. k <= m /\ m <= k /\ k \in Nat /\ m \in Nat
      BY <1>3, <1>5, <2>2
    <2> QED
      BY <2>1, <2>3
  <1>6. S # {} => \E m \in S : \A n \in S : m <= n
    BY <1>3, LeastExists
  <1>7. S = {} => Classify(d, ua) = [epoch |-> d.fallback, dash |-> FALSE]
    BY <1>4 DEF Classify
  <1>8. ASSUME NEW m \in S, \A n \in S : m <= n PROVE Classify(d, ua) = ClassifyRule(d.rules[m], ua)
    <2>1. SelectInSeq(d.rules, LAMBDA r : Applies(r, ua)) = m /\ m # 0
      BY <1>3, <1>4, <1>5, <1>8
    <2> QED
      BY <2>1 DEF Classify
  <1> QED
    BY <1>1, <1>6, <1>7, <1>8

LEMMA VersionIs ==
  ASSUME NEW ua \in UserAgents, NEW r
  PROVE  VersionRead(r, ua) \in Pair
  <1>1. \A t \in ua.has : ua.ver[t] \in Int \X Int
    BY BrowsersAssumption
  <1>2. NoVersion \in Int \X Int
    BY DEF NoVersion
  <1>3. CASE r.after = NoToken \/ r.after \notin ua.has
    BY <1>2, <1>3 DEF VersionRead, Pair
  <1>4. CASE ~(r.after = NoToken \/ r.after \notin ua.has)
    BY <1>1, <1>4 DEF VersionRead, Pair
  <1> QED
    BY <1>3, <1>4

\* Whatever a browser is classified as is an epoch.
LEMMA EpochOfRules ==
  ASSUME NEW d \in Documents, Valid(d), NEW ua \in UserAgents
  PROVE  EpochValid(Classify(d, ua).epoch)
  <1>1. CASE Matching(d, ua) = {}
    <2>1. Classify(d, ua) = [epoch |-> d.fallback, dash |-> FALSE]
      BY <1>1, FirstMatch
    <2>2. EpochValid(d.fallback)
      BY DEF Valid
    <2> QED
      BY <2>1, <2>2
  <1>2. CASE Matching(d, ua) # {}
    <2>1. PICK m \in Matching(d, ua) : \A n \in Matching(d, ua) : m <= n
      BY <1>2, FirstMatch
    <2>2. m \in DOMAIN d.rules
      BY DEF Matching
    <2>3. PICK r : r = d.rules[m]
      OBVIOUS
    <2>4. Scannable(r) /\ EpochValid(r.epoch) /\ \A j \in 1 .. Len(r.tiers) : EpochValid(r.tiers[j].epoch)
      BY <2>2, <2>3, ValidRule
    <2>5. PICK v \in Pair : v = VersionRead(r, ua)
      BY VersionIs
    <2>6. PICK b : b = BestTier(r, v)
      OBVIOUS
    <2>7. SaysBest(b, r, v, Len(r.tiers))
      BY <2>4, <2>6, BestTierIs
    <2>8. EpochValid(b.epoch)
      BY <2>4, <2>7 DEF SaysBest, NoTier
    <2>9. Classify(d, ua) = ClassifyRule(r, ua)
      BY <2>1, <2>3, FirstMatch
    <2>10. ClassifyRule(r, ua).epoch = IF v = NoVersion THEN r.epoch ELSE b.epoch
      BY <2>5, <2>6 DEF ClassifyRule
    <2> QED
      BY <2>4, <2>8, <2>9, <2>10
  <1> QED
    BY <1>1, <1>2

\* HighestTierWins says so of the rules in effect; it is so of any valid rules.
LEMMA HighestOfRules ==
  ASSUME NEW d \in Documents, Valid(d), NEW ua \in UserAgents, NEW m \in Matching(d, ua),
         \A n \in Matching(d, ua) : m <= n
  PROVE  LET r == d.rules[m]
             v == VersionRead(r, ua)
         IN Classify(d, ua) = IF v = NoVersion THEN [epoch |-> r.epoch, dash |-> r.dash] ELSE Highest(r, v)
  <1>1. PICK r : r = d.rules[m]
    OBVIOUS
  <1>2. Scannable(r)
    <2>1. m \in DOMAIN d.rules
      BY DEF Matching
    <2> QED
      BY <1>1, <2>1, ValidRule
  <1>3. PICK v \in Pair : v = VersionRead(r, ua)
    BY VersionIs
  <1>4. Classify(d, ua) = ClassifyRule(r, ua)
    BY <1>1, FirstMatch
  <1>5. ClassifyRule(r, ua) = IF v = NoVersion THEN [epoch |-> r.epoch, dash |-> r.dash]
                              ELSE [epoch |-> BestTier(r, v).epoch, dash |-> BestTier(r, v).dash]
    BY <1>3 DEF ClassifyRule
  <1>6. Highest(r, v) = [epoch |-> BestTier(r, v).epoch, dash |-> BestTier(r, v).dash]
    BY <1>2, HighestIs
  <1> QED
    BY <1>1, <1>3, <1>4, <1>5, <1>6

\* The version the stylesheet check asks about is the last before the feature.
LEMMA LastBefore ==
  ASSUME NEW v \in ProbeVersions, NEW w \in Nat \X Nat, ~AtLeast(v, w)
  PROVE  PreviousVersion(w) # NoVersion /\ AtLeast(PreviousVersion(w), v)
  <1>1. PICK a \in Nat \ {0}, b \in 0 .. 9 : v = <<a, b>>
    BY BrowsersAssumption
  <1>2. PICK c \in Nat, e \in Nat : w = <<c, e>>
    OBVIOUS
  <1>3. ~(a > c \/ (a = c /\ b >= e))
    BY <1>1, <1>2 DEF AtLeast
  <1>4. CASE e > 0
    <2>1. PreviousVersion(w) = <<c, e - 1>>
      BY <1>2, <1>4 DEF PreviousVersion
    <2>2. AtLeast(<<c, e - 1>>, v) /\ <<c, e - 1>> # NoVersion
      BY <1>1, <1>3, <1>4 DEF AtLeast, NoVersion
    <2> QED
      BY <2>1, <2>2
  <1>5. CASE e = 0
    <2>1. c > 1
      BY <1>3, <1>5
    <2>2. PreviousVersion(w) = <<c - 1, 9>>
      BY <1>2, <1>5, <2>1 DEF PreviousVersion
    <2>3. AtLeast(<<c - 1, 9>>, v) /\ <<c - 1, 9>> # NoVersion
      BY <1>1, <1>3, <1>5 DEF AtLeast, NoVersion
    <2> QED
      BY <2>2, <2>3
  <1> QED
    BY <1>4, <1>5

WarningSet == {<<s, f>> : s \in Sheets, f \in UNION {t.uses : t \in Sheets}}

\* A preview that does not warn is right, for rules that never serve an older
\* version of an engine and refuse a newer one.
LEMMA WarningsRight ==
  ASSUME NEW d, NEW s \in Sheets, NEW e \in Engines, Monotone(d, s.admin, e), NEW f \in s.uses,
         <<s, f>> \notin Warnings(d), NEW v \in ProbeVersions, ~AtLeast(v, FirstWith(f, e))
  PROVE  ~ServedPage(d, s.admin, EngineUa(e, v))
  <1>1. PICK w \in Nat \X Nat : w = FirstWith(f, e)
    BY BrowsersAssumption
  <1>2. PICK before : before = PreviousVersion(w)
    OBVIOUS
  <1>3. before # NoVersion /\ AtLeast(before, v)
    BY <1>1, <1>2, LastBefore
  <1>4. before \in ProbeVersions
    BY <1>1, <1>2, <1>3, BrowsersAssumption
  <1>5. ~StillServed(d, s.admin, e, f)
    <2>1. PICK p : p = <<s, f>>
      OBVIOUS
    <2>2. p \in {<<x, y>> : x \in Sheets, y \in UNION {t.uses : t \in Sheets}}
      BY <2>1
    <2>3. p[1] = s /\ p[2] = f
      BY <2>1
    <2>4. ~(Uses(p[1], p[2]) /\ \E x \in Engines : StillServed(d, p[1].admin, x, p[2]))
      BY <2>1, <2>2 DEF Warnings
    <2> QED
      BY <2>3, <2>4 DEF Uses
  <1>6. ~ServedPage(d, s.admin, EngineUa(e, before))
    BY <1>1, <1>2, <1>3, <1>5 DEF StillServed
  <1>7. ServedPage(d, s.admin, EngineUa(e, v)) => ServedPage(d, s.admin, EngineUa(e, before))
    BY <1>3, <1>4 DEF Monotone
  <1> QED
    BY <1>6, <1>7

BrRequest ==
    [pc : {"idle", "epoch", "gate", "admitted", "load", "activate", "answered"},
     op : {"none", "save", "reset", "preview", "page"}, ua : UserAgents, preview : Int, posted : RuleSets,
     epoch : EpochWml .. EpochModern \cup {NoPreview}, loaded : RuleSets, warned : SUBSET WarningSet,
     reply : {"none", "bad", "conflict", "error", "forbidden", "done"}, alone : BOOLEAN, lost : BOOLEAN]

\* What a request knows whatever the others do.
OwnRequestInv(r) ==
    /\ r.loaded # NoRules => Valid(r.loaded)
    /\ r.pc \in {"load", "activate"} => r.op \in {"save", "reset"}
    /\ r.pc = "answered" /\ r.reply = "done" /\ r.op = "preview" => r.warned = Warnings(r.posted)

\* The rules a save that is alone leaves, or has posted so far.
RuleForms(r) == Valid(r.posted) /\ KeepsDashboard(r.posted, r.ua)

\* What one that no other overlapped knows of the document doc and of the rules act
\* in effect.
AloneKnows(r, doc, act) ==
    /\ r.pc = "admitted" => Classify(act, r.ua).dash
    /\ r.pc = "load" /\ r.op = "save" => doc = r.posted /\ RuleForms(r)
    /\ r.pc = "load" /\ r.op = "reset" /\ ~r.lost => doc = NoRules
    /\ r.pc = "activate" /\ r.op = "save" /\ ~r.lost => doc = r.posted /\ r.loaded = doc /\ RuleForms(r)
    /\ r.pc = "activate" /\ r.op = "reset" /\ ~r.lost => doc = NoRules /\ r.loaded = NoRules
    /\ r.pc = "answered" /\ r.op = "save" /\ r.reply = "done" /\ ~r.lost => doc = r.posted /\ act = doc /\ RuleForms(r)
    /\ r.pc = "answered" /\ r.op = "reset" /\ r.reply = "done" /\ ~r.lost => doc = NoRules /\ act = Factory

RulesOK(doc, act, n) == doc \in RuleSets /\ act \in RuleSets /\ (act # NoRules => Valid(act)) /\ n \in 0 .. MaxAsked

BrIInv ==
    /\ RulesOK(stored, activeRules, count)
    /\ asked \in [Handlers -> BrRequest]
    /\ \A h \in Handlers :
        /\ OwnRequestInv(asked[h])
        /\ asked[h].alone /\ asked[h].pc # "idle" =>
              /\ AloneKnows(asked[h], stored, activeRules)
              /\ \A k \in Handlers \ {h} : asked[k].pc = "idle"

LEMMA EnsuredIs ==
  ASSUME BrIInv
  PROVE  Ensured \in RuleSets /\ Ensured \in Documents /\ Valid(Ensured)
  <1>1. Ensured \in RuleSets /\ Valid(Ensured)
    BY BrowsersAssumption DEF BrIInv, RulesOK, Ensured, RuleSets
  <1> QED
    BY <1>1, RuleSetIs

\* A step of one request.
LEMMA MoveKept ==
  ASSUME BrIInv, NEW h \in Handlers, asked[h].pc # "idle", NEW q \in BrRequest, asked' = [asked EXCEPT ![h] = q],
         RulesOK(stored', activeRules', count'), OwnRequestInv(q),
         q.pc = "idle" \/ q.alone = asked[h].alone,
         q.alone /\ q.pc # "idle" => AloneKnows(q, stored', activeRules')
  PROVE  BrIInv'
  <1>1. asked' \in [Handlers -> BrRequest] /\ asked'[h] = q /\ \A k \in Handlers \ {h} : asked'[k] = asked[k]
    BY DEF BrIInv
  <1>2. ASSUME NEW k \in Handlers
        PROVE  /\ OwnRequestInv(asked'[k])
               /\ asked'[k].alone /\ asked'[k].pc # "idle" =>
                     /\ AloneKnows(asked'[k], stored', activeRules')
                     /\ \A j \in Handlers \ {k} : asked'[j].pc = "idle"
    <2>1. CASE k = h
      <3>1. q.alone /\ q.pc # "idle" => \A j \in Handlers \ {h} : asked'[j].pc = "idle"
        BY <1>1 DEF BrIInv
      <3> QED
        BY <1>1, <2>1, <3>1
    <2>2. CASE k # h
      <3>1. asked'[k] = asked[k] /\ OwnRequestInv(asked[k])
        BY <1>1, <2>2 DEF BrIInv
      <3>2. ~(asked[k].alone /\ asked[k].pc # "idle")
        BY <2>2 DEF BrIInv
      <3> QED
        BY <3>1, <3>2
    <2> QED
      BY <2>1, <2>2
  <1>3. RulesOK(stored, activeRules, count)'
    BY DEF RulesOK, RuleSets
  <1> QED
    BY <1>1, <1>2, <1>3 DEF BrIInv, OwnRequestInv, AloneKnows

LEMMA IdleIs ==
  Idle \in BrRequest /\ Idle.pc = "idle" /\ Idle.alone = TRUE /\ Idle.lost = FALSE /\ Idle.loaded = NoRules /\ Idle.warned = {}
  <1>1. PICK u \in UserAgents : u = CHOOSE x \in UserAgents : TRUE
    BY BrowsersAssumption
  <1>2. NoRules \in RuleSets
    BY DEF RuleSets
  <1>3. Idle = [pc |-> "idle", op |-> "none", ua |-> u, preview |-> NoPreview, posted |-> NoRules, epoch |-> NoPreview,
                loaded |-> NoRules, warned |-> {}, reply |-> "none", alone |-> TRUE, lost |-> FALSE]
    BY <1>1 DEF Idle
  <1>4. NoPreview \in Int /\ NoPreview \in EpochWml .. EpochModern \cup {NoPreview}
    BY DEF NoPreview
  <1> QED
    BY <1>2, <1>3, <1>4 DEF BrRequest

LEMMA BrInitially == BrInit => BrIInv
  <1>1. SUFFICES ASSUME BrInit PROVE BrIInv
    OBVIOUS
  <1>2. stored \in RuleSets /\ activeRules = NoRules /\ activeRules \in RuleSets /\ count \in 0 .. MaxAsked
    BY <1>1, BrowsersAssumption DEF BrInit, RuleSets
  <1>3. asked = [h \in Handlers |-> Idle]
    BY <1>1 DEF BrInit
  <1>4. asked \in [Handlers -> BrRequest] /\ \A h \in Handlers : asked[h] = Idle
    BY <1>3, IdleIs
  <1>5. \A h \in Handlers : OwnRequestInv(asked[h]) /\ asked[h].pc = "idle"
    BY <1>4, IdleIs DEF OwnRequestInv
  <1> QED
    BY <1>2, <1>4, <1>5 DEF BrIInv, RulesOK

LEMMA ArriveKept ==
  ASSUME BrIInv, NEW h \in Handlers, Arrive(h)
  PROVE  BrIInv'
  <1>1. /\ asked[h].pc = "idle" /\ count < MaxAsked /\ count' = count + 1 /\ UNCHANGED <<stored, activeRules>>
    BY DEF Arrive
  <1>2. PICK op \in {"save", "reset", "preview", "page"}, ua \in UserAgents, p \in Previews, d \in Posted :
          /\ op \in {"reset", "page"} => d = CHOOSE x \in Posted : TRUE
          /\ asked' = [x \in Handlers |->
              IF x = h
              THEN [Idle EXCEPT !.pc = "epoch", !.op = op, !.ua = ua, !.preview = p,
                                !.posted = d,
                                !.alone = \A y \in Handlers \ {h} : asked[y].pc = "idle"]
              ELSE IF asked[x].pc = "idle" THEN asked[x]
                   ELSE [asked[x] EXCEPT !.alone = FALSE]]
    BY Zenon DEF Arrive
  <1>3. PICK a \in BOOLEAN : a = (\A y \in Handlers \ {h} : asked[y].pc = "idle")
    OBVIOUS
  <1>4. PICK i \in BrRequest : i = Idle
    BY IdleIs
  <1>5. PICK q : q = [i EXCEPT !.pc = "epoch", !.op = op, !.ua = ua, !.preview = p, !.posted = d, !.alone = a]
    OBVIOUS
  <1>6. d \in RuleSets /\ p \in Int
    BY BrowsersAssumption DEF RuleSets
  <1>7. q \in BrRequest /\ q.pc = "epoch" /\ q.alone = a /\ q.loaded = NoRules
    BY <1>4, <1>5, <1>6, IdleIs DEF BrRequest
  <1>8. asked' = [x \in Handlers |-> IF x = h THEN q ELSE IF asked[x].pc = "idle" THEN asked[x]
                                     ELSE [asked[x] EXCEPT !.alone = FALSE]]
    BY <1>2, <1>3, <1>4, <1>5
  <1>9. ASSUME NEW k \in Handlers
        PROVE  /\ asked'[k] \in BrRequest /\ OwnRequestInv(asked'[k])
               /\ asked'[k].alone /\ asked'[k].pc # "idle" => k = h
    <2>1. CASE k = h
      BY <1>7, <1>8, <2>1 DEF OwnRequestInv
    <2>2. CASE k # h /\ asked[k].pc = "idle"
      BY <1>8, <2>2 DEF BrIInv
    <2>3. CASE k # h /\ asked[k].pc # "idle"
      <3>1. PICK r \in BrRequest : r = asked[k] /\ OwnRequestInv(r)
        BY DEF BrIInv
      <3>2. PICK r2 : r2 = [r EXCEPT !.alone = FALSE]
        OBVIOUS
      <3>3. /\ r2 \in BrRequest /\ r2.pc = r.pc /\ r2.op = r.op /\ r2.alone = FALSE /\ r2.loaded = r.loaded
            /\ r2.reply = r.reply /\ r2.warned = r.warned /\ r2.posted = r.posted
        BY <3>2 DEF BrRequest
      <3>4. OwnRequestInv(r2)
        BY <3>1, <3>3 DEF OwnRequestInv
      <3>5. asked'[k] = r2
        BY <1>8, <2>3, <3>1, <3>2
      <3> QED
        BY <3>3, <3>4, <3>5
    <2> QED
      BY <2>1, <2>2, <2>3
  <1>10. asked' \in [Handlers -> BrRequest]
    <2>1. asked' = [x \in Handlers |-> asked'[x]]
      BY <1>8
    <2> QED
      BY <1>9, <2>1
  <1>11. asked'[h] = q /\ (a => \A j \in Handlers \ {h} : asked'[j].pc = "idle")
    BY <1>3, <1>8
  <1>12. AloneKnows(q, stored', activeRules')
    BY <1>7 DEF AloneKnows
  <1>13. RulesOK(stored, activeRules, count)'
    <2>1. count' \in 0 .. MaxAsked
      BY <1>1, BrowsersAssumption DEF BrIInv, RulesOK
    <2> QED
      BY <1>1, <2>1 DEF BrIInv, RulesOK, RuleSets
  <1>14. ASSUME NEW k \in Handlers
         PROVE  asked'[k].alone /\ asked'[k].pc # "idle" =>
                     /\ AloneKnows(asked'[k], stored', activeRules')
                     /\ \A j \in Handlers \ {k} : asked'[j].pc = "idle"
    BY <1>7, <1>9, <1>11, <1>12
  <1> QED
    BY <1>9, <1>10, <1>13, <1>14 DEF BrIInv, OwnRequestInv, AloneKnows

LEMMA EpochKept ==
  ASSUME BrIInv, NEW h \in Handlers, ResolveEpoch(h)
  PROVE  BrIInv'
  <1>1. PICK r \in BrRequest : r = asked[h] /\ OwnRequestInv(r)
    BY DEF BrIInv
  <1>2. PICK e : e = ResolvedEpoch(r)
    OBVIOUS
  <1>3. r.pc = "epoch" /\ asked' = [asked EXCEPT ![h].pc = "gate", ![h].epoch = e] /\ UNCHANGED <<stored, count>>
        /\ activeRules' \in {activeRules, Ensured}
    BY <1>1, <1>2 DEF ResolveEpoch
  <1>4. e \in EpochWml .. EpochModern
    <2>1. EpochValid(Classify(Ensured, r.ua).epoch)
      <3>1. r.ua \in UserAgents
        BY DEF BrRequest
      <3> QED
        BY <3>1, EnsuredIs, EpochOfRules
    <2>2. EpochValid(EpochPrestandard)
      BY DEF EpochValid, EpochPrestandard, EpochWml, EpochModern
    <2>3. EpochValid(e)
      BY <1>2, <2>1, <2>2 DEF ResolvedEpoch
    <2> QED
      BY <2>3 DEF EpochValid
  <1>5. PICK q : q = [r EXCEPT !.pc = "gate", !.epoch = e]
    OBVIOUS
  <1>6. q \in BrRequest /\ q.pc = "gate" /\ q.loaded = r.loaded /\ q.alone = r.alone
    BY <1>4, <1>5 DEF BrRequest
  <1>7. asked' = [asked EXCEPT ![h] = q]
    BY <1>1, <1>3, <1>5 DEF BrIInv
  <1>8. OwnRequestInv(q)
    BY <1>1, <1>6 DEF OwnRequestInv
  <1>9. AloneKnows(q, stored', activeRules')
    BY <1>6 DEF AloneKnows
  <1>10. RulesOK(stored', activeRules', count')
    BY <1>3, EnsuredIs DEF BrIInv, RulesOK
  <1> QED
    BY <1>1, <1>3, <1>6, <1>7, <1>8, <1>9, <1>10, MoveKept

LEMMA GateKept ==
  ASSUME BrIInv, NEW h \in Handlers, Gate(h)
  PROVE  BrIInv'
  <1>1. PICK r \in BrRequest : r = asked[h] /\ OwnRequestInv(r)
    BY DEF BrIInv
  <1>2. /\ r.pc = "gate" /\ UNCHANGED <<stored, count>>
        /\ activeRules' = IF r.epoch = EpochModern THEN Ensured ELSE activeRules
        /\ asked' = IF DashboardAllowed(r) THEN [asked EXCEPT ![h].pc = "admitted"] ELSE Answer(h, "forbidden")
    BY <1>1 DEF Gate
  <1>3. RulesOK(stored', activeRules', count')
    BY <1>2, EnsuredIs DEF BrIInv, RulesOK
  <1>4. CASE DashboardAllowed(r)
    <2>1. PICK q : q = [r EXCEPT !.pc = "admitted"]
      OBVIOUS
    <2>2. q \in BrRequest /\ q.pc = "admitted" /\ q.loaded = r.loaded /\ q.alone = r.alone /\ q.ua = r.ua
      BY <2>1 DEF BrRequest
    <2>3. asked' = [asked EXCEPT ![h] = q]
      BY <1>1, <1>2, <1>4, <2>1 DEF BrIInv
    <2>4. Classify(activeRules', r.ua).dash
      BY <1>2, <1>4 DEF DashboardAllowed
    <2>5. AloneKnows(q, stored', activeRules')
      BY <2>2, <2>4 DEF AloneKnows
    <2>6. OwnRequestInv(q)
      BY <1>1, <2>2 DEF OwnRequestInv
    <2> QED
      BY <1>1, <1>2, <1>3, <2>2, <2>3, <2>5, <2>6, MoveKept
  <1>5. CASE ~DashboardAllowed(r)
    <2>1. PICK q : q = [r EXCEPT !.pc = "answered", !.reply = "forbidden"]
      OBVIOUS
    <2>2. q \in BrRequest /\ q.pc = "answered" /\ q.loaded = r.loaded /\ q.alone = r.alone /\ q.reply = "forbidden"
      BY <2>1 DEF BrRequest
    <2>3. asked' = [asked EXCEPT ![h] = q]
      BY <1>1, <1>2, <1>5, <2>1 DEF BrIInv, Answer
    <2>4. AloneKnows(q, stored', activeRules') /\ OwnRequestInv(q)
      BY <1>1, <2>2 DEF AloneKnows, OwnRequestInv
    <2> QED
      BY <1>1, <1>2, <1>3, <2>2, <2>3, <2>4, MoveKept
  <1> QED
    BY <1>4, <1>5

\* An answer other than "done".
LEMMA RefusedKept ==
  ASSUME BrIInv, NEW h \in Handlers, asked[h].pc # "idle", NEW given \in {"bad", "conflict", "error", "forbidden"},
         asked' = Answer(h, given), RulesOK(stored', activeRules', count')
  PROVE  BrIInv'
  <1>1. PICK r \in BrRequest : r = asked[h] /\ OwnRequestInv(r)
    BY DEF BrIInv
  <1>2. PICK q : q = [r EXCEPT !.pc = "answered", !.reply = given]
    OBVIOUS
  <1>3. q \in BrRequest /\ q.pc = "answered" /\ q.loaded = r.loaded /\ q.alone = r.alone /\ q.reply = given
    BY <1>2 DEF BrRequest
  <1>4. asked' = [asked EXCEPT ![h] = q]
    BY <1>1, <1>2 DEF BrIInv, Answer
  <1>5. AloneKnows(q, stored', activeRules') /\ OwnRequestInv(q)
    BY <1>1, <1>3 DEF AloneKnows, OwnRequestInv
  <1> QED
    BY <1>1, <1>3, <1>4, <1>5, MoveKept

LEMMA SaveKept ==
  ASSUME BrIInv, NEW h \in Handlers, SaveRules(h)
  PROVE  BrIInv'
  <1>1. PICK r \in BrRequest : r = asked[h] /\ OwnRequestInv(r)
    BY DEF BrIInv
  <1>2. r.pc = "admitted" /\ r.op = "save" /\ UNCHANGED <<activeRules, count>>
    BY <1>1 DEF SaveRules
  <1>3. \/ \E given \in {"bad", "conflict", "error"} : asked' = Answer(h, given) /\ UNCHANGED stored
        \/ Valid(r.posted) /\ KeptUnderPosted(r) /\ stored' = r.posted /\ asked' = [asked EXCEPT ![h].pc = "load"]
    BY <1>1 DEF SaveRules
  <1>4. CASE \E given \in {"bad", "conflict", "error"} : asked' = Answer(h, given) /\ UNCHANGED stored
    <2>1. RulesOK(stored', activeRules', count')
      BY <1>2, <1>4 DEF BrIInv
    <2> QED
      BY <1>1, <1>2, <1>4, <2>1, RefusedKept
  <1>5. CASE Valid(r.posted) /\ KeptUnderPosted(r) /\ stored' = r.posted /\ asked' = [asked EXCEPT ![h].pc = "load"]
    <2>1. PICK q : q = [r EXCEPT !.pc = "load"]
      OBVIOUS
    <2>2. q \in BrRequest /\ q.pc = "load" /\ q.op = "save" /\ q.loaded = r.loaded /\ q.alone = r.alone /\ q.posted = r.posted /\ q.ua = r.ua
      BY <1>2, <2>1 DEF BrRequest
    <2>3. asked' = [asked EXCEPT ![h] = q]
      BY <1>1, <1>5, <2>1 DEF BrIInv
    <2>4. AloneKnows(q, stored', activeRules')
      BY <1>5, <2>2 DEF AloneKnows, RuleForms, KeptUnderPosted
    <2>5. OwnRequestInv(q)
      BY <1>1, <2>2 DEF OwnRequestInv
    <2>6. RulesOK(stored', activeRules', count')
      BY <1>2, <1>5 DEF BrIInv, RulesOK, BrRequest
    <2> QED
      BY <1>1, <1>2, <2>2, <2>3, <2>4, <2>5, <2>6, MoveKept
  <1> QED
    BY <1>3, <1>4, <1>5

LEMMA ResetKept ==
  ASSUME BrIInv, NEW h \in Handlers, Reset(h)
  PROVE  BrIInv'
  <1>1. PICK r \in BrRequest : r = asked[h] /\ OwnRequestInv(r)
    BY DEF BrIInv
  <1>2. r.pc = "admitted" /\ r.op = "reset" /\ UNCHANGED <<activeRules, count>>
    BY <1>1 DEF Reset
  <1>3. PICK l \in BOOLEAN : l = IF asked' = [asked EXCEPT ![h].pc = "load"] /\ stored' = NoRules THEN r.lost ELSE TRUE
    BY DEF BrRequest
  <1>4. PICK q : q = [r EXCEPT !.pc = "load", !.lost = l]
    OBVIOUS
  <1>5. q \in BrRequest /\ q.pc = "load" /\ q.op = "reset" /\ q.loaded = r.loaded /\ q.alone = r.alone /\ q.lost = l
    BY <1>2, <1>4 DEF BrRequest
  <1>6. asked' = [asked EXCEPT ![h] = q] /\ stored' \in {stored, NoRules} /\ (~l => stored' = NoRules)
    <2>1. CASE asked' = [asked EXCEPT ![h].pc = "load"] /\ stored' = NoRules
      <3>1. q = [r EXCEPT !.pc = "load"]
        BY <1>3, <1>4, <2>1 DEF BrRequest
      <3> QED
        BY <1>1, <2>1, <3>1 DEF BrIInv
    <2>2. CASE ~(asked' = [asked EXCEPT ![h].pc = "load"] /\ stored' = NoRules)
      <3>1. asked' = [asked EXCEPT ![h].pc = "load", ![h].lost = TRUE] /\ UNCHANGED stored
        BY <2>2 DEF Reset
      <3>2. l = TRUE
        BY <1>3, <2>2
      <3> QED
        BY <1>1, <1>4, <3>1, <3>2 DEF BrIInv
    <2> QED
      BY <2>1, <2>2
  <1>7. OwnRequestInv(q) /\ AloneKnows(q, stored', activeRules')
    BY <1>1, <1>5, <1>6 DEF OwnRequestInv, AloneKnows
  <1>8. RulesOK(stored', activeRules', count')
    BY <1>2, <1>6 DEF BrIInv, RulesOK, RuleSets
  <1> QED
    BY <1>1, <1>2, <1>5, <1>6, <1>7, <1>8, MoveKept

LEMMA UsableIs ==
  ASSUME NEW d \in RuleSets
  PROVE  /\ Usable(d) \in RuleSets /\ (Usable(d) # NoRules => Valid(Usable(d)) /\ Usable(d) = d)
         /\ (Valid(d) => Usable(d) = d /\ d # NoRules) /\ Usable(NoRules) = NoRules /\ ~Valid(NoRules)
  <1>1. ~Valid(NoRules)
    BY DEF Valid, NoRules, EpochValid, EpochWml, EpochModern
  <1> QED
    BY <1>1 DEF Usable, RuleSets

LEMMA LoadKept ==
  ASSUME BrIInv, NEW h \in Handlers, Load(h)
  PROVE  BrIInv'
  <1>1. PICK r \in BrRequest : r = asked[h] /\ OwnRequestInv(r)
    BY DEF BrIInv
  <1>2. r.pc = "load" /\ UNCHANGED <<stored, activeRules, count>> /\ r.op \in {"save", "reset"} /\ stored \in RuleSets
    BY <1>1 DEF Load, OwnRequestInv, BrIInv, RulesOK
  <1>3. PICK d, u : d = Usable(stored) /\ u = stored
    OBVIOUS
  <1>4. d \in RuleSets /\ NoRules \in RuleSets /\ (d # NoRules => Valid(d)) /\ (Valid(u) => d = u) /\ (u = NoRules => d = NoRules)
    BY <1>2, <1>3, UsableIs DEF RuleSets
  <1>5. r.alone => AloneKnows(r, u, activeRules)
    BY <1>1, <1>2, <1>3 DEF BrIInv
  <1>6. RulesOK(stored', activeRules', count')
    BY <1>2 DEF BrIInv
  <1>7. CASE asked' = [asked EXCEPT ![h].pc = "activate", ![h].loaded = d]
    <2>1. PICK q : q = [r EXCEPT !.pc = "activate", !.loaded = d]
      OBVIOUS
    <2>2. /\ q \in BrRequest /\ q.pc = "activate" /\ q.op = r.op /\ q.loaded = d /\ q.alone = r.alone /\ q.lost = r.lost
          /\ q.posted = r.posted /\ q.ua = r.ua
      BY <1>4, <2>1 DEF BrRequest
    <2>3. asked' = [asked EXCEPT ![h] = q]
      BY <1>1, <1>7, <2>1 DEF BrIInv
    <2>4. OwnRequestInv(q)
      BY <1>1, <1>2, <1>4, <2>2 DEF OwnRequestInv
    <2>5. r.alone => AloneKnows(q, u, activeRules)
      BY <1>2, <1>4, <1>5, <2>2 DEF AloneKnows, RuleForms
    <2>6. q.alone /\ q.pc # "idle" => AloneKnows(q, stored', activeRules')
      BY <1>2, <1>3, <2>2, <2>5
    <2> QED
      BY <1>1, <1>2, <1>6, <2>2, <2>3, <2>4, <2>6, MoveKept
  <1>8. CASE asked' = [asked EXCEPT ![h].pc = "activate", ![h].loaded = NoRules, ![h].lost = TRUE]
    <2>1. PICK q : q = [r EXCEPT !.pc = "activate", !.loaded = NoRules, !.lost = TRUE]
      OBVIOUS
    <2>2. q \in BrRequest /\ q.pc = "activate" /\ q.op = r.op /\ q.loaded = NoRules /\ q.alone = r.alone /\ q.lost = TRUE
      BY <1>4, <2>1 DEF BrRequest
    <2>3. asked' = [asked EXCEPT ![h] = q]
      BY <1>1, <1>8, <2>1 DEF BrIInv
    <2>4. OwnRequestInv(q) /\ AloneKnows(q, stored', activeRules')
      BY <1>2, <2>2 DEF OwnRequestInv, AloneKnows
    <2> QED
      BY <1>1, <1>2, <1>6, <2>2, <2>3, <2>4, MoveKept
  <1> QED
    BY <1>3, <1>7, <1>8 DEF Load

LEMMA ActivateKept ==
  ASSUME BrIInv, NEW h \in Handlers, ActivateRules(h)
  PROVE  BrIInv'
  <1>1. PICK r \in BrRequest : r = asked[h] /\ OwnRequestInv(r)
    BY DEF BrIInv
  <1>2. /\ r.pc = "activate" /\ UNCHANGED <<stored, count>> /\ r.op \in {"save", "reset"}
        /\ activeRules' = Activated(r.loaded) /\ asked' = Answer(h, "done")
    BY <1>1 DEF ActivateRules, OwnRequestInv
  <1>3. PICK q : q = [r EXCEPT !.pc = "answered", !.reply = "done"]
    OBVIOUS
  <1>4. /\ q \in BrRequest /\ q.pc = "answered" /\ q.op = r.op /\ q.loaded = r.loaded /\ q.alone = r.alone /\ q.lost = r.lost
        /\ q.posted = r.posted /\ q.ua = r.ua
    BY <1>3 DEF BrRequest
  <1>5. asked' = [asked EXCEPT ![h] = q]
    BY <1>1, <1>2, <1>3 DEF BrIInv, Answer
  <1>6. OwnRequestInv(q)
    BY <1>1, <1>2, <1>4 DEF OwnRequestInv
  <1>7. r.alone => AloneKnows(r, stored, activeRules)
    BY <1>1, <1>2 DEF BrIInv
  <1>8. Valid(r.posted) => r.posted # NoRules
    <2>1. ~Valid(NoRules)
      BY DEF Valid, NoRules, EpochValid, EpochWml, EpochModern
    <2> QED
      BY <2>1
  <1>9. q.alone => AloneKnows(q, stored', activeRules')
    BY <1>2, <1>4, <1>7, <1>8 DEF AloneKnows, RuleForms, Activated
  <1>10. RulesOK(stored', activeRules', count')
    <2>1. Activated(r.loaded) \in RuleSets /\ Valid(Activated(r.loaded))
      BY <1>1, BrowsersAssumption DEF Activated, OwnRequestInv, BrRequest, RuleSets
    <2> QED
      BY <1>2, <2>1 DEF BrIInv, RulesOK
  <1> QED
    BY <1>1, <1>2, <1>4, <1>5, <1>6, <1>9, <1>10, MoveKept

LEMMA PreviewKept ==
  ASSUME BrIInv, NEW h \in Handlers, Preview(h)
  PROVE  BrIInv'
  <1>1. PICK r \in BrRequest : r = asked[h] /\ OwnRequestInv(r)
    BY DEF BrIInv
  <1>2. PICK w : w = Warnings(r.posted)
    OBVIOUS
  <1>3. /\ r.pc = "admitted" /\ r.op = "preview" /\ activeRules' = Ensured /\ UNCHANGED <<stored, count>>
        /\ asked' = IF Valid(r.posted) THEN [Answer(h, "done") EXCEPT ![h].warned = w] ELSE Answer(h, "bad")
    BY <1>1, <1>2 DEF Preview
  <1>4. RulesOK(stored', activeRules', count')
    BY <1>3, EnsuredIs DEF BrIInv, RulesOK
  <1>5. CASE Valid(r.posted)
    <2>1. w \in SUBSET WarningSet
      BY <1>2 DEF Warnings, WarningSet
    <2>2. PICK q : q = [r EXCEPT !.pc = "answered", !.reply = "done", !.warned = w]
      OBVIOUS
    <2>3. q \in BrRequest /\ q.pc = "answered" /\ q.op = "preview" /\ q.loaded = r.loaded /\ q.alone = r.alone /\ q.posted = r.posted /\ q.warned = w
      BY <1>3, <2>1, <2>2 DEF BrRequest
    <2>4. asked' = [asked EXCEPT ![h] = q]
      BY <1>1, <1>3, <1>5, <2>2 DEF BrIInv, Answer
    <2>5. OwnRequestInv(q) /\ AloneKnows(q, stored', activeRules')
      BY <1>1, <1>2, <2>3 DEF OwnRequestInv, AloneKnows
    <2> QED
      BY <1>1, <1>3, <1>4, <2>3, <2>4, <2>5, MoveKept
  <1>6. CASE ~Valid(r.posted)
    BY <1>1, <1>3, <1>4, <1>6, RefusedKept
  <1> QED
    BY <1>5, <1>6

LEMMA PageKept ==
  ASSUME BrIInv, NEW h \in Handlers, Page(h)
  PROVE  BrIInv'
  <1>1. PICK r \in BrRequest : r = asked[h] /\ OwnRequestInv(r)
    BY DEF BrIInv
  <1>2. PICK d \in {Usable(stored), NoRules} :
        /\ activeRules' = IF d = NoRules THEN Ensured ELSE activeRules
        /\ asked' = [Answer(h, "done") EXCEPT ![h].loaded = IF d = NoRules THEN Ensured ELSE d]
    BY DEF Page
  <1>3. r.pc = "admitted" /\ r.op = "page" /\ UNCHANGED <<stored, count>>
    BY <1>1 DEF Page
  <1>4. PICK l : l = IF d = NoRules THEN Ensured ELSE d
    OBVIOUS
  <1>5. l \in RuleSets /\ Valid(l)
    <2>1. stored \in RuleSets
      BY DEF BrIInv, RulesOK
    <2> QED
      BY <1>4, <2>1, EnsuredIs, UsableIs
  <1>6. PICK q : q = [r EXCEPT !.pc = "answered", !.reply = "done", !.loaded = l]
    OBVIOUS
  <1>7. q \in BrRequest /\ q.pc = "answered" /\ q.op = "page" /\ q.loaded = l /\ q.alone = r.alone
    BY <1>3, <1>5, <1>6 DEF BrRequest
  <1>8. asked' = [asked EXCEPT ![h] = q]
    BY <1>1, <1>2, <1>4, <1>6 DEF BrIInv, Answer
  <1>9. OwnRequestInv(q) /\ AloneKnows(q, stored', activeRules')
    BY <1>5, <1>7 DEF OwnRequestInv, AloneKnows
  <1>10. RulesOK(stored', activeRules', count')
    BY <1>2, <1>3, EnsuredIs DEF BrIInv, RulesOK
  <1> QED
    BY <1>1, <1>3, <1>7, <1>8, <1>9, <1>10, MoveKept

LEMMA FinishKept ==
  ASSUME BrIInv, NEW h \in Handlers, FinishRequest(h)
  PROVE  BrIInv'
  <1>1. PICK q \in BrRequest : q = Idle
    BY IdleIs
  <1>2. asked[h].pc # "idle" /\ asked' = [asked EXCEPT ![h] = q] /\ UNCHANGED <<stored, activeRules, count>>
    BY <1>1 DEF FinishRequest
  <1>3. q.pc = "idle" /\ OwnRequestInv(q)
    BY <1>1, IdleIs DEF OwnRequestInv
  <1>4. RulesOK(stored', activeRules', count')
    BY <1>2 DEF BrIInv
  <1> QED
    BY <1>2, <1>3, <1>4, MoveKept

LEMMA RestartKept ==
  ASSUME BrIInv, Restart
  PROVE  BrIInv'
  <1>1. asked' = [h \in Handlers |-> Idle] /\ UNCHANGED <<stored, count>>
    BY DEF Restart
  <1>2. PICK d \in {Usable(stored), NoRules} : activeRules' = Activated(d)
    BY DEF Restart
  <1>3. Activated(d) \in RuleSets /\ Valid(Activated(d))
    <2>1. stored \in RuleSets
      BY DEF BrIInv, RulesOK
    <2>2. d = NoRules \/ (d \in RuleSets /\ Valid(d))
      BY <2>1, UsableIs
    <2> QED
      BY <2>2, BrowsersAssumption DEF Activated, RuleSets
  <1>4. asked' \in [Handlers -> BrRequest] /\ \A h \in Handlers : asked'[h] = Idle
    BY <1>1, IdleIs
  <1>5. \A h \in Handlers : OwnRequestInv(asked'[h]) /\ asked'[h].pc = "idle"
    BY <1>4, IdleIs DEF OwnRequestInv
  <1>6. RulesOK(stored, activeRules, count)'
    BY <1>1, <1>2, <1>3 DEF BrIInv, RulesOK, RuleSets
  <1> QED
    BY <1>4, <1>5, <1>6 DEF BrIInv, OwnRequestInv

LEMMA BrStays ==
  ASSUME BrIInv, UNCHANGED brVars
  PROVE  BrIInv'
  <1>1. stored' = stored /\ activeRules' = activeRules /\ count' = count /\ asked' = asked
    BY DEF brVars
  <1> QED
    BY <1>1 DEF BrIInv, RulesOK, RuleSets, OwnRequestInv, AloneKnows

LEMMA BrInductive == BrSpec => []BrIInv
  <1>1. BrIInv /\ [BrNext]_brVars => BrIInv'
    BY ArriveKept, EpochKept, GateKept, SaveKept, ResetKept, LoadKept, ActivateKept, PreviewKept, PageKept, FinishKept,
       RestartKept, BrStays DEF BrNext
  <1> QED
    BY <1>1, BrInitially, PTL DEF BrSpec

LEMMA BrIInvShows == BrIInv => BrowsersInv
  <1>1. SUFFICES ASSUME BrIInv PROVE BrowsersInv
    OBVIOUS
  <1>2. \A h \in Handlers : asked[h] \in BrRequest
    BY <1>1 DEF BrIInv
  <1>3. BrTypeOK
    BY <1>1, <1>2 DEF BrIInv, RulesOK, BrTypeOK, BrRequest
  <1>4. SaverInCharge
    BY <1>1 DEF BrIInv, SaverInCharge, AloneKnows, RuleForms
  <1>5. ResetApplies
    BY <1>1 DEF BrIInv, ResetApplies, AloneKnows
  <1>6. NoLift
    BY <1>1 DEF BrIInv, NoLift, AloneKnows
  <1>7. HighestTierWins
    <2>1. activeRules \in Documents
      BY <1>1, RuleSetIs DEF BrIInv, RulesOK
    <2>2. CASE activeRules = NoRules
      <3>1. \A ua \in UserAgents : Matching(activeRules, ua) = {}
        BY <2>2 DEF Matching, NoRules
      <3> QED
        BY <3>1 DEF HighestTierWins
    <2>3. CASE activeRules # NoRules
      <3>1. Valid(activeRules)
        BY <1>1, <2>3 DEF BrIInv, RulesOK
      <3> QED
        BY <2>1, <3>1, HighestOfRules DEF HighestTierWins
    <2> QED
      BY <2>2, <2>3
  <1>8. WarningsComplete
    <2>1. SUFFICES ASSUME NEW h \in Handlers, asked[h].pc = "answered", asked[h].op = "preview", asked[h].reply = "done",
                          NEW s \in Sheets, NEW e \in Engines, Monotone(asked[h].posted, s.admin, e),
                          NEW f \in s.uses, <<s, f>> \notin asked[h].warned,
                          NEW v \in ProbeVersions, ~AtLeast(v, FirstWith(f, e))
                   PROVE  ~ServedPage(asked[h].posted, s.admin, EngineUa(e, v))
      BY DEF WarningsComplete
    <2>2. PICK d : d = asked[h].posted
      OBVIOUS
    <2>3. <<s, f>> \notin Warnings(d)
      BY <1>1, <2>1, <2>2 DEF BrIInv, OwnRequestInv
    <2> QED
      BY <2>1, <2>2, <2>3, WarningsRight
  <1> QED
    BY <1>3, <1>4, <1>5, <1>6, <1>7, <1>8 DEF BrowsersInv

\* However many requests overlap, whatever is posted, stored or unreadable and however
\* the server restarts: a save or a reset that was alone leaves what it said stored and
\* in effect, dashboard_allowed() goes by the real browser, the rules say of it what
\* their highest tier says, and a preview that does not warn is right.
THEOREM BrowsersInvThm == BrSpec => []BrowsersInv
  BY BrInductive, BrIInvShows, PTL
=============================================================================
