-------------------------- MODULE ConnectionProofs --------------------------
(***************************************************************************)
(* For any keys, callers and limits: the pool of MCP connections keeps its *)
(* size, has one session per key, and only open ones nobody else handles.  *)
(***************************************************************************)
EXTENDS ClientConnections, FiniteSetTheorems, SequenceTheorems, TLAPS

Entries == [key : Keys, session : Nat \ {0}]
Places == Holding \cup {"idle", "waiting", "got"}

ConnectionTypeOK ==
    /\ pool \in Seq(Entries)
    /\ open \subseteq Nat /\ started \in Nat
    /\ lapsed \subseteq Nat /\ cooling \subseteq Keys
    /\ lock \in BOOLEAN
    /\ caller \in [Callers -> [pc : Places, key : Keys \cup {"none"}, session : Nat]]

\* One entry per key and per session; sessions are those that were started.
Distinct(s) ==
    \A i, j \in DOMAIN s : s[i].key = s[j].key \/ s[i].session = s[j].session => i = j

PoolInv ==
    /\ Distinct(pool)
    /\ Len(pool) <= MaxConnections
    /\ \A i \in DOMAIN pool : pool[i].session <= started /\ pool[i].session \in open

\* Whoever is past the lookup holds the lock alone; what it looked up is still
\* missing, what it works on is not in the pool, and a server starts only when
\* there is room for it.
LockInv ==
    \A c \in Callers :
        /\ caller[c].pc # "idle" => caller[c].key \in Keys
        /\ caller[c].session <= started
        /\ caller[c].pc \in Holding =>
              /\ lock
              /\ \A d \in Callers : caller[d].pc \in Holding => d = c
              /\ \A i \in DOMAIN pool : /\ pool[i].key # caller[c].key
                                        /\ pool[i].session # caller[c].session
        /\ caller[c].pc \in {"connecting", "starting"} => Len(pool) < MaxConnections
        /\ caller[c].pc = "starting" => caller[c].session \in open \ {0}

ConnectionInv == ConnectionTypeOK /\ PoolInv /\ LockInv

LEMMA InitConnections == ConnectionInit => ConnectionInv
<1> SUFFICES ASSUME ConnectionInit PROVE ConnectionInv
  OBVIOUS
<1>1. NoRequest \in [pc : Places, key : Keys \cup {"none"}, session : Nat]
  BY DEF NoRequest, Places
<1>2. NoRequest.pc = "idle" /\ NoRequest.session = 0 /\ "idle" \notin Holding
  BY DEF NoRequest, Holding
<1>3. ConnectionTypeOK
  <2>1. caller \in [Callers -> [pc : Places, key : Keys \cup {"none"}, session : Nat]]
    BY <1>1 DEF ConnectionInit
  <2>2. pool \in Seq(Entries)
    BY DEF ConnectionInit
  <2> QED
    BY <2>1, <2>2 DEF ConnectionInit, ConnectionTypeOK
<1>4. PoolInv
  BY ConnectionAssumption DEF ConnectionInit, PoolInv, Distinct
<1>5. LockInv
  BY <1>2 DEF ConnectionInit, LockInv, Holding
<1> QED
  BY <1>3, <1>4, <1>5 DEF ConnectionInv

\* The place of a cached key, and the pool without it.
LEMMA PlaceFacts ==
  ASSUME ConnectionInv, NEW k \in Keys, Cached(k)
  PROVE  /\ Place(k) \in DOMAIN pool /\ PoolEntry(k).key = k /\ PoolEntry(k) \in Entries
         /\ Without(k) \in Seq(Entries)
         /\ Len(Without(k)) = Len(pool) - 1
         /\ \A i \in DOMAIN Without(k) :
               \E j \in DOMAIN pool : /\ Without(k)[i] = pool[j]
                                      /\ j # Place(k)
                                      /\ j = IF i < Place(k) THEN i ELSE i + 1
<1> DEFINE p == Place(k)
           n == Len(pool)
           s == SubSeq(pool, 1, p - 1)
           t == SubSeq(pool, p + 1, n)
<1>0. pool \in Seq(Entries) /\ n \in Nat /\ DOMAIN pool = 1 .. n
  BY DEF ConnectionInv, ConnectionTypeOK
<1>1. p \in 1 .. n /\ pool[p].key = k
  BY <1>0 DEF Cached, Pooled, Place
<1>2. pool[p] \in Entries
  BY <1>0, <1>1
<1> HIDE DEF p
<1>3. /\ s \in Seq(Entries) /\ Len(s) = p - 1
      /\ \A i \in 1 .. p - 1 : s[i] = pool[i]
  BY <1>0, <1>1
<1>4. /\ t \in Seq(Entries) /\ Len(t) = n - p
      /\ \A i \in 1 .. n - p : t[i] = pool[p + i]
  <2>1. p + 1 \in 1 .. n + 1 /\ n \in p + 1 - 1 .. n /\ p + 1 - 1 = p
    BY <1>0, <1>1
  <2>2. /\ t \in Seq(Entries)
        /\ Len(t) = IF p + 1 <= n THEN n - (p + 1) + 1 ELSE 0
        /\ \A i \in 1 .. n - (p + 1) + 1 : t[i] = pool[(p + 1) + i - 1]
    BY <1>0, <2>1, SubSeqProperties
  <2> HIDE DEF s, t, n
  <2>3. Len(t) = n - p
    <3>1. n \in Nat /\ p \in Nat /\ p <= n
      BY <1>0, <1>1
    <3>2. CASE p < n
      <4>1. p + 1 <= n /\ n - (p + 1) + 1 = n - p
        BY <3>1, <3>2
      <4> QED
        BY <2>2, <4>1
    <3>3. CASE p = n
      <4>1. ~ (p + 1 <= n) /\ n - p = 0
        BY <3>1, <3>3
      <4> QED
        BY <2>2, <4>1
    <3> QED
      BY <3>1, <3>2, <3>3
  <2>4. ASSUME NEW i \in 1 .. n - p PROVE t[i] = pool[p + i]
    <3>1. i \in 1 .. n - (p + 1) + 1 /\ (p + 1) + i - 1 = p + i
      BY <1>0, <1>1
    <3> QED
      BY <2>2, <3>1
  <2> QED
    BY <2>2, <2>3, <2>4
<1> HIDE DEF s, t
<1>5. /\ s \o t \in Seq(Entries) /\ Len(s \o t) = n - 1
      /\ \A i \in 1 .. n - 1 : (s \o t)[i] = IF i < p THEN pool[i] ELSE pool[i + 1]
  <2>1. s \o t \in Seq(Entries) /\ Len(s \o t) = Len(s) + Len(t)
    BY <1>3, <1>4
  <2>2. ASSUME NEW i \in 1 .. n - 1
        PROVE  (s \o t)[i] = IF i < p THEN pool[i] ELSE pool[i + 1]
    <3>1. CASE i < p
      BY <1>1, <1>3, <1>4, <3>1
    <3>2. CASE i >= p
      <4>1. (s \o t)[i] = t[i - (p - 1)] /\ i - (p - 1) \in 1 .. n - p
        BY <1>0, <1>1, <1>3, <1>4, <3>2
      <4>2. p + (i - (p - 1)) = i + 1
        BY <1>0, <1>1
      <4> QED
        BY <1>1, <1>4, <3>2, <4>1, <4>2
    <3>3. i < p \/ i >= p
      BY <1>1
    <3> QED
      BY <3>1, <3>2, <3>3
  <2> QED
    BY <1>0, <1>1, <1>3, <1>4, <2>1, <2>2
<1>6. Without(k) = s \o t
  BY DEF Without, s, t, p
<1>7. DOMAIN (s \o t) = 1 .. n - 1
  BY <1>5
<1>8. ASSUME NEW i \in 1 .. n - 1
      PROVE  \E j \in DOMAIN pool : /\ (s \o t)[i] = pool[j]
                                    /\ j # p
                                    /\ j = IF i < p THEN i ELSE i + 1
  <2> DEFINE j == IF i < p THEN i ELSE i + 1
  <2>1. j \in DOMAIN pool /\ j # p /\ (s \o t)[i] = pool[j]
    BY <1>0, <1>1, <1>5
  <2> QED
    BY <2>1
<1> QED
  BY <1>0, <1>1, <1>2, <1>5, <1>6, <1>7, <1>8 DEF PoolEntry, p

\* What is left of the pool is distinct still, and does not have what was taken
\* out of it.
LEMMA WithoutFacts ==
  ASSUME ConnectionInv, NEW k \in Keys, Cached(k)
  PROVE  /\ Without(k) \in Seq(Entries) /\ Len(Without(k)) = Len(pool) - 1
         /\ Distinct(Without(k))
         /\ \A i \in DOMAIN Without(k) : LET e == Without(k)[i] IN
               /\ e \in Pooled
               /\ e.key # k /\ e.session # PoolEntry(k).session
         /\ PoolEntry(k) \in Pooled /\ PoolEntry(k) \in Entries /\ PoolEntry(k).key = k
<1> DEFINE s == Without(k)
           p == Place(k)
<1>1. /\ p \in DOMAIN pool /\ s \in Seq(Entries) /\ Len(s) = Len(pool) - 1
      /\ PoolEntry(k) = pool[p] /\ PoolEntry(k).key = k /\ PoolEntry(k) \in Entries
      /\ \A i \in DOMAIN s : \E j \in DOMAIN pool :
            s[i] = pool[j] /\ j # p /\ j = IF i < p THEN i ELSE i + 1
  BY PlaceFacts DEF PoolEntry
<1> HIDE DEF s, p
<1>2. DOMAIN pool \subseteq Nat /\ DOMAIN s \subseteq Nat /\ Distinct(pool)
  BY <1>1 DEF ConnectionInv, ConnectionTypeOK, PoolInv
<1>3. Distinct(s)
  <2> SUFFICES ASSUME NEW i \in DOMAIN s, NEW j \in DOMAIN s,
                      s[i].key = s[j].key \/ s[i].session = s[j].session
               PROVE  i = j
    BY DEF Distinct
  <2>1. PICK m \in DOMAIN pool : s[i] = pool[m] /\ m = IF i < p THEN i ELSE i + 1
    BY <1>1
  <2>2. PICK n \in DOMAIN pool : s[j] = pool[n] /\ n = IF j < p THEN j ELSE j + 1
    BY <1>1
  <2>3. m = n
    BY <1>2, <2>1, <2>2 DEF Distinct
  <2> QED
    BY <1>1, <1>2, <2>1, <2>2, <2>3
<1>4. ASSUME NEW i \in DOMAIN s
      PROVE  s[i] \in Pooled /\ s[i].key # k /\ s[i].session # PoolEntry(k).session
  <2>1. PICK m \in DOMAIN pool : s[i] = pool[m] /\ m # p
    BY <1>1, <1>4
  <2> QED
    BY <1>1, <1>2, <2>1 DEF Distinct, Pooled
<1> QED
  BY <1>1, <1>3, <1>4 DEF s, Pooled

\* An entry behind entries it shares nothing with.
LEMMA AppendFacts ==
  ASSUME NEW s \in Seq(Entries), NEW e \in Entries, Distinct(s),
         \A i \in DOMAIN s : s[i].key # e.key /\ s[i].session # e.session
  PROVE  /\ Append(s, e) \in Seq(Entries) /\ Distinct(Append(s, e))
         /\ Len(Append(s, e)) = Len(s) + 1
         /\ \A i \in DOMAIN Append(s, e) :
               Append(s, e)[i] = e \/ \E j \in DOMAIN s : Append(s, e)[i] = s[j]
<1> DEFINE t == Append(s, e)
<1>1. /\ t \in Seq(Entries) /\ Len(t) = Len(s) + 1 /\ Len(s) \in Nat
      /\ DOMAIN t = 1 .. Len(s) + 1 /\ DOMAIN s = 1 .. Len(s)
      /\ \A i \in 1 .. Len(s) : t[i] = s[i]
      /\ t[Len(s) + 1] = e
  OBVIOUS
<1> HIDE DEF t
<1>2. \A i \in DOMAIN t : i \in DOMAIN s \/ i = Len(s) + 1
  BY <1>1
<1>3. Distinct(t)
  BY <1>1, <1>2 DEF Distinct
<1>4. \A i \in DOMAIN t : t[i] = e \/ \E j \in DOMAIN s : t[i] = s[j]
  BY <1>1, <1>2
<1> QED
  BY <1>1, <1>3, <1>4 DEF t

\* A step of caller c: either nobody else is past the lookup, or nothing such
\* a caller relies on changes.
LEMMA OneCaller ==
  ASSUME ConnectionInv, NEW c \in Callers, ConnectionTypeOK', PoolInv',
         NEW r, caller' = [caller EXCEPT ![c] = r], started <= started',
         \/ \A d \in Callers : d # c => caller[d].pc \notin Holding
         \/ UNCHANGED <<lock, pool, open>> /\ r.pc \notin Holding,
         r.pc # "idle" => r.key \in Keys,
         r.session <= started',
         r.pc \in Holding =>
            /\ lock'
            /\ \A i \in DOMAIN pool' : pool'[i].key # r.key /\ pool'[i].session # r.session,
         r.pc \in {"connecting", "starting"} => Len(pool') < MaxConnections,
         r.pc = "starting" => r.session \in open' \ {0}
  PROVE  ConnectionInv'
<1>1. /\ caller'[c] = r
      /\ \A d \in Callers : d # c => caller'[d] = caller[d]
  BY DEF ConnectionInv, ConnectionTypeOK
<1>2. /\ started \in Nat /\ started' \in Nat
      /\ \A d \in Callers : caller[d].session \in Nat
  BY DEF ConnectionInv, ConnectionTypeOK
<1>3. {"connecting", "starting"} \subseteq Holding
  BY DEF Holding
<1>4. CASE \A d \in Callers : d # c => caller[d].pc \notin Holding
  <2>1. ASSUME NEW d \in Callers, d # c
        PROVE  /\ caller'[d].pc # "idle" => caller'[d].key \in Keys
               /\ caller'[d].session <= started'
               /\ caller'[d].pc \notin Holding
    BY <1>1, <1>2, <1>4, <2>1 DEF ConnectionInv, LockInv
  <2> QED
    BY <1>1, <1>3, <2>1 DEF ConnectionInv, LockInv
<1>5. CASE UNCHANGED <<lock, pool, open>> /\ r.pc \notin Holding
  <2>1. ASSUME NEW d \in Callers, d # c
        PROVE  /\ caller'[d] = caller[d]
               /\ caller[d].pc # "idle" => caller[d].key \in Keys
               /\ caller[d].session <= started'
    BY <1>1, <1>2, <2>1 DEF ConnectionInv, LockInv
  <2>2. \A d \in Callers : caller'[d].pc \in Holding => d # c /\ caller[d].pc \in Holding
    BY <1>1, <1>5
  <2> QED
    BY <1>1, <1>3, <1>5, <2>1, <2>2 DEF ConnectionInv, LockInv
<1> QED
  BY <1>4, <1>5

\* Who is past the lookup is alone there, and nobody is while the lock is free.
LEMMA Alone ==
  ASSUME ConnectionInv, NEW c \in Callers
  PROVE  /\ ~lock => \A d \in Callers : caller[d].pc \notin Holding
         /\ caller[c].pc \in Holding => \A d \in Callers : d # c => caller[d].pc \notin Holding
  BY DEF ConnectionInv, LockInv

\* What Goes does to its caller.
LEMMA GoesFacts ==
  ASSUME ConnectionInv, NEW c \in Callers, NEW pc \in Places, NEW n \in Nat, Goes(c, pc, n)
  PROVE  \E r \in [pc : Places, key : Keys \cup {"none"}, session : Nat] :
            /\ caller' = [caller EXCEPT ![c] = r]
            /\ caller' \in [Callers -> [pc : Places, key : Keys \cup {"none"}, session : Nat]]
            /\ r.pc = pc /\ r.key = caller[c].key /\ r.session = n
<1>1. /\ caller \in [Callers -> [pc : Places, key : Keys \cup {"none"}, session : Nat]]
  BY DEF ConnectionInv, ConnectionTypeOK
<1> DEFINE r == [caller[c] EXCEPT !.pc = pc, !.session = n]
<1>2. r \in [pc : Places, key : Keys \cup {"none"}, session : Nat]
  BY <1>1
<1>3. r.pc = pc /\ r.key = caller[c].key /\ r.session = n
  BY <1>1
<1>4. caller' = [caller EXCEPT ![c] = r]
  BY <1>1 DEF Goes
<1> HIDE DEF r
<1> QED
  BY <1>1, <1>2, <1>3, <1>4

-----------------------------------------------------------------------------
(* The steps.                                                              *)

\* Steps of a caller that leave pool, sessions and everybody's lock alone.
LEMMA AskingSteps ==
  ASSUME ConnectionInv, NEW c \in Callers,
         Done(c) \/ \E k \in Keys : GetClient(c, k)
  PROVE  ConnectionInv'
<1>1. NoRequest \in [pc : Places, key : Keys \cup {"none"}, session : Nat]
  BY DEF NoRequest, Places
<1>2. NoRequest.pc = "idle" /\ NoRequest.session = 0 /\ "idle" \notin Holding
      /\ "waiting" \notin Holding
  BY DEF NoRequest, Holding
<1>3. ASSUME NEW r \in [pc : Places, key : Keys \cup {"none"}, session : Nat],
             caller' = [caller EXCEPT ![c] = r], r.pc \in {"idle", "waiting"},
             r.pc # "idle" => r.key \in Keys, r.session = 0,
             UNCHANGED <<pool, open, started, lapsed, cooling, lock>>
      PROVE  ConnectionInv'
  <2>1. ConnectionTypeOK'
    BY <1>3 DEF ConnectionInv, ConnectionTypeOK
  <2>2. PoolInv'
    BY <1>3 DEF ConnectionInv, PoolInv, Distinct
  <2>3. 0 <= started /\ started <= started
    BY DEF ConnectionInv, ConnectionTypeOK
  <2> QED
    BY <1>2, <1>3, <2>1, <2>2, <2>3, OneCaller
<1>4. CASE Done(c)
  BY <1>1, <1>2, <1>3, <1>4 DEF Done
<1>5. ASSUME NEW k \in Keys, GetClient(c, k) PROVE ConnectionInv'
  <2> DEFINE r == [pc |-> "waiting", key |-> k, session |-> 0]
  <2>1. r \in [pc : Places, key : Keys \cup {"none"}, session : Nat]
    BY DEF Places
  <2> QED
    BY <1>3, <1>5, <2>1 DEF GetClient
<1> QED
  BY <1>4, <1>5

LEMMA CachedSteps ==
  ASSUME ConnectionInv, NEW c \in Callers, UseCached(c) \/ DropLapsed(c)
  PROVE  ConnectionInv'
<1> DEFINE k == caller[c].key
           e == PoolEntry(k)
           s == Without(k)
<1>1. k \in Keys /\ Cached(k) /\ ~lock /\ caller[c].pc = "waiting"
  BY DEF UseCached, DropLapsed, ConnectionInv, LockInv
<1> HIDE DEF k
<1>2. /\ s \in Seq(Entries) /\ Len(s) = Len(pool) - 1 /\ Distinct(s)
      /\ \A i \in DOMAIN s : s[i] \in Pooled /\ s[i].key # k /\ s[i].session # e.session
      /\ e \in Pooled /\ e \in Entries /\ e.key = k
  BY <1>1, WithoutFacts
<1>3. \A x \in Pooled : x.session <= started /\ x.session \in open
  BY DEF ConnectionInv, PoolInv, Pooled
<1>4. /\ e.session \in Nat \ {0} /\ started \in Nat /\ Len(pool) \in Nat
      /\ Len(pool) <= MaxConnections /\ MaxConnections \in Nat
  BY <1>2, ConnectionAssumption DEF ConnectionInv, ConnectionTypeOK, PoolInv, Entries
<1>5. \A d \in Callers : caller[d].pc \notin Holding
  BY <1>1, Alone
<1>6. "got" \in Places /\ "closing" \in Places /\ "got" \notin Holding
  BY DEF Places, Holding
<1> HIDE DEF e, s
<1>7. CASE UseCached(c)
  <2>1. /\ pool' = Append(s, e) /\ Goes(c, "got", e.session) /\ lock' = FALSE
        /\ UNCHANGED <<open, started, lapsed, cooling>>
    BY <1>7 DEF UseCached, HandsBack, k, e, s
  <2>2. PICK r \in [pc : Places, key : Keys \cup {"none"}, session : Nat] :
            /\ caller' = [caller EXCEPT ![c] = r]
            /\ caller' \in [Callers -> [pc : Places, key : Keys \cup {"none"}, session : Nat]]
            /\ r.pc = "got" /\ r.key = k /\ r.session = e.session
    BY <1>4, <1>6, <2>1, GoesFacts DEF k
  <2>3. /\ pool' \in Seq(Entries) /\ Distinct(pool') /\ Len(pool') = Len(s) + 1
        /\ \A i \in DOMAIN pool' : pool'[i] \in Pooled
    BY <1>2, <2>1, AppendFacts
  <2>4. ConnectionTypeOK'
    BY <2>1, <2>2, <2>3 DEF ConnectionInv, ConnectionTypeOK
  <2>5. PoolInv'
    BY <1>2, <1>3, <1>4, <2>1, <2>3 DEF PoolInv
  <2>6. r.session <= started' /\ started <= started'
    BY <1>2, <1>3, <1>4, <2>1, <2>2
  <2> QED
    BY <1>1, <1>5, <1>6, <2>1, <2>2, <2>4, <2>5, <2>6, OneCaller
<1>8. CASE DropLapsed(c)
  <2>1. /\ pool' = s /\ Goes(c, "closing", e.session) /\ lock' = TRUE
        /\ lapsed' = lapsed \ {e.session} /\ UNCHANGED <<open, started, cooling>>
    BY <1>8 DEF DropLapsed, k, e, s
  <2>2. PICK r \in [pc : Places, key : Keys \cup {"none"}, session : Nat] :
            /\ caller' = [caller EXCEPT ![c] = r]
            /\ caller' \in [Callers -> [pc : Places, key : Keys \cup {"none"}, session : Nat]]
            /\ r.pc = "closing" /\ r.key = k /\ r.session = e.session
    BY <1>4, <1>6, <2>1, GoesFacts DEF k
  <2>3. ConnectionTypeOK'
    BY <1>2, <2>1, <2>2 DEF ConnectionInv, ConnectionTypeOK
  <2>4. PoolInv'
    BY <1>2, <1>3, <1>4, <2>1 DEF PoolInv
  <2>5. r.session <= started' /\ started <= started'
    BY <1>2, <1>3, <1>4, <2>1, <2>2
  <2>6. \A i \in DOMAIN pool' : pool'[i].key # r.key /\ pool'[i].session # r.session
    BY <1>2, <2>1, <2>2
  <2> QED
    BY <1>1, <1>5, <2>1, <2>2, <2>3, <2>4, <2>5, <2>6, OneCaller
<1> QED
  BY <1>7, <1>8

\* Sessions are numbered from 1, and 0 is none.
LEMMA Numbers ==
  ASSUME ConnectionInv
  PROVE  /\ started \in Nat /\ open \subseteq Nat /\ pool \in Seq(Entries)
         /\ Len(pool) \in Nat /\ Len(pool) <= MaxConnections /\ MaxConnections \in Nat \ {0}
         /\ \A c \in Callers : caller[c].session \in Nat /\ caller[c].session <= started
         /\ \A i \in DOMAIN pool : /\ pool[i] \in Entries
                                   /\ pool[i].session \in open \ {0}
                                   /\ pool[i].session <= started
<1>1. /\ started \in Nat /\ open \subseteq Nat /\ pool \in Seq(Entries)
      /\ Len(pool) <= MaxConnections
      /\ \A c \in Callers : caller[c].session <= started
  BY DEF ConnectionInv, ConnectionTypeOK, PoolInv, LockInv
<1>2. \A c \in Callers : caller[c].session \in Nat
  BY DEF ConnectionInv, ConnectionTypeOK
<1>3. Len(pool) \in Nat /\ \A i \in DOMAIN pool : pool[i] \in Entries
  BY <1>1
<1>4. \A i \in DOMAIN pool : pool[i].session \in open \ {0} /\ pool[i].session <= started
  BY <1>3 DEF ConnectionInv, PoolInv, Entries
<1> QED
  BY <1>1, <1>2, <1>3, <1>4, ConnectionAssumption

\* A step of whoever may be past the lookup, by which the pool stays as it is.
LEMMA HolderStep ==
  ASSUME ConnectionInv, NEW c \in Callers, caller[c].pc \in Holding \/ ~lock,
         caller[c].pc # "idle",
         NEW pc \in Places, NEW n \in Nat, Goes(c, pc, n),
         UNCHANGED <<pool, lapsed>>, cooling' \subseteq Keys, lock' \in BOOLEAN,
         open' \subseteq Nat, started' \in Nat, started <= started', n <= started',
         \A i \in DOMAIN pool : pool[i].session \in open',
         pc \in Holding =>
            /\ lock'
            /\ \A i \in DOMAIN pool : pool[i].key # caller[c].key /\ pool[i].session # n,
         pc \in {"connecting", "starting"} => Len(pool) < MaxConnections,
         pc = "starting" => n \in open' \ {0}
  PROVE  ConnectionInv'
<1>1. PICK r \in [pc : Places, key : Keys \cup {"none"}, session : Nat] :
          /\ caller' = [caller EXCEPT ![c] = r]
          /\ caller' \in [Callers -> [pc : Places, key : Keys \cup {"none"}, session : Nat]]
          /\ r.pc = pc /\ r.key = caller[c].key /\ r.session = n
  BY GoesFacts
<1>2. ConnectionTypeOK'
  BY <1>1 DEF ConnectionInv, ConnectionTypeOK
<1>3. PoolInv'
  <2>1. \A i \in DOMAIN pool : pool[i].session \in Nat /\ pool[i].session <= started
    BY Numbers
  <2> QED
    BY <2>1, Numbers DEF ConnectionInv, PoolInv, Distinct
<1>4. \A d \in Callers : d # c => caller[d].pc \notin Holding
  BY Alone
<1>5. caller[c].key \in Keys
  BY DEF ConnectionInv, LockInv
<1> QED
  BY <1>1, <1>2, <1>3, <1>4, <1>5, OneCaller

LEMMA SearchingSteps ==
  ASSUME ConnectionInv, NEW c \in Callers,
         \/ Miss(c) \/ Closed(c) \/ GiveUp(c) \/ Spawned(c)
         \/ ConnectFails(c) \/ InitTimesOut(c)
  PROVE  ConnectionInv'
<1> USE DEF Goes
<1>0. /\ {"searching", "got", "starting"} \subseteq Places /\ 0 \in Nat /\ "got" \notin Holding
      /\ "got" \notin {"connecting", "starting"} /\ "searching" \notin {"connecting", "starting"}
      /\ cooling \subseteq Keys /\ 0 <= started /\ started <= started
  BY Numbers DEF Places, Holding, ConnectionInv, ConnectionTypeOK
<1>1. \A i \in DOMAIN pool : pool[i].session \in open /\ pool[i].session # 0
  BY Numbers
<1>2. caller[c].pc \in Holding =>
         /\ lock /\ caller[c].key \in Keys
         /\ \A i \in DOMAIN pool : /\ pool[i].key # caller[c].key
                                   /\ pool[i].session # caller[c].session
  BY DEF ConnectionInv, LockInv, Holding
<1> HIDE DEF Goes
<1>3. CASE Miss(c)
  <2>1. /\ Goes(c, "searching", 0) /\ lock' = TRUE /\ ~lock /\ caller[c].pc = "waiting"
        /\ UNCHANGED <<pool, open, started, lapsed, cooling>>
    BY <1>3 DEF Miss
  <2>2. \A i \in DOMAIN pool : pool[i].key # caller[c].key
    BY <1>3 DEF Miss, Cached, Pooled
  <2> QED
    BY <1>0, <1>1, <2>1, <2>2, Numbers, HolderStep
<1>4. CASE Closed(c)
  <2>1. /\ Goes(c, "searching", 0) /\ caller[c].pc = "closing" /\ caller[c].pc \in Holding
        /\ open' \in {open, open \ {caller[c].session}}
        /\ UNCHANGED <<pool, started, lapsed, cooling, lock>>
    BY <1>4 DEF Closed, Holding
  <2>2. open' \subseteq Nat /\ \A i \in DOMAIN pool : pool[i].session \in open'
    BY <1>1, <1>2, <2>1, Numbers
  <2> QED
    BY <1>0, <1>1, <1>2, <2>1, <2>2, Numbers, HolderStep
<1>5. CASE GiveUp(c)
  <2>1. /\ Goes(c, "got", 0) /\ lock' = FALSE
        /\ caller[c].pc = "searching" /\ caller[c].pc \in Holding
        /\ UNCHANGED <<pool, open, started, lapsed, cooling>>
    BY <1>5 DEF GiveUp, HandsBack, Holding
  <2> QED
    BY <1>0, <1>1, <2>1, Numbers, HolderStep
<1>6. CASE Spawned(c)
  <2>1. /\ Goes(c, "starting", started + 1) /\ started' = started + 1
        /\ open' = open \cup {started + 1}
        /\ caller[c].pc = "connecting" /\ caller[c].pc \in Holding
        /\ UNCHANGED <<pool, lapsed, cooling, lock>>
    BY <1>6 DEF Spawned, Holding
  <2>2. \A i \in DOMAIN pool : pool[i].session # started + 1
    BY Numbers
  <2>3. Len(pool) < MaxConnections
    BY <2>1 DEF ConnectionInv, LockInv
  <2>4. /\ started + 1 \in Nat \ {0} /\ started <= started + 1
        /\ open' \subseteq Nat /\ lock' \in BOOLEAN
    BY <1>2, <2>1, Numbers DEF ConnectionInv, ConnectionTypeOK
  <2> QED
    BY <1>0, <1>1, <1>2, <2>1, <2>2, <2>3, <2>4, HolderStep
<1>7. CASE ConnectFails(c)
  <2>1. /\ Goes(c, "got", 0) /\ lock' = FALSE /\ cooling' = cooling \cup {caller[c].key}
        /\ caller[c].pc \in {"connecting", "starting"} /\ caller[c].pc \in Holding
        /\ UNCHANGED <<pool, open, started, lapsed>>
    BY <1>7 DEF ConnectFails, HandsBack, Holding
  <2>2. cooling' \subseteq Keys
    BY <1>0, <1>2, <2>1
  <2> QED
    BY <1>0, <1>1, <2>1, <2>2, Numbers, HolderStep
<1>8. CASE InitTimesOut(c)
  <2>1. /\ Goes(c, "got", 0) /\ lock' = FALSE
        /\ open' \in {open, open \ {caller[c].session}}
        /\ caller[c].pc = "starting" /\ caller[c].pc \in Holding
        /\ UNCHANGED <<pool, started, lapsed, cooling>>
    BY <1>8 DEF InitTimesOut, HandsBack, Holding
  <2>2. open' \subseteq Nat /\ \A i \in DOMAIN pool : pool[i].session \in open'
    BY <1>1, <1>2, <2>1, Numbers
  <2> QED
    BY <1>0, <1>1, <2>1, <2>2, Numbers, HolderStep
<1> QED
  BY <1>3, <1>4, <1>5, <1>6, <1>7, <1>8

LEMMA ConnectStep ==
  ASSUME ConnectionInv, NEW c \in Callers, Connect(c)
  PROVE  ConnectionInv'
<1> DEFINE M == MaxConnections
           d == Len(pool) - M + 2
<1>1. /\ Goes(c, "connecting", 0) /\ UNCHANGED <<open, started, lapsed, cooling, lock>>
      /\ caller[c].pc = "searching" /\ caller[c].pc \in Holding
      /\ pool' = IF Len(pool) < M THEN pool ELSE SubSeq(pool, d, Len(pool))
  BY DEF Connect, Holding
<1>2. \A e \in Callers : e # c => caller[e].pc \notin Holding
  BY <1>1, Alone
<1>3. /\ pool' \in Seq(Entries) /\ Len(pool') < M
      /\ \A i \in DOMAIN pool' : \E j \in DOMAIN pool :
            pool'[i] = pool[j] /\ (j = i \/ j = i + 1)
      /\ pool' = pool \/ \A i \in DOMAIN pool' : i + 1 \in DOMAIN pool /\ pool'[i] = pool[i + 1]
  <2>1. CASE Len(pool) < M
    BY <1>1, <2>1, Numbers
  <2>2. CASE Len(pool) = M
    <3> DEFINE s == SubSeq(pool, 2, M)
    <3>1. d = 2 /\ M \in Nat \ {0} /\ pool \in Seq(Entries)
      BY <2>2, Numbers
    <3>2. pool' = s
      BY <1>1, <2>2, <3>1
    <3>3. \A i \in 2 .. M : pool[i] \in Entries
      BY <2>2, <3>1
    <3>4. /\ s \in Seq(Entries) /\ Len(s) = IF 2 <= M THEN M - 2 + 1 ELSE 0
          /\ \A i \in 1 .. M - 2 + 1 : s[i] = pool[2 + i - 1]
      BY <3>1, <3>3, SubSeqProperties
    <3> HIDE DEF s
    <3>5. Len(s) = M - 1 /\ DOMAIN s = 1 .. M - 1
      BY <3>1, <3>4
    <3>6. \A i \in 1 .. M - 1 : i + 1 \in DOMAIN pool /\ s[i] = pool[i + 1]
      <4> SUFFICES ASSUME NEW i \in 1 .. M - 1
                   PROVE  i + 1 \in DOMAIN pool /\ s[i] = pool[i + 1]
        OBVIOUS
      <4>1. i \in 1 .. M - 2 + 1 /\ 2 + i - 1 = i + 1 /\ i + 1 \in 1 .. M
        BY <3>1
      <4>2. DOMAIN pool = 1 .. M
        BY <2>2, <3>1
      <4> QED
        BY <3>4, <4>1, <4>2
    <3> QED
      BY <3>1, <3>2, <3>4, <3>5, <3>6
  <2>3. Len(pool) < M \/ Len(pool) = M
    BY Numbers
  <2> QED
    BY <2>1, <2>2, <2>3
<1>4. Distinct(pool')
  <2>1. Distinct(pool)
    BY DEF ConnectionInv, PoolInv
  <2>2. CASE \A i \in DOMAIN pool' : i + 1 \in DOMAIN pool /\ pool'[i] = pool[i + 1]
    <3>1. \A i, j \in DOMAIN pool' : i + 1 = j + 1 => i = j
      BY <1>3
    <3> QED
      BY <2>1, <2>2, <3>1 DEF Distinct
  <2> QED
    BY <1>3, <2>1, <2>2
<1>5. PoolInv'
  <2>1. Len(pool') \in Nat /\ Len(pool') <= M
    BY <1>3, Numbers
  <2> QED
    BY <1>1, <1>3, <1>4, <2>1, Numbers DEF PoolInv
<1>6. "connecting" \in Places /\ 0 \in Nat /\ started <= started /\ 0 <= started
  BY Numbers DEF Places, Holding
<1>7. PICK r \in [pc : Places, key : Keys \cup {"none"}, session : Nat] :
          /\ caller' = [caller EXCEPT ![c] = r]
          /\ caller' \in [Callers -> [pc : Places, key : Keys \cup {"none"}, session : Nat]]
          /\ r.pc = "connecting" /\ r.key = caller[c].key /\ r.session = 0
  BY <1>1, <1>6, GoesFacts
<1>8. ConnectionTypeOK'
  BY <1>1, <1>3, <1>7 DEF ConnectionInv, ConnectionTypeOK
<1>9. /\ lock /\ caller[c].key \in Keys
      /\ \A i \in DOMAIN pool : pool[i].key # caller[c].key /\ pool[i].session # 0
  BY <1>1, Numbers DEF ConnectionInv, LockInv
<1>10. \A i \in DOMAIN pool' : pool'[i].key # r.key /\ pool'[i].session # r.session
  BY <1>3, <1>7, <1>9
<1> QED
  BY <1>1, <1>2, <1>3, <1>5, <1>6, <1>7, <1>8, <1>9, <1>10, OneCaller

LEMMA ConnectedStep ==
  ASSUME ConnectionInv, NEW c \in Callers, Connected(c)
  PROVE  ConnectionInv'
<1> DEFINE e == [key |-> caller[c].key, session |-> caller[c].session]
<1>1. /\ Goes(c, "got", caller[c].session) /\ lock' = FALSE /\ pool' = Append(pool, e)
      /\ UNCHANGED <<open, started, lapsed, cooling>>
      /\ caller[c].pc = "starting" /\ caller[c].pc \in Holding
  BY DEF Connected, HandsBack, Holding
<1>2. /\ caller[c].key \in Keys /\ Len(pool) < MaxConnections
      /\ caller[c].session \in open \ {0} /\ caller[c].session <= started
      /\ caller[c].session \in Nat /\ Distinct(pool)
      /\ \A i \in DOMAIN pool : pool[i].key # caller[c].key /\ pool[i].session # caller[c].session
  BY <1>1, Numbers DEF ConnectionInv, LockInv, PoolInv
<1>3. e \in Entries /\ e.key = caller[c].key /\ e.session = caller[c].session
  BY <1>2 DEF Entries
<1> HIDE DEF e
<1>4. /\ pool' \in Seq(Entries) /\ Distinct(pool') /\ Len(pool') = Len(pool) + 1
      /\ \A i \in DOMAIN pool' : pool'[i] = e \/ \E j \in DOMAIN pool : pool'[i] = pool[j]
  BY <1>1, <1>2, <1>3, Numbers, AppendFacts
<1>5. PoolInv'
  <2>1. Len(pool') <= MaxConnections
    BY <1>2, <1>4, Numbers
  <2>2. \A i \in DOMAIN pool' : pool'[i].session <= started /\ pool'[i].session \in open
    BY <1>2, <1>3, <1>4, Numbers
  <2> QED
    BY <1>1, <1>4, <2>1, <2>2 DEF PoolInv
<1>6. "got" \in Places /\ "got" \notin Holding /\ started <= started
  BY Numbers DEF Places, Holding
<1>7. PICK r \in [pc : Places, key : Keys \cup {"none"}, session : Nat] :
          /\ caller' = [caller EXCEPT ![c] = r]
          /\ caller' \in [Callers -> [pc : Places, key : Keys \cup {"none"}, session : Nat]]
          /\ r.pc = "got" /\ r.key = caller[c].key /\ r.session = caller[c].session
  BY <1>1, <1>2, <1>6, GoesFacts
<1>8. ConnectionTypeOK'
  BY <1>1, <1>4, <1>7 DEF ConnectionInv, ConnectionTypeOK
<1>9. \A d \in Callers : d # c => caller[d].pc \notin Holding
  BY <1>1, Alone
<1> QED
  BY <1>1, <1>2, <1>5, <1>6, <1>7, <1>8, <1>9, OneCaller

LEMMA CancelledStep ==
  ASSUME ConnectionInv, NEW c \in Callers, CallerCancelled(c)
  PROVE  ConnectionInv'
<1>1. NoRequest \in [pc : Places, key : Keys \cup {"none"}, session : Nat]
  BY DEF NoRequest, Places
<1>2. NoRequest.pc = "idle" /\ NoRequest.session = 0 /\ "idle" \notin Holding
  BY DEF NoRequest, Holding
<1>3. /\ caller' = [caller EXCEPT ![c] = NoRequest]
      /\ UNCHANGED <<pool, open, started, lapsed, cooling>>
      /\ lock' = (lock /\ caller[c].pc = "waiting")
      /\ caller[c].pc = "waiting" \/ caller[c].pc \in Holding
  BY DEF CallerCancelled, Holding
<1>4. ConnectionTypeOK'
  <2>1. lock' \in BOOLEAN
    BY <1>3
  <2>2. caller' \in [Callers -> [pc : Places, key : Keys \cup {"none"}, session : Nat]]
    BY <1>1, <1>3 DEF ConnectionInv, ConnectionTypeOK
  <2> QED
    BY <1>3, <2>1, <2>2 DEF ConnectionInv, ConnectionTypeOK
<1>5. PoolInv'
  BY <1>3 DEF ConnectionInv, PoolInv, Distinct
<1>6. \/ \A d \in Callers : d # c => caller[d].pc \notin Holding
      \/ lock' = lock
  <2>1. lock \in BOOLEAN
    BY DEF ConnectionInv, ConnectionTypeOK
  <2> QED
    BY <1>3, <2>1, Alone
<1>7. started <= started' /\ 0 <= started'
  BY <1>3, Numbers
<1> QED
  BY <1>2, <1>3, <1>4, <1>5, <1>6, <1>7, OneCaller

LEMMA ClockSteps ==
  ASSUME ConnectionInv,
         Lapse \/ (\E k \in Keys : CooldownEnds(k)) \/ UNCHANGED connectionVars
  PROVE  ConnectionInv'
<1>1. /\ UNCHANGED <<pool, open, started, lock, caller>>
      /\ lapsed' \subseteq Nat /\ cooling' \subseteq Keys
  <2>1. CASE Lapse
    <3>1. \A e \in Pooled : e.session \in Nat
      BY Numbers DEF Pooled
    <3> QED
      BY <2>1, <3>1 DEF Lapse, ConnectionInv, ConnectionTypeOK
  <2>2. CASE \E k \in Keys : CooldownEnds(k)
    BY <2>2 DEF CooldownEnds, ConnectionInv, ConnectionTypeOK
  <2>3. CASE UNCHANGED connectionVars
    BY <2>3 DEF connectionVars, ConnectionInv, ConnectionTypeOK
  <2> QED
    BY <2>1, <2>2, <2>3
<1> QED
  BY <1>1 DEF ConnectionInv, ConnectionTypeOK, PoolInv, Distinct, LockInv

LEMMA NextConnections == ConnectionInv /\ [ConnectionNext]_connectionVars => ConnectionInv'
<1> SUFFICES ASSUME ConnectionInv, [ConnectionNext]_connectionVars PROVE ConnectionInv'
  OBVIOUS
<1>1. ASSUME NEW c \in Callers,
             \/ \E k \in Keys : GetClient(c, k)
             \/ Done(c) \/ UseCached(c) \/ DropLapsed(c) \/ Closed(c) \/ Miss(c)
             \/ GiveUp(c) \/ Connect(c) \/ Spawned(c) \/ Connected(c)
             \/ ConnectFails(c) \/ InitTimesOut(c) \/ CallerCancelled(c)
      PROVE  ConnectionInv'
  BY <1>1, AskingSteps, CachedSteps, SearchingSteps, ConnectStep, ConnectedStep, CancelledStep
<1> QED
  BY <1>1, ClockSteps DEF ConnectionNext

\* Distinct entries have as many keys as the pool has places.
LEMMA KeysCounted ==
  ASSUME ConnectionInv
  PROVE  Cardinality({e.key : e \in Pooled}) = Len(pool)
<1> DEFINE n == Len(pool)
           K == {e.key : e \in Pooled}
           f == [i \in 1 .. n |-> pool[i].key]
<1>1. n \in Nat /\ DOMAIN pool = 1 .. n /\ Distinct(pool)
  BY Numbers DEF ConnectionInv, PoolInv
<1>2. f \in [1 .. n -> K] /\ \A k \in K : \E i \in 1 .. n : f[i] = k
  BY <1>1 DEF Pooled
<1>3. \A i, j \in 1 .. n : f[i] = f[j] => i = j
  BY <1>1 DEF Distinct
<1> HIDE DEF f, K
<1>4. f \in Bijection(1 .. n, K)
  BY <1>2, <1>3 DEF Bijection, Injection, Surjection, IsInjective
<1> QED
  BY <1>1, <1>4, FS_CountingElements DEF ExistsBijection, K

\* The pool, its sessions and its callers keep their types, and whoever is past
\* the lookup holds the lock alone (ClientMCPManager.get_client).
THEOREM ConnectionTypes == ConnectionSpec => []ConnectionTypeOK
<1>1. ConnectionInv => ConnectionTypeOK
  BY DEF ConnectionInv
<1> QED
  BY InitConnections, NextConnections, <1>1, PTL DEF ConnectionSpec

\* The pool never has more than max_connections sessions nor two of one key, and
\* what is in it is open and not being started or closed by anybody, though
\* what get_client looked up is older than the server it starts
\* (ClientMCPManager.get_client, _connect, _disconnect_one).
THEOREM SoundPool == ConnectionSpec => []PoolIsSound
<1>1. ConnectionInv => PoolIsSound
  BY KeysCounted, Numbers DEF ConnectionInv, PoolInv, LockInv, PoolIsSound, Pooled
<1> QED
  BY InitConnections, NextConnections, <1>1, PTL DEF ConnectionSpec
=============================================================================
