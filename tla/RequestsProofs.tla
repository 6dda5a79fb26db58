--------------------------- MODULE RequestsProofs ---------------------------
(***************************************************************************)
(* Proofs about Requests, for any number of callers and requests, any page  *)
(* size and any graph: a read that succeeds is whole (WholeResult), an ask  *)
(* that passes a post's bookmark sees the post (ReadYourWrites), a report   *)
(* about a user is about that user (NotFoundMeansNone), and no span comes   *)
(* from a record of another scope (SpansAreSound).                          *)
(*                                                                         *)
(* The invariant says, of every call, what part of which committed state    *)
(* its rows are; of every fiber, that its floor bounds its calls from       *)
(* below; and of every request, what the reads behind it have established.  *)
(***************************************************************************)
EXTENDS Requests, Integers, FiniteSetTheorems, SequenceTheorems, TLAPS

-----------------------------------------------------------------------------
(***************************************************************************)
(* What a query finds.                                                     *)
(***************************************************************************)

\* The rank of a position among those of a set.
Rank(S, i) == Cardinality({j \in S : j <= i})

\* A later position has a higher rank.
LEMMA RankRises ==
  ASSUME NEW e \in Nat, NEW S \in SUBSET (1..e), NEW i \in S, NEW j \in S, i < j
  PROVE  Rank(S, i) < Rank(S, j)
<1> DEFINE A == {k \in S : k <= i}
           B == {k \in S : k <= j}
<1>1. IsFiniteSet(S)
  <2>1. IsFiniteSet(1..e)
    BY FS_Interval, 1 \in Int, e \in Int
  <2> QED
    BY <2>1, FS_Subset
<1>2. IsFiniteSet(B) /\ Cardinality(B) \in Nat
  BY <1>1, FS_Subset, FS_CardinalityType
<1>3. A \in SUBSET B /\ j \in B /\ j \notin A
  <2>1. i \in Nat /\ j \in Nat /\ \A k \in S : k \in Nat
    OBVIOUS
  <2>2. \A k \in A : k \in B
    BY <2>1
  <2>3. j \in B /\ ~(j <= i)
    BY <2>1
  <2> QED
    BY <2>2, <2>3
<1>4. Cardinality(A) <= Cardinality(B) /\ Cardinality(A) # Cardinality(B) /\ Cardinality(A) \in Nat
  BY <1>2, <1>3, FS_Subset, FS_CardinalityType
<1> QED
  BY <1>2, <1>4 DEF Rank

\* Counting the members of a set of positions in order reaches each of them.
LEMMA NthIsOnto ==
  ASSUME NEW e \in Nat, NEW S \in SUBSET (1..e)
  PROVE  /\ IsFiniteSet(S) /\ Cardinality(S) \in Nat
         /\ \A n \in 1..Cardinality(S) : Nth(S, n) \in S
         /\ \A i \in S : \E n \in 1..Cardinality(S) : Nth(S, n) = i
<1> DEFINE rank == [i \in S |-> Rank(S, i)]
           N == Cardinality(S)
<1>1. IsFiniteSet(S) /\ N \in Nat
  <2>1. IsFiniteSet(1..e)
    BY FS_Interval, 1 \in Int, e \in Int
  <2> QED
    BY <2>1, FS_Subset, FS_CardinalityType
<1>2. ASSUME NEW i \in S
      PROVE  Rank(S, i) \in 1..N
  <2> DEFINE A == {j \in S : j <= i}
  <2>1. A \in SUBSET S /\ i \in A
    OBVIOUS
  <2>2. IsFiniteSet(A) /\ Cardinality(A) \in Nat /\ Cardinality(A) <= N
    BY <1>1, <2>1, FS_Subset, FS_CardinalityType
  <2>3. Cardinality(A) # 0
    BY <2>1, <2>2, FS_EmptySet
  <2> QED
    BY <1>1, <2>2, <2>3 DEF Rank
<1>3. \A i, j \in S : Rank(S, i) = Rank(S, j) => i = j
  <2> SUFFICES ASSUME NEW i \in S, NEW j \in S, i # j
               PROVE  Rank(S, i) # Rank(S, j)
    OBVIOUS
  <2>1. i < j \/ j < i
    OBVIOUS
  <2> QED
    BY <2>1, <1>2, RankRises
<1>4. rank \in Injection(S, 1..N)
  BY <1>2, <1>3 DEF Injection, IsInjective
<1>5. IsFiniteSet(1..N) /\ Cardinality(1..N) = N
  BY <1>1, FS_Interval
<1>6. rank \in Surjection(S, 1..N)
  BY <1>1, <1>4, <1>5, FS_Injection
<1>7. \A n \in 1..N : \E i \in S : Rank(S, i) = n
  BY <1>6 DEF Surjection
<1>8. \A n \in 1..N : Nth(S, n) \in S /\ Rank(S, Nth(S, n)) = n
  BY <1>7 DEF Nth, Rank
<1>9. \A i \in S : Nth(S, Rank(S, i)) = i
  BY <1>2, <1>3, <1>8
<1> QED
  BY <1>1, <1>2, <1>8, <1>9

-----------------------------------------------------------------------------
(***************************************************************************)
(* The invariant.                                                          *)
(***************************************************************************)
Record == [key : Keys, by : Callers \cup {"before"}, sound : BOOLEAN]
Query == [ids : SUBSET Nat, key : Keys \cup {"none"}]
CallRecord ==
  [state : Failures \cup {"idle", "sent", "paging", "done"}, query : Query,
   since : Nat, at : Nat, mark : Nat, rows : Seq(Record), page : 0..MaxPages + 1,
   open : BOOLEAN, tries : 0..MaxTries - 1]
Places ==
  {"start", "session", "write", "user", "list", "chain", "quoted", "vertices", "hops",
   "root", "arms", "locators", "turns", "done"}

TypeInv ==
  /\ log \in Seq(Record) /\ Settled <= Len(log)
  /\ floor \in [Fibers -> 0..Len(log)]
  /\ call \in [Fibers -> CallRecord]
  /\ kind \in [Callers -> Kinds]
  /\ who \in [Callers -> Keys \cup {"none"}]
  /\ at \in [Callers -> Places]
  /\ given \in [Callers -> Nat]
  /\ reached \in [Callers -> SUBSET Keys] /\ spans \in [Callers -> SUBSET Keys]
  /\ reply \in [Callers -> [status : Nat, bookmark : 0..Len(log)]]

\* What the engine held first, any record may be; what was posted is sound.
LogInv ==
  \A i \in DOMAIN log : /\ i <= Settled => log[i].by = "before"
                        /\ i > Settled => log[i].sound

\* The rows up to the end of the page c has read.
UpTo(c) ==
  IF c.page * PageRows < Len(Found(c.query, c.at)) THEN c.page * PageRows ELSE Len(Found(c.query, c.at))

\* One call: under which floor it was made, and what it has read.
ReadsOneState(c) == c.at \in c.since..Len(log) /\ Settled <= c.at

CallOK(c, known) ==
  /\ c.state \in {"sent", "paging"} => c.since = known
  /\ c.state = "paging" =>
       /\ ReadsOneState(c) /\ c.mark \in {0, c.at} /\ c.page # 0
       /\ c.rows = SubSeq(Found(c.query, c.at), 1, UpTo(c))
  /\ c.state = "done" =>
       ReadsOneState(c) /\ c.rows = Found(c.query, c.at) /\ ~Misfiled(c.query, c.rows)

CallInv(f) == CallOK(call[f], floor[f])

Running(f) == call[f].state \in {"sent", "paging", "done"}

\* Where each kind of request may be.
PlaceInv(c) ==
  /\ at[c] \in {"session", "write"} => kind[c] = "ingest"
  /\ at[c] \in {"root", "arms", "locators", "turns"} => kind[c] = "ask"
  /\ at[c] \in {"chain", "quoted"} => kind[c] = "slot"
  /\ at[c] \in {"user", "vertices", "hops"} => kind[c] \in {"stats", "slot", "warm"}
  /\ at[c] = "list" => kind[c] \in {"stats", "sessions"}
  /\ at[c] # "done" => reply[c] = [status |-> 0, bookmark |-> 0]
  /\ at[c] = "done" => reply[c].status # 0
  /\ at[c] \in {"start", "write"} => \A i \in {0, 1, 2} : call[<<c, i>>].state = "idle"

\* An ask never falls behind the bookmark it was given.
FloorInv(c) ==
  /\ kind[c] # "ask" \/ at[c] = "start" => given[c] = 0
  /\ given[c] <= floor[Own(c)]
  /\ \A i \in {0, 1, 2} : Running(<<c, i>>) => given[c] <= call[<<c, i>>].since

\* The fiber of a post knows its writes, and so does its reply.
WriteInv(c) ==
  \A i \in DOMAIN log : log[i].by = c =>
    /\ at[c] \in {"write", "done"}
    /\ at[c] = "write" => i <= floor[Own(c)]
    /\ at[c] = "done" /\ reply[c].bookmark # 0 => i <= reply[c].bookmark

\* A look-up of the user asked about runs, or has found the user's counts.
Known(u) == \E i \in DOMAIN log : log[i].key = u

UserInv(c) ==
  /\ at[c] = "user" =>
       /\ call[Own(c)].state # "idle" /\ who[c] \in Keys
       /\ Running(Own(c)) => call[Own(c)].query = LookUp(who[c])
  /\ kind[c] \in {"stats", "warm"} =>
       /\ at[c] \in {"list", "vertices", "hops"} => Known(who[c])
       /\ reply[c].status = 404 => \A i \in 1..Settled : log[i].key # who[c]
       /\ reply[c].status = 200 => Known(who[c])

\* Every record under the keys an ask has taken is sound.
SoundKey(k) == \A i \in DOMAIN log : log[i].key = k => log[i].sound

SoundInv(c) ==
  /\ \A k \in reached[c] : SoundKey(k)
  /\ \A k \in spans[c] : SoundKey(k) /\ SoundKey(TurnOf[k])

ReqInv(c) == PlaceInv(c) /\ FloorInv(c) /\ WriteInv(c) /\ UserInv(c) /\ SoundInv(c)

IInv ==
  /\ TypeInv /\ LogInv
  /\ \A f \in Fibers : CallInv(f)
  /\ \A c \in Callers : ReqInv(c)

-----------------------------------------------------------------------------
(***************************************************************************)
(* The reads of one state.                                                 *)
(***************************************************************************)

LEMMA Bounds ==
  /\ 0 \in 0..MaxTries - 1
  /\ 0 \in 0..MaxPages + 1 /\ 1 \in 0..MaxPages + 1
  /\ \A n \in 0..MaxTries - 1 : n \in Nat /\ (n + 1 < MaxTries => n + 1 \in 0..MaxTries - 1)
  /\ \A n \in 0..MaxPages + 1 : n \in Nat /\ (~(n > MaxPages) => n + 1 \in 0..MaxPages + 1)
BY ReadsAreBounded

LEMMA MatchesArePositions ==
  ASSUME NEW q, NEW e \in Nat
  PROVE  Matches(q, e) \in SUBSET (1..e)
BY DEF Matches

\* A query finds exactly the records that match it.
LEMMA FoundIsExact ==
  ASSUME TypeInv, NEW q, NEW e \in 0..Len(log)
  PROVE  /\ Found(q, e) \in Seq(Record)
         /\ \A n \in DOMAIN Found(q, e) : \E i \in 1..e : Found(q, e)[n] = log[i] /\ IdOf[log[i].key] \in q.ids
         /\ \A i \in 1..e : IdOf[log[i].key] \in q.ids => \E n \in DOMAIN Found(q, e) : Found(q, e)[n] = log[i]
<1> DEFINE S == Matches(q, e)
           N == Cardinality(S)
<1>1. log \in Seq(Record) /\ e \in Nat /\ \A i \in 1..e : i \in DOMAIN log /\ log[i] \in Record
  BY DEF TypeInv
<1>2. S \in SUBSET (1..e)
  BY <1>1, MatchesArePositions
<1>3. /\ N \in Nat
      /\ \A n \in 1..N : Nth(S, n) \in S
      /\ \A i \in S : \E n \in 1..N : Nth(S, n) = i
  BY <1>1, <1>2, NthIsOnto
<1> HIDE DEF N
<1>4. Found(q, e) = [n \in 1..N |-> log[Nth(S, n)]]
  BY DEF Found, N
<1>5. \A n \in 1..N : Nth(S, n) \in 1..e /\ IdOf[log[Nth(S, n)].key] \in q.ids
  BY <1>3 DEF Matches
<1>6. \A n \in 1..N : log[Nth(S, n)] \in Record
  BY <1>1, <1>5
<1>7. DOMAIN Found(q, e) = 1..N /\ \A n \in 1..N : Found(q, e)[n] = log[Nth(S, n)]
  BY <1>4
<1>8. Found(q, e) \in Seq(Record)
  <2> DEFINE F == [n \in 1..N |-> log[Nth(S, n)]]
  <2>1. F \in [1..N -> Record]
    BY <1>6
  <2>2. F \in Seq(Record)
    <3> HIDE DEF F
    <3> QED
      BY <1>3, <2>1, SeqDef
  <2> QED
    BY <1>4, <2>2
<1>9. ASSUME NEW i \in 1..e, IdOf[log[i].key] \in q.ids
      PROVE  \E n \in DOMAIN Found(q, e) : Found(q, e)[n] = log[i]
  <2>1. i \in S
    BY <1>9 DEF Matches
  <2> QED
    BY <2>1, <1>3, <1>7
<1> QED
  BY <1>5, <1>7, <1>8, <1>9

\* Records that are appended do not change what an earlier state holds.
LEMMA FoundIsKept ==
  ASSUME NEW q, NEW e \in Nat, \A i \in 1..e : log'[i] = log[i]
  PROVE  Found(q, e)' = Found(q, e)
<1> DEFINE S == Matches(q, e)
           N == Cardinality(S)
<1>1. Matches(q, e)' = S
  BY DEF Matches
<1>2. N \in Nat /\ \A n \in 1..N : Nth(S, n) \in S
  BY MatchesArePositions, NthIsOnto
<1>3. \A n \in 1..N : log'[Nth(S, n)] = log[Nth(S, n)]
  BY <1>2, MatchesArePositions
<1>4. Found(q, e)' = [n \in 1..N |-> log'[Nth(S, n)]]
  BY <1>1 DEF Found, Nth
<1>5. Found(q, e) = [n \in 1..N |-> log[Nth(S, n)]]
  BY DEF Found
<1> HIDE DEF S, N
<1> QED
  BY <1>3, <1>4, <1>5

\* The last position of n pages of a sequence.
End(s, n) == IF n * PageRows < Len(s) THEN n * PageRows ELSE Len(s)

\* One page after n pages makes n + 1.
JoinsNext(s, n) ==
  SubSeq(s, 1, End(s, n)) \o SubSeq(s, n * PageRows + 1, End(s, n + 1)) = SubSeq(s, 1, End(s, n + 1))

LEMMA PagesJoin ==
  ASSUME NEW R, NEW s \in Seq(R), NEW n \in Nat
  PROVE  /\ JoinsNext(s, n)
         /\ SubSeq(s, 1, End(s, n + 1)) \in Seq(R)
         /\ SubSeq(s, n * PageRows + 1, End(s, n + 1)) = <<>> \/ ~((n + 1) * PageRows < Len(s))
              => SubSeq(s, 1, End(s, n + 1)) = s
<1> DEFINE m == n * PageRows
           L == Len(s)
<1>1. PageRows \in Nat \ {0}
  BY ReadsAreBounded
<1>2. m \in Nat /\ (n + 1) * PageRows = m + PageRows
  BY <1>1
<1> HIDE DEF m
<1> DEFINE a == IF m < L THEN m ELSE L
           b == IF m + PageRows < L THEN m + PageRows ELSE L
<1>3. L \in Nat /\ a \in Nat /\ b \in Nat /\ a <= b /\ b <= L /\ a <= m
  BY <1>1, <1>2
<1>4. End(s, n) = a /\ End(s, n + 1) = b
  BY <1>2 DEF End, m
<1>5. SubSeq(s, 1, b) \in Seq(R) /\ SubSeq(s, 1, a) \in Seq(R) /\ SubSeq(s, m + 1, b) \in Seq(R)
  BY <1>1, <1>2, <1>3
<1>6. SubSeq(s, 1, a) \o SubSeq(s, m + 1, b) = SubSeq(s, 1, b)
  <2>1. CASE m < L
    <3>1. a = m /\ 1 \in 1..L + 1 /\ m \in 1 - 1 .. L /\ b \in m..L
      BY <2>1, <1>2, <1>3
    <3> QED
      BY <3>1, ConcatAdjacentSubSeq
  <2>2. CASE ~(m < L)
    <3>1. a = L /\ b = L /\ b < m + 1 /\ m + 1 \in Int /\ b \in Int
      BY <2>2, <1>1, <1>2, <1>3
    <3>2. SubSeq(s, m + 1, b) = <<>>
      BY <3>1, SubSeqEmpty
    <3> QED
      BY <3>1, <3>2, <1>5, ConcatEmptySeq
  <2> QED
    BY <2>1, <2>2
<1>7. ASSUME SubSeq(s, m + 1, b) = <<>> \/ ~(m + PageRows < L)
      PROVE  b = L
  <2>1. CASE ~(m + PageRows < L)
    BY <2>1
  <2>2. CASE m + PageRows < L
    <3>1. b = m + PageRows /\ m + 1 <= b /\ m + 1 \in Int /\ b \in Int
      BY <2>2, <1>1, <1>2
    <3>2. \A i \in m + 1 .. b : s[i] \in R
      BY <3>1, <1>2, <1>3
    <3>3. Len(SubSeq(s, m + 1, b)) = b - (m + 1) + 1
      BY <3>1, <3>2, SubSeqProperties
    <3>4. Len(SubSeq(s, m + 1, b)) = PageRows
      BY <3>1, <3>3, <1>1, <1>2
    <3>5. SubSeq(s, m + 1, b) # <<>>
      BY <3>4, <1>1, EmptySeq
    <3> QED
      BY <3>5, <2>2, <1>7
  <2> QED
    BY <2>1, <2>2
<1>8. b = L => SubSeq(s, 1, b) = s
  BY <1>3
<1> QED
  BY <1>2, <1>4, <1>5, <1>6, <1>7, <1>8 DEF m, JoinsNext

\* What a call knows stays true when records are appended.
LEMMA CallIsKept ==
  ASSUME NEW c \in CallRecord, NEW known, CallOK(c, known),
         Len(log) \in Nat, Len(log') \in Nat, Len(log) <= Len(log'),
         \A i \in 1..Len(log) : log'[i] = log[i]
  PROVE  CallOK(c, known)'
<1>1. c.since \in Nat /\ c.at \in Nat
  BY DEF CallRecord
<1>2. ReadsOneState(c) => ReadsOneState(c)' /\ Found(c.query, c.at)' = Found(c.query, c.at)
  <2> SUFFICES ASSUME ReadsOneState(c)
               PROVE  ReadsOneState(c)' /\ Found(c.query, c.at)' = Found(c.query, c.at)
    OBVIOUS
  <2>1. c.at \in 0..Len(log) /\ ReadsOneState(c)'
    BY <1>1 DEF ReadsOneState
  <2>2. \A i \in 1..c.at : log'[i] = log[i]
    BY <2>1
  <2> QED
    BY <2>1, <2>2, <1>1, FoundIsKept
<1>3. ReadsOneState(c) => UpTo(c)' = UpTo(c)
  BY <1>2 DEF UpTo
<1> QED
  BY <1>2, <1>3 DEF CallOK, Misfiled

\* A step of a read: what its fiber and the others make of it.
ReadMoves(f) ==
  /\ log' = log
  /\ call' \in [Fibers -> CallRecord] /\ floor' \in [Fibers -> 0..Len(log)]
  /\ \A g \in Fibers \ {f} : call'[g] = call[g] /\ floor'[g] = floor[g]
  /\ floor[f] <= floor'[f]
  /\ call[f].state \in {"sent", "paging"} /\ call'[f].state # "idle"
  /\ Running(f)' => call'[f].query = call[f].query /\ call'[f].since = call[f].since
  /\ CallInv(f)'

\* A call keeps what it knows where the log stays.
LEMMA SameLog ==
  ASSUME TypeInv, NEW c \in CallRecord, NEW known, CallOK(c, known), log' = log
  PROVE  CallOK(c, known)'
BY CallIsKept, LenProperties DEF TypeInv

LEMMA SettleMoves ==
  ASSUME TypeInv, NEW f \in Fibers, NEW c \in CallRecord, log' = log, Settle(f, c),
         call[f].state \in {"sent", "paging"}, c.query = call[f].query,
         c.since = call[f].since, c.since = floor[f],
         ReadsOneState(c), c.mark \in {0, c.at}, c.rows = Found(c.query, c.at)
  PROVE  ReadMoves(f)
<1> DEFINE d == IF Misfiled(c.query, c.rows) THEN [NoCall EXCEPT !.state = "integrity"]
                ELSE [NoCall EXCEPT !.state = "done", !.query = c.query, !.since = c.since,
                                    !.at = c.at, !.rows = c.rows]
<1>1. d \in CallRecord
  BY EmptySeq, Bounds DEF CallRecord, NoCall, NoQuery, Failures, Query
<1>2. call' = [call EXCEPT ![f] = d] /\ floor' = IF c.mark = 0 THEN floor ELSE [floor EXCEPT ![f] = c.mark]
  BY DEF Settle
<1>3. CallOK(d, floor'[f])
  BY DEF CallOK, NoCall, ReadsOneState
<1>4. call'[f] = d /\ \A g \in Fibers \ {f} : call'[g] = call[g] /\ floor'[g] = floor[g]
  BY <1>2 DEF TypeInv
<1>5. call' \in [Fibers -> CallRecord]
  BY <1>1, <1>2 DEF TypeInv
<1>6. d.state # "idle" /\ (d.state \in {"sent", "paging", "done"} => d.query = call[f].query /\ d.since = call[f].since)
  BY DEF NoCall
<1> HIDE DEF d
<1>7. floor' \in [Fibers -> 0..Len(log)] /\ floor[f] <= floor'[f]
  <2>1. c.at \in 0..Len(log) /\ floor[f] <= c.at /\ floor[f] \in 0..Len(log) /\ Len(log) \in Nat
    BY LenProperties DEF TypeInv, ReadsOneState, CallRecord
  <2> QED
    BY <1>2, <2>1 DEF TypeInv
<1>8. CallInv(f)'
  <2> PICK e \in CallRecord, known \in {floor'[f]} : e = d /\ known = floor'[f]
    BY <1>1
  <2>1. CallOK(e, known)'
    BY <1>3, SameLog
  <2> QED
    BY <2>1, <1>4 DEF CallInv
<1> QED
  BY <1>4, <1>5, <1>6, <1>7, <1>8 DEF ReadMoves, Running

\* A page is taken, and more is to come or the read is done.
LEMMA TakeMoves ==
  ASSUME TypeInv, NEW f \in Fibers, NEW c \in CallRecord, log' = log, Take(f, c),
         call[f].state \in {"sent", "paging"}, c.state = "paging", c.query = call[f].query,
         c.since = call[f].since, c.since = floor[f], c.page # 0,
         ReadsOneState(c), c.mark \in {0, c.at},
         c.rows = SubSeq(Found(c.query, c.at), 1, UpTo(c)),
         ~c.open => c.rows = Found(c.query, c.at)
  PROVE  ReadMoves(f)
<1>1. CASE ~c.open
  <2>1. Settle(f, c)
    BY <1>1 DEF Take
  <2> QED
    BY <2>1, <1>1, SettleMoves
<1>2. CASE c.open
  <2>1. call' = [call EXCEPT ![f] = c] /\ floor' = floor
    BY <1>2 DEF Take
  <2>2. CallOK(c, floor[f])
    BY DEF CallOK
  <2>3. call'[f] = c /\ floor'[f] = floor[f] /\ floor[f] \in Nat
    BY <2>1, LenProperties DEF TypeInv
  <2>4. CallInv(f)'
    <3> PICK known : known = floor[f]
      OBVIOUS
    <3>1. CallOK(c, known)'
      BY <2>2, SameLog
    <3> QED
      BY <3>1, <2>3 DEF CallInv
  <2> QED
    BY <2>1, <2>3, <2>4 DEF ReadMoves, Running, TypeInv
<1> QED
  BY <1>1, <1>2

\* The rows of a page, and where it ends.
LEMMA PageIsNext ==
  ASSUME TypeInv, NEW q, NEW e \in 0..Len(log), NEW n \in Nat
  PROVE  /\ SubSeq(Found(q, e), 1, End(Found(q, e), n)) \o Page(q, e, n + 1)
              = SubSeq(Found(q, e), 1, End(Found(q, e), n + 1))
         /\ SubSeq(Found(q, e), 1, End(Found(q, e), n + 1)) \in Seq(Record)
         /\ Page(q, e, n + 1) = <<>> \/ FALSE \in MayStayOpen(q, e, n + 1)
              => SubSeq(Found(q, e), 1, End(Found(q, e), n + 1)) = Found(q, e)
<1> PICK s : s = Found(q, e)
  OBVIOUS
<1>1. s \in Seq(Record)
  BY FoundIsExact
<1>2. (n + 1) - 1 = n
  OBVIOUS
<1>3. Page(q, e, n + 1) = SubSeq(s, n * PageRows + 1, End(s, n + 1))
  <2>1. Page(q, e, n + 1) = SubSeq(s, ((n + 1) - 1) * PageRows + 1, End(s, n + 1))
    BY DEF Page, End
  <2> QED
    BY <1>2, <2>1
<1>4. FALSE \in MayStayOpen(q, e, n + 1)
        => Page(q, e, n + 1) = <<>> \/ ~((n + 1) * PageRows < Len(s))
  BY DEF MayStayOpen
<1>5. /\ SubSeq(s, 1, End(s, n)) \o SubSeq(s, n * PageRows + 1, End(s, n + 1)) = SubSeq(s, 1, End(s, n + 1))
      /\ SubSeq(s, 1, End(s, n + 1)) \in Seq(Record)
      /\ SubSeq(s, n * PageRows + 1, End(s, n + 1)) = <<>> \/ ~((n + 1) * PageRows < Len(s))
           => SubSeq(s, 1, End(s, n + 1)) = s
  <2>1. SubSeq(s, 1, End(s, n)) \o SubSeq(s, n * PageRows + 1, End(s, n + 1)) = SubSeq(s, 1, End(s, n + 1))
    <3>1. JoinsNext(s, n)
      BY <1>1, PagesJoin
    <3> QED
      BY <3>1 DEF JoinsNext
  <2>2. SubSeq(s, 1, End(s, n + 1)) \in Seq(Record)
    BY <1>1, PagesJoin
  <2>3. SubSeq(s, n * PageRows + 1, End(s, n + 1)) = <<>> \/ ~((n + 1) * PageRows < Len(s))
           => SubSeq(s, 1, End(s, n + 1)) = s
    BY <1>1, PagesJoin
  <2> QED
    BY <2>1, <2>2, <2>3
<1> QED
  BY <1>3, <1>4, <1>5

LEMMA FirstPageMoves ==
  ASSUME TypeInv, NEW f \in Fibers, CallInv(f), FirstPage(f)
  PROVE  ReadMoves(f)
<1>1. call[f] \in CallRecord /\ call[f].state = "sent" /\ log' = log
  BY DEF TypeInv, FirstPage
<1>2. call[f].since = floor[f]
  BY <1>1 DEF CallInv, CallOK
<1> DEFINE d(e, mark, open) ==
             [call[f] EXCEPT !.state = "paging", !.at = e, !.mark = mark, !.page = 1,
                             !.rows = Page(call[f].query, e, 1), !.open = open]
<1>3. PICK e \in Visible(f) :
        \E open \in MayStayOpen(call[f].query, e, 1), mark \in {e, 0} : Take(f, d(e, mark, open))
  BY DEF FirstPage
<1>3a. PICK open \in MayStayOpen(call[f].query, e, 1), mark \in {e, 0} : Take(f, d(e, mark, open))
  BY <1>3
<1>4. PICK s : s = Found(call[f].query, e)
  OBVIOUS
<1>5. e \in 0..Len(log) /\ Settled <= e /\ floor[f] <= e /\ e \in Nat /\ Len(log) \in Nat
  BY ReadsAreBounded, LenProperties DEF Visible, TypeInv
<1>6. s \in Seq(Record)
  BY <1>4, <1>5, FoundIsExact
<1>7. PageRows \in Nat
  BY ReadsAreBounded
<1>8. SubSeq(s, 1, End(s, 0)) = <<>>
  <2>1. End(s, 0) = 0
    BY <1>6, <1>7, LenProperties DEF End
  <2> QED
    BY <2>1, SubSeqEmpty
<1>9. /\ Page(call[f].query, e, 1) = SubSeq(s, 1, End(s, 1))
      /\ SubSeq(s, 1, End(s, 1)) \in Seq(Record)
      /\ open = FALSE => SubSeq(s, 1, End(s, 1)) = s
  <2>1. 0 + 1 = 1 /\ 0 \in Nat
    OBVIOUS
  <2>2. /\ SubSeq(s, 1, End(s, 0)) \o Page(call[f].query, e, 1) = SubSeq(s, 1, End(s, 1))
        /\ SubSeq(s, 1, End(s, 1)) \in Seq(Record)
        /\ FALSE \in MayStayOpen(call[f].query, e, 1) => SubSeq(s, 1, End(s, 1)) = s
    BY <1>4, <1>5, <2>1, PageIsNext
  <2>3. Page(call[f].query, e, 1) \in Seq(Record)
    <3>1. Page(call[f].query, e, 1) = SubSeq(s, (1 - 1) * PageRows + 1, End(s, 1))
      BY <1>4 DEF Page, End
    <3>2. (1 - 1) * PageRows + 1 = 0 * PageRows + 1 /\ 0 * PageRows = 0
      BY <1>7
    <3>3. (1 - 1) * PageRows + 1 = 1
      BY <3>2
    <3>4. Page(call[f].query, e, 1) = SubSeq(s, 1, End(s, 1))
      BY <3>1, <3>3
    <3> QED
      BY <3>4, <2>2, Zenon
  <2>4. <<>> \o Page(call[f].query, e, 1) = Page(call[f].query, e, 1)
    BY <2>3, ConcatEmptySeq
  <2> QED
    BY <2>2, <2>4, <1>8
<1>10. open \in BOOLEAN
  <2>1. \/ open = (1 * PageRows < Len(Found(call[f].query, e)))
        \/ open = (Page(call[f].query, e, 1) # <<>>)
    BY DEF MayStayOpen
  <2>2. (1 * PageRows < Len(Found(call[f].query, e))) \in BOOLEAN /\ (Page(call[f].query, e, 1) # <<>>) \in BOOLEAN
    OBVIOUS
  <2> QED
    BY <2>1, <2>2
<1>11. d(e, mark, open) \in CallRecord
  <2>1. Page(call[f].query, e, 1) \in Seq(Record) /\ mark \in Nat /\ 1 \in Nat
    <3>1. Page(call[f].query, e, 1) \in Seq(Record)
      BY <1>9, Zenon
    <3> QED
      BY <3>1, <1>5
  <2> QED
    BY <2>1, <1>1, <1>5, <1>9, <1>10, Bounds DEF CallRecord
<1> DEFINE D == d(e, mark, open)
<1>12. /\ D.state = "paging" /\ D.query = call[f].query /\ D.since = call[f].since /\ D.at = e
       /\ D.mark \in {0, e} /\ D.page = 1 /\ D.rows = SubSeq(s, 1, End(s, 1)) /\ D.open = open
  BY <1>1, <1>9 DEF CallRecord
<1> HIDE DEF D
<1>13. PICK c \in CallRecord : c = D
  BY <1>11 DEF D
<1>14. ReadsOneState(c) /\ UpTo(c) = End(s, 1)
  BY <1>2, <1>4, <1>5, <1>12, <1>13 DEF ReadsOneState, UpTo, End
<1>15. Take(f, c)
  BY <1>3a, <1>13 DEF D
<1>16. /\ c.state = "paging" /\ c.query = call[f].query /\ c.since = call[f].since /\ c.at = e
       /\ c.mark \in {0, c.at} /\ c.page # 0 /\ c.open = open
       /\ c.rows = SubSeq(Found(c.query, c.at), 1, UpTo(c))
  BY <1>4, <1>12, <1>13, <1>14
<1>17. ~c.open => c.rows = Found(c.query, c.at)
  BY <1>4, <1>9, <1>10, <1>14, <1>16
<1> QED
  BY <1>1, <1>2, <1>14, <1>15, <1>16, <1>17, TakeMoves

\* A call that ends or starts over has read nothing.
LEMMA ReplacedMoves ==
  ASSUME TypeInv, NEW f \in Fibers, NEW d \in CallRecord, log' = log,
         call[f].state \in {"sent", "paging"},
         call' = [call EXCEPT ![f] = d], floor' = floor,
         \/ d.state \in Failures
         \/ d.state = "sent" /\ d.query = call[f].query /\ d.since = call[f].since /\ d.since = floor[f]
  PROVE  ReadMoves(f)
<1>1. call'[f] = d /\ floor'[f] = floor[f] /\ floor[f] \in Nat
  BY LenProperties DEF TypeInv
<1>2. CallOK(d, floor[f])
  BY DEF CallOK, Failures
<1>3. CallInv(f)'
  <2> PICK known : known = floor[f]
    OBVIOUS
  <2>1. CallOK(d, known)'
    BY <1>2, SameLog
  <2> QED
    BY <2>1, <1>1 DEF CallInv
<1>4. d.state # "idle" /\ (d.state \in {"sent", "paging", "done"} => d.query = call[f].query /\ d.since = call[f].since)
  BY DEF Failures
<1> QED
  BY <1>1, <1>3, <1>4 DEF ReadMoves, Running, TypeInv

LEMMA FailMoves ==
  ASSUME TypeInv, NEW f \in Fibers, NEW why \in Failures, log' = log,
         call[f].state \in {"sent", "paging"}, Fail(f, why)
  PROVE  ReadMoves(f)
<1> PICK d : d = [NoCall EXCEPT !.state = why]
  OBVIOUS
<1>1. d \in CallRecord /\ d.state = why
  BY EmptySeq, Bounds DEF CallRecord, NoCall, NoQuery, Query
<1>2. call' = [call EXCEPT ![f] = d] /\ floor' = floor
  BY DEF Fail
<1> QED
  BY <1>1, <1>2, ReplacedMoves

LEMMA EngineErrorMoves ==
  ASSUME TypeInv, NEW f \in Fibers, CallInv(f), EngineError(f)
  PROVE  ReadMoves(f)
<1>1. call[f] \in CallRecord /\ call[f].state \in {"sent", "paging"} /\ log' = log
  BY DEF TypeInv, EngineError
<1>2. call[f].since = floor[f]
  BY <1>1 DEF CallInv, CallOK
<1>3. CASE Repeat(f)
  <2>1. CASE call[f].tries + 1 < MaxTries /\ call' = [call EXCEPT ![f] = Again(call[f])] /\ floor' = floor
    <3> PICK d : d = Again(call[f])
      OBVIOUS
    <3>1. /\ d \in CallRecord /\ d.state = "sent"
          /\ d.query = call[f].query /\ d.since = call[f].since
      <4>1. /\ call[f].tries + 1 \in 0..MaxTries - 1 /\ call[f].since \in Nat /\ call[f].query \in Query
            /\ <<>> \in Seq(Record)
        BY <1>1, <2>1, EmptySeq, Bounds DEF CallRecord
      <4>2. d = [state |-> "sent", query |-> call[f].query, since |-> call[f].since, at |-> 0, mark |-> 0,
                 rows |-> <<>>, page |-> 0, open |-> FALSE, tries |-> call[f].tries + 1]
        BY DEF Again, NoCall
      <4> QED
        BY <4>1, <4>2, Bounds DEF CallRecord
    <3> QED
      BY <1>1, <1>2, <2>1, <3>1, ReplacedMoves
  <2>2. CASE Fail(f, "engine")
    BY <1>1, <2>2, FailMoves DEF Failures
  <2> QED
    BY <1>3, <2>1, <2>2 DEF Repeat
<1>4. ASSUME NEW why \in {"unavailable", "limit"}, Fail(f, why)
      PROVE  ReadMoves(f)
  BY <1>1, <1>4, FailMoves DEF Failures
<1> QED
  BY <1>3, <1>4 DEF EngineError

LEMMA NextPageMoves ==
  ASSUME TypeInv, NEW f \in Fibers, CallInv(f), NextPage(f)
  PROVE  ReadMoves(f)
<1> PICK c : c = call[f]
  OBVIOUS
<1>1. c \in CallRecord /\ c.state = "paging" /\ log' = log
  BY DEF TypeInv, NextPage
<1>2. /\ c.since = floor[f] /\ ReadsOneState(c) /\ c.mark \in {0, c.at} /\ c.page # 0
      /\ c.rows = SubSeq(Found(c.query, c.at), 1, UpTo(c))
  BY <1>1 DEF CallInv, CallOK
<1> DEFINE s == Found(c.query, c.at)
           rows == Page(c.query, c.at, c.page + 1)
<1>3. c.at \in 0..Len(log) /\ c.page \in Nat
  BY <1>1, <1>2 DEF CallRecord, ReadsOneState
<1>4. /\ SubSeq(s, 1, End(s, c.page)) \o rows = SubSeq(s, 1, End(s, c.page + 1))
      /\ SubSeq(s, 1, End(s, c.page + 1)) \in Seq(Record)
      /\ rows = <<>> \/ FALSE \in MayStayOpen(c.query, c.at, c.page + 1) => SubSeq(s, 1, End(s, c.page + 1)) = s
  BY <1>3, PageIsNext
<1>5. c.rows = SubSeq(s, 1, End(s, c.page)) /\ c.rows \in Seq(Record)
  BY <1>1, <1>2 DEF UpTo, End, CallRecord
<1>6. CASE c.page > MaxPages /\ OverPages(f)
  BY <1>1, <1>6, FailMoves DEF OverPages, Failures
<1>7. CASE rows = <<>> /\ Settle(f, c)
  <2>1. c.rows \o <<>> = c.rows
    BY <1>5, ConcatEmptySeq
  <2>2. c.rows = s
    BY <1>4, <1>5, <1>7, <2>1
  <2> QED
    BY <1>1, <1>2, <1>7, <2>2, SettleMoves
<1>8. ASSUME NEW open \in MayStayOpen(c.query, c.at, c.page + 1),
             ~(c.page > MaxPages),
             Take(f, [c EXCEPT !.page = @ + 1, !.rows = @ \o rows, !.open = open])
      PROVE  ReadMoves(f)
  <2> DEFINE D == [c EXCEPT !.page = @ + 1, !.rows = @ \o rows, !.open = open]
  <2>1. open \in BOOLEAN
    <3>1. \/ open = ((c.page + 1) * PageRows < Len(Found(c.query, c.at)))
          \/ open = (Page(c.query, c.at, c.page + 1) # <<>>)
      BY DEF MayStayOpen
    <3>2. /\ ((c.page + 1) * PageRows < Len(Found(c.query, c.at))) \in BOOLEAN
          /\ (Page(c.query, c.at, c.page + 1) # <<>>) \in BOOLEAN
      OBVIOUS
    <3> QED
      BY <3>1, <3>2
  <2>2. c.rows \o rows = SubSeq(s, 1, End(s, c.page + 1))
    BY <1>4, <1>5
  <2>3. D = [c EXCEPT !.page = c.page + 1, !.rows = SubSeq(s, 1, End(s, c.page + 1)), !.open = open]
    BY <1>1, <2>2 DEF CallRecord
  <2>4. c.page + 1 \in 0..MaxPages + 1 /\ c.page + 1 # 0
    BY <1>1, <1>3, <1>8, Bounds DEF CallRecord
  <2>5. /\ D \in CallRecord /\ D.state = "paging" /\ D.query = c.query /\ D.since = c.since /\ D.at = c.at
        /\ D.mark = c.mark /\ D.page = c.page + 1 /\ D.rows = SubSeq(s, 1, End(s, c.page + 1)) /\ D.open = open
    <3> HIDE DEF s, D
    <3> QED
      BY <1>1, <1>4, <2>1, <2>3, <2>4 DEF CallRecord
  <2> HIDE DEF D
  <2> PICK d \in CallRecord : d = D
    BY <2>5
  <2>6. ReadsOneState(d) /\ UpTo(d) = End(Found(d.query, d.at), d.page)
    BY <1>2, <2>5 DEF ReadsOneState, UpTo, End
  <2>7. d.rows = SubSeq(Found(d.query, d.at), 1, UpTo(d))
    BY <2>5, <2>6
  <2>8. ~d.open => d.rows = Found(d.query, d.at)
    BY <1>4, <2>1, <2>5
  <2>9. Take(f, d)
    BY <1>8 DEF D
  <2> QED
    BY <1>1, <1>2, <2>4, <2>5, <2>6, <2>7, <2>8, <2>9, TakeMoves
<1> QED
  BY <1>6, <1>7, <1>8 DEF NextPage

LEMMA ReadStepMoves ==
  ASSUME TypeInv, NEW f \in Fibers, CallInv(f), ReadStep(f)
  PROVE  ReadMoves(f)
BY FirstPageMoves, NextPageMoves, EngineErrorMoves DEF ReadStep

-----------------------------------------------------------------------------
(***************************************************************************)
(* The invariant holds at first and is kept by the reads.                  *)
(***************************************************************************)
LEMMA FibersOfCallers ==
  /\ \A c \in Callers : \A i \in {0, 1, 2} : <<c, i>> \in Fibers
  /\ \A f \in Fibers : f[1] \in Callers /\ f[2] \in {0, 1, 2} /\ f = <<f[1], f[2]>>
BY CallersAsk

LEMMA InitHolds == RequestsInit => IInv
<1> SUFFICES ASSUME RequestsInit
             PROVE  IInv
  OBVIOUS
<1>1. /\ log \in Seq([key : Keys, by : {"before"}, sound : BOOLEAN]) /\ Settled = Len(log)
      /\ Len(log) \in Nat /\ DOMAIN log = 1..Len(log)
  BY KeysOfGraph, LenProperties DEF RequestsInit
<1>2. log \in Seq(Record)
  <2>1. [key : Keys, by : {"before"}, sound : BOOLEAN] \subseteq Record
    BY DEF Record
  <2> QED
    BY <1>1, <2>1, SeqMonotonic
<1>3. \A i \in DOMAIN log : i <= Settled /\ log[i].by = "before"
  <2> SUFFICES ASSUME NEW i \in DOMAIN log
               PROVE  i <= Settled /\ log[i].by = "before"
    OBVIOUS
  <2>1. log[i] \in [key : Keys, by : {"before"}, sound : BOOLEAN]
    BY <1>1, ElementOfSeq
  <2> QED
    BY <1>1, <2>1
<1>4. NoCall \in CallRecord /\ NoCall.state = "idle"
  BY EmptySeq, Bounds DEF NoCall, NoQuery, CallRecord, Query
<1>5. TypeInv
  <2>1. kind \in [Callers -> Kinds] /\ at \in [Callers -> Places] /\ floor \in [Fibers -> 0..Len(log)]
    BY <1>1 DEF RequestsInit, Places
  <2>2. call \in [Fibers -> CallRecord]
    BY <1>4 DEF RequestsInit
  <2>3. reply \in [Callers -> [status : Nat, bookmark : 0..Len(log)]]
    BY <1>1 DEF RequestsInit
  <2> QED
    BY <1>1, <1>2, <2>1, <2>2, <2>3 DEF RequestsInit, TypeInv
<1>6. LogInv
  BY <1>1, <1>3 DEF LogInv
<1>7. ASSUME NEW f \in Fibers
      PROVE  CallInv(f)
  BY <1>4 DEF RequestsInit, CallInv, CallOK
<1>8. ASSUME NEW c \in Callers
      PROVE  ReqInv(c)
  <2>1. \A i \in {0, 1, 2} : call[<<c, i>>].state = "idle" /\ floor[<<c, i>>] = 0
    BY <1>4, FibersOfCallers DEF RequestsInit
  <2>2. at[c] = "start" /\ given[c] = 0 /\ reached[c] = {} /\ spans[c] = {}
        /\ reply[c] = [status |-> 0, bookmark |-> 0]
    BY DEF RequestsInit
  <2>3. WriteInv(c)
    BY <1>3, CallersAsk DEF WriteInv
  <2> QED
    BY <2>1, <2>2, <2>3 DEF ReqInv, PlaceInv, FloorInv, Own, Running, UserInv, SoundInv
<1> QED
  BY <1>5, <1>6, <1>7, <1>8 DEF IInv

LEMMA ServeKeeps ==
  ASSUME IInv, NEW f \in Fibers, Serve(f)
  PROVE  IInv'
<1>1. TypeInv /\ CallInv(f) /\ ReadStep(f) /\ UNCHANGED <<kind, who, at, given, reached, spans, reply>>
  BY DEF IInv, Serve
<1>2. ReadMoves(f)
  BY <1>1, ReadStepMoves
<1>3. log' = log
  BY <1>2 DEF ReadMoves
<1>4. TypeInv'
  BY <1>1, <1>2, <1>3 DEF ReadMoves, TypeInv
<1>5. LogInv'
  BY <1>3 DEF IInv, LogInv
<1>6. ASSUME NEW g \in Fibers
      PROVE  CallInv(g)'
  <2>1. CASE g = f
    BY <2>1, <1>2 DEF ReadMoves
  <2>2. CASE g # f
    <3>1. call'[g] = call[g] /\ floor'[g] = floor[g]
      BY <2>2, <1>2 DEF ReadMoves
    <3>2. call[g] \in CallRecord /\ CallOK(call[g], floor[g])
      BY <1>1 DEF TypeInv, IInv, CallInv
    <3> PICK c \in CallRecord, known \in {floor[g]} : c = call[g] /\ known = floor[g]
      BY <3>2
    <3>3. CallOK(c, known)'
      BY <3>2, <1>1, <1>3, SameLog
    <3> QED
      BY <3>1, <3>3 DEF CallInv
  <2> QED
    BY <2>1, <2>2
<1>7. ASSUME NEW c \in Callers
      PROVE  ReqInv(c)'
  <2>1. PlaceInv(c) /\ FloorInv(c) /\ WriteInv(c) /\ UserInv(c) /\ SoundInv(c)
    BY DEF IInv, ReqInv
  <2>2. \A g \in Fibers : /\ floor[g] <= floor'[g] /\ floor[g] \in Nat /\ floor'[g] \in Nat
                          /\ call[g].state = "idle" <=> call'[g].state = "idle"
                          /\ Running(g)' => Running(g) /\ call'[g].query = call[g].query
                                              /\ call'[g].since = call[g].since
    <3> SUFFICES ASSUME NEW g \in Fibers
                 PROVE  /\ floor[g] <= floor'[g] /\ floor[g] \in Nat /\ floor'[g] \in Nat
                        /\ call[g].state = "idle" <=> call'[g].state = "idle"
                        /\ Running(g)' => Running(g) /\ call'[g].query = call[g].query
                                              /\ call'[g].since = call[g].since
      OBVIOUS
    <3>1. floor[g] \in Nat /\ floor'[g] \in Nat
      BY <1>1, <1>4, LenProperties DEF TypeInv
    <3>2. CASE g = f
      BY <1>2, <3>1, <3>2 DEF ReadMoves, Running
    <3>3. CASE g # f
      <4>1. call'[g] = call[g] /\ floor'[g] = floor[g]
        BY <1>2, <3>3 DEF ReadMoves
      <4> QED
        BY <3>1, <4>1 DEF Running
    <3> QED
      BY <3>2, <3>3
  <2>3. \A i \in {0, 1, 2} : <<c, i>> \in Fibers
    BY FibersOfCallers
  <2>4. PlaceInv(c)'
    BY <1>1, <2>1, <2>2, <2>3 DEF PlaceInv
  <2>5. FloorInv(c)'
    BY <1>1, <2>1, <2>2, <2>3 DEF FloorInv, Own, TypeInv
  <2>6. WriteInv(c)'
    <3>1. \A i \in DOMAIN log : i \in Nat
      BY LenProperties, <1>1 DEF TypeInv
    <3> QED
      BY <1>1, <1>3, <2>1, <2>2, <2>3, <3>1 DEF WriteInv, Own
  <2>7. UserInv(c)'
    BY <1>1, <1>3, <2>1, <2>2, <2>3 DEF UserInv, Own, Known
  <2>8. SoundInv(c)'
    BY <1>1, <1>3, <2>1 DEF SoundInv, SoundKey
  <2> QED
    BY <2>4, <2>5, <2>6, <2>7, <2>8 DEF ReqInv
<1> QED
  BY <1>4, <1>5, <1>6, <1>7 DEF IInv

-----------------------------------------------------------------------------
(***************************************************************************)
(* What a handler's step does to the requests beside it.                   *)
(***************************************************************************)

\* What belongs to the other requests stays.
OthersStay(c) ==
  /\ \A f \in Fibers : f[1] # c => call'[f] = call[f] /\ floor'[f] = floor[f]
  /\ \A d \in Callers \ {c} :
       /\ kind'[d] = kind[d] /\ who'[d] = who[d] /\ at'[d] = at[d] /\ given'[d] = given[d]
       /\ reached'[d] = reached[d] /\ spans'[d] = spans[d] /\ reply'[d] = reply[d]

LEMMA OthersKeep ==
  ASSUME IInv, NEW c \in Callers, NEW d \in Callers \ {c}, OthersStay(c), log' = log
  PROVE  ReqInv(d)'
<1>1. \A i \in {0, 1, 2} : call'[<<d, i>>] = call[<<d, i>>] /\ floor'[<<d, i>>] = floor[<<d, i>>]
  BY FibersOfCallers DEF OthersStay
<1>2. /\ kind'[d] = kind[d] /\ who'[d] = who[d] /\ at'[d] = at[d] /\ given'[d] = given[d]
      /\ reached'[d] = reached[d] /\ spans'[d] = spans[d] /\ reply'[d] = reply[d]
  BY DEF OthersStay
<1>3. PlaceInv(d) /\ FloorInv(d) /\ WriteInv(d) /\ UserInv(d) /\ SoundInv(d)
  BY DEF IInv, ReqInv
<1>4. PlaceInv(d)'
  BY <1>1, <1>2, <1>3 DEF PlaceInv
<1>5. FloorInv(d)'
  BY <1>1, <1>2, <1>3 DEF FloorInv, Own, Running
<1>6. WriteInv(d)'
  BY <1>1, <1>2, <1>3 DEF WriteInv, Own
<1>7. UserInv(d)'
  BY <1>1, <1>2, <1>3 DEF UserInv, Own, Running, Known
<1>8. SoundInv(d)'
  BY <1>2, <1>3 DEF SoundInv, SoundKey
<1> QED
  BY <1>4, <1>5, <1>6, <1>7, <1>8 DEF ReqInv

LEMMA OtherCallsKeep ==
  ASSUME IInv, NEW c \in Callers, NEW f \in Fibers, f[1] # c, OthersStay(c), log' = log
  PROVE  CallInv(f)'
<1>1. call[f] \in CallRecord /\ CallOK(call[f], floor[f]) /\ TypeInv
  BY DEF IInv, TypeInv, CallInv
<1>2. call'[f] = call[f] /\ floor'[f] = floor[f]
  BY DEF OthersStay
<1> PICK d \in CallRecord, known \in {floor[f]} : d = call[f] /\ known = floor[f]
  BY <1>1
<1>3. CallOK(d, known)'
  BY <1>1, SameLog
<1> QED
  BY <1>2, <1>3 DEF CallInv

\* Where a kind of request may go.
Fits(place, k) ==
  /\ place \in {"session", "write"} => k = "ingest"
  /\ place \in {"root", "arms", "locators", "turns"} => k = "ask"
  /\ place \in {"chain", "quoted"} => k = "slot"
  /\ place \in {"user", "vertices", "hops"} => k \in {"stats", "slot", "warm"}
  /\ place = "list" => k \in {"stats", "sessions"}

\* A call that was just sent.
Sent(q, own) == [NoCall EXCEPT !.state = "sent", !.query = q, !.since = own]

LEMMA SentIsARecord ==
  ASSUME NEW q, NEW own
  PROVE  Sent(q, own) = [state |-> "sent", query |-> q, since |-> own, at |-> 0, mark |-> 0,
                         rows |-> <<>>, page |-> 0, open |-> FALSE, tries |-> 0]
<1> PICK d : d = Sent(q, own)
  OBVIOUS
<1>1. d = [state |-> "sent", query |-> q, since |-> own, at |-> 0, mark |-> 0,
           rows |-> <<>>, page |-> 0, open |-> FALSE, tries |-> 0]
  BY DEF Sent, NoCall
<1> QED
  BY <1>1

LEMMA SentIsACall ==
  ASSUME NEW q \in Query, NEW own \in Nat
  PROVE  /\ Sent(q, own) \in CallRecord
         /\ Sent(q, own).state = "sent" /\ Sent(q, own).query = q /\ Sent(q, own).since = own
<1>1. <<>> \in Seq(Record)
  BY EmptySeq
<1> QED
  BY <1>1, SentIsARecord, Bounds DEF CallRecord

\* A request goes on to its next reads.
LEMMA LaunchKeeps ==
  ASSUME IInv, NEW c \in Callers, NEW qs, NEW own \in 0..Len(log), NEW next \in Places \ {"start", "done"},
         Launch(c, qs, own, next), at[c] \notin {"write", "done"},
         DOMAIN qs \subseteq {0, 1, 2}, \A i \in DOMAIN qs : qs[i] \in Query,
         next = "write" => DOMAIN qs = {}, Fits(next, kind[c]),
         who' \in [Callers -> Keys \cup {"none"}], given' \in [Callers -> Nat],
         reached' \in [Callers -> SUBSET Keys], spans' \in [Callers -> SUBSET Keys],
         \A d \in Callers \ {c} : who'[d] = who[d] /\ given'[d] = given[d]
                                    /\ reached'[d] = reached[d] /\ spans'[d] = spans[d],
         kind[c] # "ask" => given'[c] = 0, given'[c] <= own,
         next = "user" => who'[c] \in Keys /\ 0 \in DOMAIN qs /\ qs[0] = LookUp(who'[c]),
         kind[c] \in {"stats", "warm"} /\ next \in {"list", "vertices", "hops"} => Known(who'[c]),
         \A k \in reached'[c] : SoundKey(k),
         \A k \in spans'[c] : SoundKey(k) /\ SoundKey(TurnOf[k])
  PROVE  IInv'
<1>1. TypeInv /\ ReqInv(c) /\ Len(log) \in Nat
  BY LenProperties DEF IInv, TypeInv
<1>2. log' = log /\ kind' = kind /\ reply' = reply /\ at' = [at EXCEPT ![c] = next]
  BY DEF Launch
<1> DEFINE sent(i) == Sent(qs[i], own)
<1>3. ASSUME NEW i \in DOMAIN qs
      PROVE  /\ sent(i) \in CallRecord
             /\ sent(i).state = "sent" /\ sent(i).query = qs[i] /\ sent(i).since = own
  <2>1. qs[i] \in Query /\ own \in Nat
    BY <1>1
  <2>2. \A q \in Query, n \in Nat :
          /\ Sent(q, n) \in CallRecord
          /\ Sent(q, n).state = "sent" /\ Sent(q, n).query = q /\ Sent(q, n).since = n
    BY SentIsACall
  <2> QED
    BY <2>1, <2>2
<1>4. NoCall \in CallRecord /\ NoCall.state = "idle"
  BY EmptySeq, Bounds DEF NoCall, NoQuery, CallRecord, Query
<1> HIDE DEF sent
<1>5. \A f \in Fibers : call'[f] = IF f[1] # c THEN call[f] ELSE IF f[2] \notin DOMAIN qs THEN NoCall ELSE sent(f[2])
  BY DEF Launch, Inherited, sent, Sent
<1>6. \A f \in Fibers : floor'[f] = IF f[1] = c /\ f[2] \in DOMAIN qs \cup {0} THEN own ELSE floor[f]
  BY DEF Launch, Inherited
<1>7. DOMAIN call' = Fibers /\ DOMAIN floor' = Fibers /\ call' = [f \in Fibers |-> call'[f]]
        /\ floor' = [f \in Fibers |-> floor'[f]]
  BY DEF Launch
<1>8. call' \in [Fibers -> CallRecord] /\ floor' \in [Fibers -> 0..Len(log)]
  <2>1. ASSUME NEW f \in Fibers
        PROVE  call'[f] \in CallRecord
    <3>1. CASE f[1] # c
      BY <3>1, <1>1, <1>5 DEF TypeInv
    <3>2. CASE f[1] = c /\ f[2] \notin DOMAIN qs
      BY <3>2, <1>4, <1>5
    <3>3. CASE f[1] = c /\ f[2] \in DOMAIN qs
      BY <3>3, <1>3, <1>5
    <3> QED
      BY <3>1, <3>2, <3>3
  <2>2. \A f \in Fibers : floor'[f] \in 0..Len(log)
    BY <1>1, <1>6 DEF TypeInv
  <2> QED
    BY <1>7, <2>1, <2>2
<1>9. OthersStay(c)
  BY <1>1, <1>2, <1>5, <1>6 DEF OthersStay, TypeInv
<1>10. \A i \in {0, 1, 2} :
         /\ i \in DOMAIN qs => /\ call'[<<c, i>>].state = "sent" /\ call'[<<c, i>>].query = qs[i]
                               /\ call'[<<c, i>>].since = own /\ floor'[<<c, i>>] = own
         /\ i \notin DOMAIN qs => call'[<<c, i>>].state = "idle"
  <2>1. \A i \in {0, 1, 2} : <<c, i>> \in Fibers /\ <<c, i>>[1] = c /\ <<c, i>>[2] = i
    BY FibersOfCallers
  <2>2. \A i \in {0, 1, 2} : call'[<<c, i>>] = IF i \notin DOMAIN qs THEN NoCall ELSE sent(i)
    BY <2>1, <1>5
  <2>3. \A i \in {0, 1, 2} : i \in DOMAIN qs => floor'[<<c, i>>] = own
    BY <2>1, <1>6
  <2>4. ASSUME NEW i \in {0, 1, 2}, i \in DOMAIN qs
        PROVE  /\ call'[<<c, i>>].state = "sent" /\ call'[<<c, i>>].query = qs[i]
               /\ call'[<<c, i>>].since = own /\ floor'[<<c, i>>] = own
    BY <2>2, <2>3, <2>4, <1>3
  <2>5. ASSUME NEW i \in {0, 1, 2}, i \notin DOMAIN qs
        PROVE  call'[<<c, i>>].state = "idle"
    BY <2>2, <2>5, <1>4
  <2> QED
    BY <2>4, <2>5
<1>11. floor'[Own(c)] = own
  BY <1>6, FibersOfCallers DEF Own
<1>12. ASSUME NEW f \in Fibers
       PROVE  CallInv(f)'
  <2>1. CASE f[1] # c
    BY <2>1, <1>2, <1>9, OtherCallsKeep
  <2>2. CASE f[1] = c
    <3>1. f = <<c, f[2]>> /\ f[2] \in {0, 1, 2}
      BY <2>2, FibersOfCallers
    <3>2. call'[f].state = "idle" \/ (call'[f].state = "sent" /\ call'[f].since = floor'[f])
      BY <3>1, <1>10
    <3> QED
      BY <3>2 DEF CallInv, CallOK
  <2> QED
    BY <2>1, <2>2
<1>13. TypeInv'
  <2>1. at' \in [Callers -> Places]
    BY <1>1, <1>2 DEF TypeInv
  <2> QED
    BY <1>1, <1>2, <1>8, <2>1 DEF TypeInv
<1>14. LogInv'
  BY <1>2 DEF IInv, LogInv
<1>15. PlaceInv(c) /\ WriteInv(c) /\ at[c] # "done" /\ at'[c] = next
  BY <1>1, <1>2 DEF ReqInv, TypeInv
<1>16. reply[c] = [status |-> 0, bookmark |-> 0]
  BY <1>15 DEF PlaceInv
<1>17. PlaceInv(c)'
  BY <1>2, <1>10, <1>15, <1>16 DEF PlaceInv, Fits
<1>18. FloorInv(c)'
  BY <1>2, <1>10, <1>11, <1>15 DEF FloorInv, Running
<1>19. WriteInv(c)'
  BY <1>2, <1>15 DEF WriteInv
<1>20. UserInv(c)'
  <2>1. next = "user" => call'[Own(c)].state = "sent" /\ call'[Own(c)].query = qs[0]
    BY <1>10 DEF Own
  <2>2. reply'[c].status = 0
    BY <1>2, <1>16
  <2>3. Known(who'[c]) => Known(who[c])'
    BY <1>2 DEF Known
  <2>4. next = "user" => LookUp(who'[c]) = call'[Own(c)].query
    BY <2>1
  <2> QED
    BY <1>2, <1>15, <2>1, <2>2, <2>3, <2>4 DEF UserInv
<1>21. SoundInv(c)'
  BY <1>2 DEF SoundInv, SoundKey
<1>22. ReqInv(c)'
  BY <1>17, <1>18, <1>19, <1>20, <1>21 DEF ReqInv
<1> QED
  BY <1>2, <1>9, <1>12, <1>13, <1>14, <1>22, OthersKeep DEF IInv

\* A request is answered.
LEMMA AnswerKeeps ==
  ASSUME IInv, NEW c \in Callers, NEW status \in Nat \ {0}, NEW bookmark \in 0..Len(log),
         Answer(c, status, bookmark),
         \A i \in DOMAIN log : log[i].by = c => bookmark = 0 \/ i <= bookmark,
         reached' \in [Callers -> SUBSET Keys], spans' \in [Callers -> SUBSET Keys],
         \A d \in Callers \ {c} : reached'[d] = reached[d] /\ spans'[d] = spans[d],
         kind[c] \in {"stats", "warm"} =>
           /\ status = 404 => \A i \in 1..Settled : log[i].key # who[c]
           /\ status = 200 => Known(who[c]),
         \A k \in reached'[c] : SoundKey(k),
         \A k \in spans'[c] : SoundKey(k) /\ SoundKey(TurnOf[k])
  PROVE  IInv'
<1>1. TypeInv /\ ReqInv(c) /\ Len(log) \in Nat
  BY LenProperties DEF IInv, TypeInv
<1>2. /\ UNCHANGED <<log, floor, kind, who, given>>
      /\ at' = [at EXCEPT ![c] = "done"]
      /\ reply' = [reply EXCEPT ![c] = [status |-> status, bookmark |-> bookmark]]
      /\ call' = [f \in Fibers |-> IF f[1] = c THEN NoCall ELSE call[f]]
  BY DEF Answer
<1>3. NoCall \in CallRecord /\ NoCall.state = "idle"
  BY EmptySeq, Bounds DEF NoCall, NoQuery, CallRecord, Query
<1>4. at'[c] = "done" /\ reply'[c].status = status /\ reply'[c].bookmark = bookmark
  BY <1>1, <1>2 DEF TypeInv
<1>5. TypeInv'
  <2>1. at' \in [Callers -> Places]
    BY <1>1, <1>2 DEF TypeInv, Places
  <2>2. call' \in [Fibers -> CallRecord]
    BY <1>1, <1>2, <1>3 DEF TypeInv
  <2>3. reply' \in [Callers -> [status : Nat, bookmark : 0..Len(log)]]
    BY <1>1, <1>2 DEF TypeInv
  <2> QED
    BY <1>1, <1>2, <2>1, <2>2, <2>3 DEF TypeInv
<1>6. LogInv'
  BY <1>2 DEF IInv, LogInv
<1>7. OthersStay(c)
  BY <1>1, <1>2 DEF OthersStay, TypeInv
<1>8. \A i \in {0, 1, 2} : call'[<<c, i>>] = NoCall
  BY <1>2, FibersOfCallers
<1>9. ASSUME NEW f \in Fibers
      PROVE  CallInv(f)'
  <2>1. CASE f[1] # c
    BY <2>1, <1>2, <1>7, OtherCallsKeep
  <2>2. CASE f[1] = c
    <3>1. call'[f].state = "idle"
      BY <2>2, <1>2, <1>3
    <3> QED
      BY <3>1 DEF CallInv, CallOK
  <2> QED
    BY <2>1, <2>2
<1>10. PlaceInv(c)'
  BY <1>4 DEF PlaceInv
<1>11. FloorInv(c)'
  <2>1. FloorInv(c) /\ \A i \in {0, 1, 2} : call'[<<c, i>>].state = "idle"
    BY <1>1, <1>3, <1>8 DEF ReqInv
  <2> QED
    BY <1>2, <1>4, <2>1 DEF FloorInv, Running, Own
<1>12. WriteInv(c)'
  BY <1>2, <1>4 DEF WriteInv
<1>13. UserInv(c)'
  BY <1>2, <1>4 DEF UserInv, Known
<1>14. SoundInv(c)'
  BY <1>2 DEF SoundInv, SoundKey
<1>15. ReqInv(c)'
  BY <1>10, <1>11, <1>12, <1>13, <1>14 DEF ReqInv
<1> QED
  BY <1>2, <1>5, <1>6, <1>7, <1>9, <1>15, OthersKeep DEF IInv

\* A request is answered and nothing is learnt about claims.
LEMMA SayKeeps ==
  ASSUME IInv, NEW c \in Callers, NEW status \in Nat \ {0}, Say(c, status),
         kind[c] \in {"stats", "warm"} =>
           /\ status = 404 => \A i \in 1..Settled : log[i].key # who[c]
           /\ status = 200 => Known(who[c])
  PROVE  IInv'
<1>1. TypeInv /\ SoundInv(c) /\ 0 \in 0..Len(log)
  BY LenProperties DEF IInv, TypeInv, ReqInv
<1>2. Answer(c, status, 0) /\ reached' = reached /\ spans' = spans
  BY DEF Say
<1> QED
  BY <1>1, <1>2, AnswerKeeps DEF TypeInv, SoundInv

\* A request goes on to its next reads, and nothing else is known of it.
LEMMA ThenKeeps ==
  ASSUME IInv, NEW c \in Callers, NEW qs, NEW next \in Places \ {"start", "done", "user"},
         Then(c, qs, next), at[c] \notin {"start", "write", "done"},
         DOMAIN qs \subseteq {0, 1, 2}, \A i \in DOMAIN qs : qs[i] \in Query,
         next = "write" => DOMAIN qs = {}, Fits(next, kind[c]),
         kind[c] \in {"stats", "warm"} /\ next \in {"list", "vertices", "hops"} => Known(who[c])
  PROVE  IInv'
<1>1. TypeInv /\ SoundInv(c) /\ FloorInv(c) /\ UNCHANGED <<who, given, reached, spans>>
  BY DEF IInv, ReqInv, Then
<1>2. floor[Own(c)] \in 0..Len(log)
  BY <1>1, FibersOfCallers DEF TypeInv, Own
<1> PICK own \in 0..Len(log) : own = floor[Own(c)]
  BY <1>2
<1>3. Launch(c, qs, own, next)
  BY DEF Then
<1>4. who' \in [Callers -> Keys \cup {"none"}] /\ given' \in [Callers -> Nat]
      /\ reached' \in [Callers -> SUBSET Keys] /\ spans' \in [Callers -> SUBSET Keys]
  BY <1>1 DEF TypeInv
<1>5. (kind[c] # "ask" => given'[c] = 0) /\ given'[c] <= own
  BY <1>1 DEF FloorInv
<1>6. \A d \in Callers \ {c} : who'[d] = who[d] /\ given'[d] = given[d]
                                 /\ reached'[d] = reached[d] /\ spans'[d] = spans[d]
  BY <1>1
<1>7. /\ \A k \in reached'[c] : SoundKey(k)
      /\ \A k \in spans'[c] : SoundKey(k) /\ SoundKey(TurnOf[k])
  BY <1>1 DEF SoundInv
<1>8. kind[c] \in {"stats", "warm"} /\ next \in {"list", "vertices", "hops"} => Known(who'[c])
  BY <1>1
<1>9. next = "user" => who'[c] \in Keys /\ 0 \in DOMAIN qs /\ qs[0] = LookUp(who'[c])
  OBVIOUS
<1>10. next \in Places \ {"start", "done"} /\ at[c] \notin {"write", "done"}
  OBVIOUS
<1> QED
  BY <1>3, <1>4, <1>5, <1>6, <1>7, <1>8, <1>9, <1>10, LaunchKeeps

LEMMA UserIsKept ==
  ASSUME NEW d, UserInv(d), UNCHANGED <<call, kind, who, at, reply>>,
         \A i \in 1..Settled : log'[i] = log[i],
         \A i \in DOMAIN log : i \in DOMAIN log' /\ log'[i] = log[i]
  PROVE  UserInv(d)'
<1>1. Known(who[d]) => \E i \in DOMAIN log' : log'[i].key = who'[d]
  BY DEF Known
<1>2. (\A i \in 1..Settled : log[i].key # who[d]) => \A i \in 1..Settled : log'[i].key # who'[d]
  OBVIOUS
<1>3. /\ at'[d] = "user" =>
           /\ call'[Own(d)].state # "idle" /\ who'[d] \in Keys
           /\ call'[Own(d)].state \in {"sent", "paging", "done"} => call'[Own(d)].query = LookUp(who'[d])
      /\ kind'[d] \in {"stats", "warm"} =>
           /\ at'[d] \in {"list", "vertices", "hops"} => Known(who[d])
           /\ reply'[d].status = 404 => \A i \in 1..Settled : log[i].key # who[d]
           /\ reply'[d].status = 200 => Known(who[d])
  BY DEF UserInv, Running
<1> QED
  BY <1>1, <1>2, <1>3 DEF UserInv, Running, Own, LookUp, Known

\* A record is appended to the log.
LEMMA WriteKeeps ==
  ASSUME IInv, NEW c \in Callers, NEW r \in Record, r.by = c, r.sound, at[c] = "write",
         log' = Append(log, r), floor' = [floor EXCEPT ![Own(c)] = Len(log')],
         UNCHANGED <<call, kind, who, at, given, reached, spans, reply>>
  PROVE  IInv'
<1>1. TypeInv /\ LogInv /\ Len(log) \in Nat /\ Settled \in Nat /\ DOMAIN log = 1..Len(log)
  BY LenProperties, ReadsAreBounded DEF IInv, TypeInv
<1>2. /\ log' \in Seq(Record) /\ Len(log') = Len(log) + 1 /\ DOMAIN log' = 1..Len(log) + 1
      /\ \A i \in 1..Len(log) : log'[i] = log[i]
      /\ log'[Len(log) + 1] = r
  <2>1. log \in Seq(Record)
    BY <1>1 DEF TypeInv
  <2> QED
    BY <2>1, <1>1, AppendProperties, LenProperties
<1>3. Own(c) \in Fibers
  BY FibersOfCallers DEF Own
<1>4. TypeInv'
  <2>1. floor' \in [Fibers -> 0..Len(log')]
    BY <1>1, <1>2, <1>3 DEF TypeInv
  <2>2. reply' \in [Callers -> [status : Nat, bookmark : 0..Len(log')]]
    <3>1. 0..Len(log) \subseteq 0..Len(log')
      BY <1>1, <1>2
    <3> QED
      BY <1>1, <3>1 DEF TypeInv
  <2>3. Settled <= Len(log')
    BY <1>1, <1>2 DEF TypeInv
  <2> QED
    BY <1>1, <1>2, <2>1, <2>2, <2>3 DEF TypeInv
<1>5. LogInv'
  <2> SUFFICES ASSUME NEW i \in 1..Len(log) + 1
               PROVE  /\ i <= Settled => log'[i].by = "before"
                      /\ i > Settled => log'[i].sound
    BY <1>2 DEF LogInv
  <2>1. CASE i \in 1..Len(log)
    BY <1>1, <1>2, <2>1 DEF LogInv
  <2>2. CASE i = Len(log) + 1
    BY <1>1, <1>2, <2>2 DEF TypeInv
  <2> QED
    BY <1>1, <2>1, <2>2
<1>6. ASSUME NEW f \in Fibers
      PROVE  CallInv(f)'
  <2>1. call[f] \in CallRecord /\ CallOK(call[f], floor[f]) /\ call'[f] = call[f]
    BY <1>1 DEF IInv, TypeInv, CallInv
  <2>2. CASE f # Own(c)
    <3>1. floor'[f] = floor[f]
      BY <1>1, <2>2 DEF TypeInv
    <3> PICK d \in CallRecord, known \in {floor[f]} : d = call[f] /\ known = floor[f]
      BY <2>1
    <3>2. CallOK(d, known)'
      BY <2>1, <1>1, <1>2, CallIsKept
    <3> QED
      BY <2>1, <3>1, <3>2 DEF CallInv
  <2>3. CASE f = Own(c)
    <3>1. call'[f].state = "idle"
      BY <2>1, <2>3 DEF IInv, ReqInv, PlaceInv, Own
    <3> QED
      BY <3>1 DEF CallInv, CallOK
  <2> QED
    BY <2>2, <2>3
<1>7. ASSUME NEW k, SoundKey(k)
      PROVE  SoundKey(k)'
  BY <1>1, <1>2, <1>7 DEF SoundKey
<1>8. ASSUME NEW d \in Callers
      PROVE  ReqInv(d)'
  <2>1. PlaceInv(d) /\ FloorInv(d) /\ WriteInv(d) /\ UserInv(d) /\ SoundInv(d)
    BY DEF IInv, ReqInv
  <2>2. PlaceInv(d)'
    BY <2>1 DEF PlaceInv
  <2>3. floor[Own(d)] <= floor'[Own(d)] /\ floor[Own(d)] \in Nat /\ floor'[Own(d)] \in Nat /\ given[d] \in Nat
    <3>1. Own(d) \in Fibers /\ given[d] \in Nat
      BY <1>1, FibersOfCallers DEF TypeInv, Own
    <3>2. floor[Own(d)] \in 0..Len(log)
      BY <1>1, <3>1 DEF TypeInv
    <3>3. floor'[Own(d)] = IF Own(d) = Own(c) THEN Len(log) + 1 ELSE floor[Own(d)]
      BY <1>1, <1>2, <3>1 DEF TypeInv
    <3> QED
      BY <1>1, <3>1, <3>2, <3>3
  <2>4. FloorInv(d)'
    BY <2>1, <2>3 DEF FloorInv, Running
  <2>5. WriteInv(d)'
    <3>1. ASSUME NEW i \in 1..Len(log), log[i].by = d
          PROVE  /\ at[d] \in {"write", "done"}
                 /\ at[d] = "write" => i <= floor'[Own(d)]
                 /\ at[d] = "done" /\ reply[d].bookmark # 0 => i <= reply[d].bookmark
      BY <3>1, <1>1, <2>1, <2>3 DEF WriteInv
    <3>2. r.by = d => d = c /\ floor'[Own(d)] = Len(log) + 1
      BY <1>1, <1>2, <1>3 DEF TypeInv
    <3> QED
      BY <1>2, <3>1, <3>2 DEF WriteInv
  <2>6. UserInv(d)'
    <3>1. \A i \in 1..Settled : log'[i] = log[i]
      BY <1>1, <1>2 DEF TypeInv
    <3>2. \A i \in DOMAIN log : i \in DOMAIN log' /\ log'[i] = log[i]
      BY <1>1, <1>2
    <3> QED
      BY <2>1, <3>1, <3>2, UserIsKept
  <2>7. SoundInv(d)'
    BY <1>7, <2>1 DEF SoundInv
  <2> QED
    BY <2>2, <2>4, <2>5, <2>6, <2>7 DEF ReqInv
<1> QED
  BY <1>4, <1>5, <1>6, <1>8 DEF IInv

-----------------------------------------------------------------------------
(***************************************************************************)
(* What a finished read has established.                                   *)
(***************************************************************************)
LEMMA LookUpIsAQuery ==
  ASSUME NEW k \in Keys
  PROVE  LookUp(k) \in Query /\ LookUp(k).key = k /\ LookUp(k).key # "none" /\ LookUp(k).ids = {IdOf[k]}
<1>1. {IdOf[k]} \in SUBSET Nat /\ k # "none"
  BY ReadsAreBounded, KeysOfGraph
<1> QED
  BY <1>1 DEF LookUp, Query

LEMMA WalkIsAQuery ==
  ASSUME NEW ks \in SUBSET Keys
  PROVE  Walk(ks) \in Query
<1>1. {IdOf[k] : k \in ks} \in SUBSET Nat
  BY ReadsAreBounded
<1> QED
  BY <1>1 DEF Walk, Query

FoundExactly(q, e) ==
  /\ Found(q, e) \in Seq(Record)
  /\ \A n \in DOMAIN Found(q, e) : \E i \in 1..e : Found(q, e)[n] = log[i] /\ IdOf[log[i].key] \in q.ids
  /\ \A i \in 1..e : IdOf[log[i].key] \in q.ids => \E n \in DOMAIN Found(q, e) : Found(q, e)[n] = log[i]

LEMMA FoundIsExactly ==
  ASSUME TypeInv, NEW q, NEW e \in 0..Len(log)
  PROVE  FoundExactly(q, e)
BY FoundIsExact DEF FoundExactly

\* The rows of a finished read are records of the graph; no record the replicas
\* had under one of the asked numbers is missing, and no other key's is taken for
\* the one that was looked up.
LEMMA DoneCall ==
  ASSUME IInv, NEW f \in Fibers, call[f].state = "done"
  PROVE  /\ call[f].rows \in Seq(Record) /\ call[f].at \in Settled..Len(log)
         /\ \A n \in DOMAIN call[f].rows : \E i \in DOMAIN log : call[f].rows[n] = log[i]
         /\ \A i \in 1..call[f].at : IdOf[log[i].key] \in call[f].query.ids
              => \E n \in DOMAIN call[f].rows : call[f].rows[n] = log[i]
         /\ \A n \in DOMAIN call[f].rows : IdOf[call[f].rows[n].key] \in call[f].query.ids
         /\ call[f].query.key # "none"
              => \A n \in DOMAIN call[f].rows : call[f].rows[n].key = call[f].query.key
<1>1. TypeInv /\ call[f] \in CallRecord /\ CallOK(call[f], floor[f])
  BY DEF IInv, TypeInv, CallInv
<1> PICK c \in CallRecord : c = call[f]
  BY <1>1
<1>2. ReadsOneState(c) /\ c.rows = Found(c.query, c.at) /\ ~Misfiled(c.query, c.rows)
  BY <1>1 DEF CallOK
<1>3. c.at \in 0..Len(log) /\ c.at \in Settled..Len(log) /\ DOMAIN log = 1..Len(log) /\ Len(log) \in Nat
  BY <1>1, <1>2, LenProperties, ReadsAreBounded DEF ReadsOneState, CallRecord, TypeInv
<1> PICK e \in 0..Len(log) : e = c.at
  BY <1>3
<1> PICK q : q = c.query
  OBVIOUS
<1>4. FoundExactly(q, e)
  BY <1>1, FoundIsExactly
<1>5. c.rows = Found(q, e)
  BY <1>2
<1>6. \A i \in 1..e : i \in DOMAIN log
  BY <1>3
<1>7. q.key # "none" => \A n \in DOMAIN c.rows : c.rows[n].key = q.key
  BY <1>2 DEF Misfiled
<1> QED
  BY <1>3, <1>4, <1>5, <1>6, <1>7 DEF FoundExactly

\* A key whose records were read and found sound has only sound records: those
\* committed since were posted.
LEMMA CheckedIsSound ==
  ASSUME IInv, NEW f \in Fibers, call[f].state = "done",
         NEW n \in DOMAIN call[f].rows, \A m \in DOMAIN call[f].rows : call[f].rows[m].sound
  PROVE  SoundKey(call[f].rows[n].key) /\ call[f].rows[n].key \in Keys
<1> PICK rows : rows = call[f].rows
  OBVIOUS
<1> PICK ids : ids = call[f].query.ids
  OBVIOUS
<1> PICK e : e = call[f].at
  OBVIOUS
<1>1. /\ rows \in Seq(Record) /\ e \in Settled..Len(log)
      /\ \A i \in 1..e : IdOf[log[i].key] \in ids => \E m \in DOMAIN rows : rows[m] = log[i]
      /\ \A m \in DOMAIN rows : IdOf[rows[m].key] \in ids
  BY DoneCall
<1>2. TypeInv /\ LogInv /\ DOMAIN log = 1..Len(log) /\ Len(log) \in Nat /\ Settled \in Nat
  BY LenProperties, ReadsAreBounded DEF IInv, TypeInv
<1>3. rows[n] \in Record
  BY <1>1, ElementOfSeq
<1>4. ASSUME NEW i \in DOMAIN log, log[i].key = rows[n].key
      PROVE  log[i].sound
  <2>1. CASE i <= e
    <3>1. i \in 1..e
      BY <2>1, <1>1, <1>2
    <3>2. IdOf[log[i].key] \in ids
      BY <1>1, <1>4
    <3>3. PICK m \in DOMAIN rows : rows[m] = log[i]
      BY <3>1, <3>2, <1>1
    <3> QED
      BY <3>3
  <2>2. CASE ~(i <= e)
    <3>1. i > Settled
      BY <2>2, <1>1, <1>2
    <3> QED
      BY <3>1, <1>2 DEF LogInv
  <2> QED
    BY <2>1, <2>2
<1> QED
  BY <1>3, <1>4 DEF SoundKey, Record

\* So has every key that a request's checked reads bring.
LEMMA CheckedKeys ==
  ASSUME IInv, NEW c \in Callers, ~Unsound(c), NEW i \in {0, 1, 2}, State(c, i) = "done",
         NEW k \in KeysIn(c, i)
  PROVE  SoundKey(k) /\ k \in Keys
<1>1. <<c, i>> \in Fibers /\ call[<<c, i>>].state = "done"
  BY FibersOfCallers DEF State
<1>2. \A m \in DOMAIN call[<<c, i>>].rows : call[<<c, i>>].rows[m].sound
  BY <1>1 DEF Unsound, Asked, State, Rows, Sound
<1>3. PICK n \in DOMAIN call[<<c, i>>].rows : k = call[<<c, i>>].rows[n].key
  BY DEF KeysIn, Rows
<1> QED
  BY <1>1, <1>2, <1>3, CheckedIsSound

-----------------------------------------------------------------------------
(***************************************************************************)
(* Each handler keeps the invariant.                                       *)
(***************************************************************************)
LEMMA PostedKeys ==
  /\ Written[1] \in Keys /\ Written[2] \in Keys /\ Posted \in SUBSET Keys
  /\ \A i \in Children : Written[i] \in Keys
<1>1. \A i \in 1..Len(Written) : Written[i] \in Keys
  BY KeysOfGraph, ElementOfSeq
<1>2. 1 \in 1..Len(Written) /\ 2 \in 1..Len(Written) /\ DOMAIN Written = 1..Len(Written)
  BY KeysOfGraph, LenProperties
<1> QED
  BY <1>1, <1>2 DEF Posted, Children

LEMMA BeginKeeps ==
  ASSUME IInv, NEW c \in Callers, NEW key \in Keys, NEW next \in {"session", "user", "list"},
         BeginWith(c, key, next), Fits(next, kind[c]), kind[c] # "ask",
         next = "list" => kind[c] = "sessions",
         who' = who \/ who' = [who EXCEPT ![c] = key],
         next = "user" => who'[c] = key
  PROVE  IInv'
<1>1. TypeInv /\ SoundInv(c) /\ FloorInv(c) /\ at[c] = "start" /\ UNCHANGED <<given, reached, spans>>
  BY DEF IInv, ReqInv, BeginWith
<1> PICK qs : qs = Alone(LookUp(key))
  OBVIOUS
<1>2. DOMAIN qs = {0} /\ qs[0] = LookUp(key) /\ qs[0] \in Query
  BY LookUpIsAQuery DEF Alone
<1>3. Launch(c, qs, 0, next)
  BY DEF BeginWith
<1>4. 0 \in 0..Len(log) /\ next \in Places \ {"start", "done"}
  BY <1>1, LenProperties DEF TypeInv, Places
<1>5. given'[c] = 0
  BY <1>1 DEF FloorInv
<1>6. /\ who' \in [Callers -> Keys \cup {"none"}] /\ given' \in [Callers -> Nat]
      /\ reached' \in [Callers -> SUBSET Keys] /\ spans' \in [Callers -> SUBSET Keys]
      /\ \A d \in Callers \ {c} : who'[d] = who[d] /\ given'[d] = given[d]
                                    /\ reached'[d] = reached[d] /\ spans'[d] = spans[d]
  BY <1>1 DEF TypeInv
<1>7. /\ \A k \in reached'[c] : SoundKey(k)
      /\ \A k \in spans'[c] : SoundKey(k) /\ SoundKey(TurnOf[k])
  BY <1>1 DEF SoundInv
<1>8. next = "user" => who'[c] \in Keys /\ 0 \in DOMAIN qs /\ qs[0] = LookUp(who'[c])
  BY <1>2
<1>9. /\ at[c] \notin {"write", "done"} /\ DOMAIN qs \subseteq {0, 1, 2}
      /\ \A i \in DOMAIN qs : qs[i] \in Query
      /\ next = "write" => DOMAIN qs = {}
      /\ kind[c] # "ask" => given'[c] = 0
      /\ given'[c] <= 0
      /\ kind[c] \in {"stats", "warm"} /\ next \in {"list", "vertices", "hops"} => Known(who'[c])
  BY <1>1, <1>2, <1>5
<1> QED
  BY <1>3, <1>4, <1>6, <1>7, <1>8, <1>9, LaunchKeeps

LEMMA BeginsKeep ==
  ASSUME IInv, NEW c \in Callers, Post(c) \/ requireUser(c) \/ Sessions(c)
  PROVE  IInv'
<1>1. CASE Post(c)
  BY <1>1, BeginKeeps, PostedKeys DEF Post, Fits
<1>2. CASE requireUser(c)
  <2> PICK u \in Users : BeginWith(c, u, "user") /\ who' = [who EXCEPT ![c] = u]
    BY <1>2 DEF requireUser
  <2>1. u \in Keys /\ who'[c] = u /\ kind[c] \in {"stats", "slot", "warm"}
    BY <1>2, KeysOfGraph DEF requireUser, IInv, TypeInv
  <2> QED
    BY <2>1, BeginKeeps DEF Fits
<1>3. CASE Sessions(c)
  BY <1>3, BeginKeeps, PostedKeys DEF Sessions, Fits
<1> QED
  BY <1>1, <1>2, <1>3

LEMMA BeginAskKeeps ==
  ASSUME IInv, NEW c \in Callers, BeginAsk(c)
  PROVE  IInv'
<1>1. TypeInv /\ SoundInv(c) /\ at[c] = "start" /\ kind[c] = "ask" /\ UNCHANGED <<who, reached, spans>>
  BY DEF IInv, ReqInv, BeginAsk
<1>2. 0 \in 0..Len(log) /\ \A d \in Callers : reply[d].bookmark \in 0..Len(log)
  BY <1>1, LenProperties DEF TypeInv
<1>3. PICK own \in 0..Len(log) :
        Launch(c, [i \in {1} |-> LookUp(Root)], own, "root") /\ given' = [given EXCEPT ![c] = own]
  BY <1>2 DEF BeginAsk
<1>4. own \in Nat /\ given'[c] = own /\ given' \in [Callers -> Nat]
  BY <1>1, <1>2, <1>3, LenProperties DEF TypeInv
<1> PICK qs : qs = [i \in {1} |-> LookUp(Root)]
  OBVIOUS
<1>5. DOMAIN qs = {1} /\ \A i \in DOMAIN qs : qs[i] \in Query
  BY KeysOfGraph, LookUpIsAQuery
<1>6. Launch(c, qs, own, "root")
  BY <1>3
<1>7. /\ who' \in [Callers -> Keys \cup {"none"}]
      /\ reached' \in [Callers -> SUBSET Keys] /\ spans' \in [Callers -> SUBSET Keys]
      /\ \A d \in Callers \ {c} : who'[d] = who[d] /\ given'[d] = given[d]
                                    /\ reached'[d] = reached[d] /\ spans'[d] = spans[d]
  BY <1>1, <1>3 DEF TypeInv
<1>8. /\ \A k \in reached'[c] : SoundKey(k)
      /\ \A k \in spans'[c] : SoundKey(k) /\ SoundKey(TurnOf[k])
  BY <1>1 DEF SoundInv
<1> PICK next \in Places \ {"start", "done"} : next = "root"
  BY DEF Places
<1>9. /\ at[c] \notin {"write", "done"} /\ DOMAIN qs \subseteq {0, 1, 2} /\ Fits(next, kind[c])
      /\ next \notin {"write", "user", "list", "vertices", "hops"}
      /\ kind[c] # "ask" => given'[c] = 0
      /\ given'[c] <= own
  BY <1>1, <1>4, <1>5 DEF Fits
<1> QED
  BY <1>4, <1>5, <1>6, <1>7, <1>8, <1>9, LaunchKeeps

\* Answers that need no read.
LEMMA RefusalsKeep ==
  ASSUME IInv, NEW c \in Callers,
         BadRequest(c) \/ Unbound(c) \/ IndexSession(c) \/ LoseWrite(c) \/ ReadFails(c)
  PROVE  IInv'
<1>1. CASE BadRequest(c)
  BY <1>1, SayKeeps DEF BadRequest
<1>2. CASE Unbound(c)
  BY <1>2, SayKeeps DEF Unbound
<1>3. CASE IndexSession(c)
  BY <1>3, SayKeeps DEF IndexSession
<1>4. CASE LoseWrite(c) \/ ReadFails(c)
  BY <1>4, SayKeeps DEF LoseWrite, ReadFails, FailureStatus
<1> QED
  BY <1>1, <1>2, <1>3, <1>4

LEMMA SessionKeeps ==
  ASSUME IInv, NEW c \in Callers, Session(c)
  PROVE  IInv'
<1>1. TypeInv /\ SoundInv(c) /\ WriteInv(c) /\ at[c] = "session" /\ kind[c] = "ingest"
  BY DEF IInv, ReqInv, PlaceInv, Session
<1>2. CASE Answer(c, 200, floor[Own(c)]) /\ UNCHANGED <<reached, spans>>
  <2>1. floor[Own(c)] \in 0..Len(log)
    BY <1>1, FibersOfCallers DEF TypeInv, Own
  <2> PICK bookmark \in 0..Len(log) : bookmark = floor[Own(c)]
    BY <2>1
  <2>2. \A i \in DOMAIN log : log[i].by # c
    BY <1>1 DEF WriteInv
  <2>3. Answer(c, 200, bookmark) /\ reached' = reached /\ spans' = spans
    BY <1>2
  <2>4. kind[c] \notin {"stats", "warm"} /\ 200 \in Nat
    BY <1>1
  <2>5. /\ reached' \in [Callers -> SUBSET Keys] /\ spans' \in [Callers -> SUBSET Keys]
        /\ \A d \in Callers \ {c} : reached'[d] = reached[d] /\ spans'[d] = spans[d]
    BY <1>1, <2>3 DEF TypeInv
  <2>6. /\ \A k \in reached'[c] : SoundKey(k)
        /\ \A k \in spans'[c] : SoundKey(k) /\ SoundKey(TurnOf[k])
    BY <1>1, <2>3 DEF SoundInv
  <2> QED
    BY <2>2, <2>3, <2>4, <2>5, <2>6, AnswerKeeps
<1>3. CASE Then(c, <<>>, "write")
  <2> PICK qs : qs = <<>> /\ DOMAIN qs = {}
    OBVIOUS
  <2> PICK next \in Places \ {"start", "done", "user"} : next = "write"
    BY DEF Places
  <2>1. Then(c, qs, next) /\ Fits(next, kind[c]) /\ next \notin {"list", "vertices", "hops"}
    BY <1>1, <1>3 DEF Fits
  <2> QED
    BY <1>1, <2>1, ThenKeeps
<1> QED
  BY <1>2, <1>3 DEF Session

LEMMA WriteMovesOn ==
  ASSUME IInv, NEW c \in Callers, Write(c)
  PROVE  IInv'
<1>1. TypeInv /\ SoundInv(c) /\ PlaceInv(c) /\ WriteInv(c) /\ at[c] = "write"
  BY DEF IInv, ReqInv, Write
<1>2. CASE /\ WrittenBy(c) < Len(Written)
           /\ log' = Append(log, [key |-> Written[WrittenBy(c) + 1], by |-> c, sound |-> TRUE])
           /\ floor' = [floor EXCEPT ![Own(c)] = Len(log')]
           /\ UNCHANGED <<call, kind, who, at, given, reached, spans, reply>>
  <2>1. WrittenBy(c) \in Nat
    <3>1. DOMAIN log = 1..Len(log) /\ Len(log) \in Nat
      BY <1>1, LenProperties DEF TypeInv
    <3>2. IsFiniteSet(1..Len(log))
      BY <3>1, FS_Interval, 1 \in Int, Len(log) \in Int
    <3> QED
      BY <3>1, <3>2, FS_Subset, FS_CardinalityType DEF WrittenBy
  <2>2. WrittenBy(c) + 1 \in 1..Len(Written)
    BY <1>2, <2>1, KeysOfGraph, LenProperties
  <2>3. Written[WrittenBy(c) + 1] \in Keys
    BY <2>2, KeysOfGraph, ElementOfSeq
  <2> PICK r : r = [key |-> Written[WrittenBy(c) + 1], by |-> c, sound |-> TRUE]
    OBVIOUS
  <2>4. r \in Record /\ r.by = c /\ r.sound
    BY <2>3 DEF Record
  <2>5. log' = Append(log, r)
    BY <1>2
  <2> QED
    BY <1>1, <1>2, <2>4, <2>5, WriteKeeps
<1>3. CASE Answer(c, 200, lastBookmark(c)) /\ UNCHANGED <<reached, spans>>
  <2>1. floor[Own(c)] \in 0..Len(log)
    BY <1>1, FibersOfCallers DEF TypeInv, Own
  <2> PICK bookmark \in 0..Len(log) : bookmark = floor[Own(c)]
    BY <2>1
  <2>2. \A i \in DOMAIN log : log[i].by = c => i <= bookmark
    BY <1>1 DEF WriteInv
  <2>3. Answer(c, 200, bookmark) /\ reached' = reached /\ spans' = spans
    BY <1>3 DEF lastBookmark
  <2>4. kind[c] \notin {"stats", "warm"} /\ 200 \in Nat \ {0}
    BY <1>1 DEF PlaceInv
  <2>5. /\ reached' \in [Callers -> SUBSET Keys] /\ spans' \in [Callers -> SUBSET Keys]
        /\ \A d \in Callers \ {c} : reached'[d] = reached[d] /\ spans'[d] = spans[d]
    BY <1>1, <2>3 DEF TypeInv
  <2>6. /\ \A k \in reached'[c] : SoundKey(k)
        /\ \A k \in spans'[c] : SoundKey(k) /\ SoundKey(TurnOf[k])
    BY <1>1, <2>3 DEF SoundInv
  <2> QED
    BY <2>2, <2>3, <2>4, <2>5, <2>6, AnswerKeeps
<1> QED
  BY <1>2, <1>3 DEF Write

\* The look-up of the user asked about tells whether its counts are stored.
LEMMA UserIsTold ==
  ASSUME IInv, NEW c \in Callers, at[c] = "user", AllDone(c)
  PROVE  /\ Rows(c, 0) = <<>> => \A i \in 1..Settled : log[i].key # who[c]
         /\ Rows(c, 0) # <<>> => Known(who[c])
<1>1. TypeInv /\ UserInv(c) /\ Own(c) \in Fibers
  BY FibersOfCallers DEF IInv, ReqInv, Own
<1>2. call[Own(c)].state # "idle" /\ who[c] \in Keys
  BY <1>1 DEF UserInv
<1>3. call[Own(c)].state = "done"
  BY <1>2 DEF AllDone, Asked, State, Own
<1>4. call[Own(c)].query = LookUp(who[c])
  BY <1>1, <1>3 DEF UserInv, Running
<1> PICK f \in Fibers : f = Own(c)
  BY <1>1
<1> PICK u \in Keys : u = who[c]
  BY <1>2
<1> PICK rows, e : rows = call[f].rows /\ e = call[f].at
  OBVIOUS
<1>5. call[f].state = "done" /\ call[f].query = LookUp(u)
  BY <1>3, <1>4
<1>6. LookUp(u).key = u /\ u # "none" /\ LookUp(u).ids = {IdOf[u]}
  BY LookUpIsAQuery
<1>7. /\ rows \in Seq(Record) /\ e \in Settled..Len(log)
      /\ \A n \in DOMAIN rows : \E i \in DOMAIN log : rows[n] = log[i]
      /\ \A i \in 1..e : IdOf[log[i].key] \in {IdOf[u]} => \E n \in DOMAIN rows : rows[n] = log[i]
      /\ \A n \in DOMAIN rows : rows[n].key = u
  <2>1. /\ rows \in Seq(Record) /\ e \in Settled..Len(log)
        /\ \A n \in DOMAIN rows : \E i \in DOMAIN log : rows[n] = log[i]
        /\ \A i \in 1..e : IdOf[log[i].key] \in LookUp(u).ids => \E n \in DOMAIN rows : rows[n] = log[i]
        /\ LookUp(u).key # "none" => \A n \in DOMAIN rows : rows[n].key = LookUp(u).key
    BY <1>5, DoneCall
  <2> QED
    BY <2>1, <1>6
<1>8. Rows(c, 0) = rows
  BY DEF Rows, Own
<1>9. ASSUME rows = <<>>, NEW i \in 1..Settled, log[i].key = u
      PROVE  FALSE
  <2>1. i \in 1..e
    BY <1>1, <1>7, ReadsAreBounded, LenProperties DEF TypeInv
  <2>2. PICK n \in DOMAIN rows : rows[n] = log[i]
    BY <1>7, <1>9, <2>1
  <2> QED
    BY <1>9, <2>2
<1>10. ASSUME rows # <<>>
       PROVE  \E i \in DOMAIN log : log[i].key = u
  <2>1. 1 \in DOMAIN rows
    BY <1>7, <1>10, EmptySeq, LenProperties
  <2> QED
    BY <1>7, <2>1
<1> QED
  BY <1>8, <1>9, <1>10 DEF Known

LEMMA UserKeeps ==
  ASSUME IInv, NEW c \in Callers, User(c)
  PROVE  IInv'
<1>1. TypeInv /\ PlaceInv(c) /\ at[c] = "user" /\ AllDone(c)
  BY DEF IInv, ReqInv, User
<1>2. kind[c] \in {"stats", "slot", "warm"}
  BY <1>1 DEF PlaceInv
<1>3. CASE Rows(c, 0) = <<>>
  <2>1. Say(c, 404) /\ \A i \in 1..Settled : log[i].key # who[c]
    BY <1>1, <1>3, UserIsTold DEF User
  <2> QED
    BY <2>1, SayKeeps
<1>4. CASE Rows(c, 0) # <<>>
  <2>1. Known(who[c])
    BY <1>1, <1>4, UserIsTold
  <2>2. CASE kind[c] = "stats"
    <3> PICK qs : qs = Alone(Walk(Posted))
      OBVIOUS
    <3>1. DOMAIN qs = {0} /\ \A i \in DOMAIN qs : qs[i] \in Query
      BY PostedKeys, WalkIsAQuery DEF Alone
    <3> PICK next \in Places \ {"start", "done", "user"} : next = "list"
      BY DEF Places
    <3>2. Then(c, qs, next) /\ Fits(next, kind[c])
      BY <1>4, <2>2 DEF User, Fits
    <3> QED
      BY <1>1, <2>1, <3>1, <3>2, ThenKeeps
  <2>3. CASE kind[c] = "slot"
    <3> PICK qs : qs = Alone(Walk({Written[2]}))
      OBVIOUS
    <3>1. DOMAIN qs = {0} /\ \A i \in DOMAIN qs : qs[i] \in Query
      BY PostedKeys, WalkIsAQuery DEF Alone
    <3> PICK next \in Places \ {"start", "done", "user"} : next = "chain"
      BY DEF Places
    <3>2. Then(c, qs, next) /\ Fits(next, kind[c])
      BY <1>4, <2>3 DEF User, Fits
    <3> QED
      BY <1>1, <2>1, <3>1, <3>2, ThenKeeps
  <2>4. CASE kind[c] = "warm"
    <3> PICK qs : qs = [i \in Children |-> Walk({Written[i]})]
      OBVIOUS
    <3>1. DOMAIN qs = {1, 2} /\ \A i \in DOMAIN qs : qs[i] \in Query
      BY PostedKeys, WalkIsAQuery DEF Children
    <3> PICK next \in Places \ {"start", "done", "user"} : next = "vertices"
      BY DEF Places
    <3>2. Then(c, qs, next) /\ Fits(next, kind[c])
      BY <1>4, <2>4 DEF User, Fits
    <3> QED
      BY <1>1, <2>1, <3>1, <3>2, ThenKeeps
  <2> QED
    BY <1>2, <2>2, <2>3, <2>4
<1> QED
  BY <1>3, <1>4

LEMMA ReportsKeep ==
  ASSUME IInv, NEW c \in Callers, List(c) \/ Chain(c) \/ Quoted(c) \/ Vertices(c) \/ Hops(c)
  PROVE  IInv'
<1>1. PlaceInv(c) /\ UserInv(c)
  BY DEF IInv, ReqInv
<1>2. CASE List(c)
  <2>1. Say(c, 200) /\ (kind[c] \in {"stats", "warm"} => Known(who[c]))
    BY <1>1, <1>2 DEF List, UserInv
  <2> QED
    BY <2>1, SayKeeps
<1>3. CASE Chain(c)
  <2>1. kind[c] = "slot" /\ at[c] = "chain"
    BY <1>1, <1>3 DEF Chain, PlaceInv
  <2>2. CASE Say(c, 404)
    BY <2>1, <2>2, SayKeeps
  <2>3. CASE Then(c, Quotes, "quoted")
    <3> PICK qs : qs = Quotes
      OBVIOUS
    <3>1. DOMAIN qs = {0} /\ \A i \in DOMAIN qs : qs[i] \in Query
      BY PostedKeys, WalkIsAQuery DEF Quotes, Alone
    <3> PICK next \in Places \ {"start", "done", "user"} : next = "quoted"
      BY DEF Places
    <3>2. Then(c, qs, next) /\ Fits(next, kind[c])
      BY <2>1, <2>3 DEF Fits
    <3> QED
      BY <2>1, <3>1, <3>2, ThenKeeps
  <2> QED
    BY <1>3, <2>2, <2>3 DEF Chain
<1>4. CASE Quoted(c)
  <2>1. kind[c] = "slot" /\ (Say(c, 503) \/ Say(c, 200))
    BY <1>1, <1>4 DEF Quoted, PlaceInv
  <2> QED
    BY <2>1, SayKeeps
<1>5. CASE Vertices(c)
  <2>1. at[c] = "vertices" /\ kind[c] \in {"stats", "slot", "warm"}
        /\ (kind[c] \in {"stats", "warm"} => Known(who[c]))
    BY <1>1, <1>5 DEF Vertices, PlaceInv, UserInv
  <2> PICK qs : qs = [i \in Children |-> Walk({Written[i]})]
    OBVIOUS
  <2>2. DOMAIN qs = {1, 2} /\ \A i \in DOMAIN qs : qs[i] \in Query
    BY PostedKeys, WalkIsAQuery DEF Children
  <2> PICK next \in Places \ {"start", "done", "user"} : next = "hops"
    BY DEF Places
  <2>3. Then(c, qs, next) /\ Fits(next, kind[c])
    BY <1>5, <2>1 DEF Vertices, Fits
  <2> QED
    BY <2>1, <2>2, <2>3, ThenKeeps
<1>6. CASE Hops(c)
  <2>1. Say(c, 200) /\ (kind[c] \in {"stats", "warm"} => Known(who[c]))
    BY <1>1, <1>6 DEF Hops, UserInv
  <2> QED
    BY <2>1, SayKeeps
<1> QED
  BY <1>2, <1>3, <1>4, <1>5, <1>6

\* The keys of a read can be listed: they are finitely many.
LEMMA KeysAreListed ==
  ASSUME NEW rows \in Seq(Record), NEW S, S = {rows[n].key : n \in DOMAIN rows}
  PROVE  \A i \in DOMAIN SetToSeq(S) : SetToSeq(S)[i] \in S
<1>1. DOMAIN rows = 1..Len(rows) /\ Len(rows) \in Nat
  BY LenProperties
<1>2. IsFiniteSet(DOMAIN rows)
  BY <1>1, FS_Interval, 1 \in Int, Len(rows) \in Int
<1> DEFINE key == [n \in DOMAIN rows |-> rows[n].key]
<1>3. key \in Surjection(DOMAIN rows, S)
  <2>1. key \in [DOMAIN rows -> S]
    OBVIOUS
  <2>2. \A k \in S : \E n \in DOMAIN rows : key[n] = k
    OBVIOUS
  <2> QED
    BY <2>1, <2>2 DEF Surjection
<1>4. IsFiniteSet(S)
  BY <1>2, <1>3, FS_Surjection
<1>5. Cardinality(S) \in Nat /\ \E f \in [1..Cardinality(S) -> S] : IsInjective(f)
  <2>1. PICK f : f \in Bijection(1..Cardinality(S), S)
    BY <1>4, FS_CardinalityType DEF ExistsBijection
  <2> QED
    BY <1>4, <2>1, FS_CardinalityType DEF Bijection, Injection
<1> PICK list : list = SetToSeq(S)
  OBVIOUS
<1>6. list \in [1..Cardinality(S) -> S]
  BY <1>5 DEF SetToSeq
<1>7. \A i \in DOMAIN list : list[i] \in S
  BY <1>6
<1> QED
  BY <1>7

LEMMA CheckRootKeeps ==
  ASSUME IInv, NEW c \in Callers, CheckRoot(c)
  PROVE  IInv'
<1>1. at[c] = "root" /\ kind[c] = "ask"
  BY DEF IInv, ReqInv, PlaceInv, CheckRoot
<1>2. CASE Say(c, 503)
  BY <1>1, <1>2, SayKeeps
<1>3. CASE Then(c, [i \in Children |-> Walk(ArmOf[i])], "arms")
  <2> PICK qs : qs = [i \in Children |-> Walk(ArmOf[i])]
    OBVIOUS
  <2>1. DOMAIN qs = {1, 2} /\ \A i \in DOMAIN qs : qs[i] \in Query
    <3>1. \A i \in Children : ArmOf[i] \in SUBSET Keys
      BY KeysOfGraph
    <3> QED
      BY <3>1, WalkIsAQuery DEF Children
  <2> PICK next \in Places \ {"start", "done", "user"} : next = "arms"
    BY DEF Places
  <2>2. Then(c, qs, next) /\ Fits(next, kind[c])
    BY <1>1, <1>3 DEF Fits
  <2> QED
    BY <1>1, <2>1, <2>2, ThenKeeps
<1> QED
  BY <1>2, <1>3 DEF CheckRoot

LEMMA ArmsKeep ==
  ASSUME IInv, NEW c \in Callers, Arms(c)
  PROVE  IInv'
<1> DEFINE found == UNION {KeysIn(c, i) : i \in {i \in Children : State(c, i) = "done"}}
<1>1. TypeInv /\ FloorInv(c) /\ SoundInv(c) /\ at[c] = "arms" /\ kind[c] = "ask"
  BY DEF IInv, ReqInv, PlaceInv, Arms
<1>2. CASE Say(c, 503) \/ Say(c, 200)
  BY <1>1, <1>2, SayKeeps
<1>3. CASE /\ ~Unsound(c)
           /\ Launch(c, Alone(Walk(found)), floor[Own(c)], "locators")
           /\ reached' = [reached EXCEPT ![c] = found]
           /\ UNCHANGED <<who, given, spans>>
  <2>1. \A k \in found : SoundKey(k) /\ k \in Keys
    BY <1>3, CheckedKeys DEF Children
  <2>2. floor[Own(c)] \in 0..Len(log)
    BY <1>1, FibersOfCallers DEF TypeInv, Own
  <2> PICK ks \in SUBSET Keys : ks = found
    BY <2>1
  <2> HIDE DEF found
  <2> PICK own \in 0..Len(log) : own = floor[Own(c)]
    BY <2>2
  <2> PICK qs : qs = Alone(Walk(ks))
    OBVIOUS
  <2> PICK next \in Places \ {"start", "done"} : next = "locators"
    BY DEF Places
  <2>3. DOMAIN qs = {0} /\ \A i \in DOMAIN qs : qs[i] \in Query
    BY WalkIsAQuery DEF Alone
  <2>4. Launch(c, qs, own, next)
    BY <1>3
  <2>5. reached'[c] = ks /\ reached' \in [Callers -> SUBSET Keys]
    BY <1>1, <1>3 DEF TypeInv
  <2>6. /\ who' \in [Callers -> Keys \cup {"none"}] /\ given' \in [Callers -> Nat]
        /\ spans' \in [Callers -> SUBSET Keys]
        /\ \A d \in Callers \ {c} : who'[d] = who[d] /\ given'[d] = given[d]
                                      /\ reached'[d] = reached[d] /\ spans'[d] = spans[d]
    BY <1>1, <1>3 DEF TypeInv
  <2>7. /\ \A k \in reached'[c] : SoundKey(k)
        /\ \A k \in spans'[c] : SoundKey(k) /\ SoundKey(TurnOf[k])
    BY <1>1, <1>3, <2>1, <2>5 DEF SoundInv
  <2>8. given'[c] <= own
    BY <1>1, <1>3 DEF FloorInv
  <2>9. /\ at[c] \notin {"write", "done"} /\ DOMAIN qs \subseteq {0, 1, 2} /\ Fits(next, kind[c])
        /\ next \notin {"write", "user", "list", "vertices", "hops"}
        /\ kind[c] = "ask"
    BY <1>1, <2>3 DEF Fits
  <2> QED
    BY <2>3, <2>4, <2>5, <2>6, <2>7, <2>8, <2>9, LaunchKeeps
<1> QED
  BY <1>2, <1>3 DEF Arms

LEMMA LocatorsKeep ==
  ASSUME IInv, NEW c \in Callers, Locators(c)
  PROVE  IInv'
<1>1. at[c] = "locators" /\ kind[c] = "ask"
  BY DEF IInv, ReqInv, PlaceInv, Locators
<1>2. CASE Say(c, 503)
  BY <1>1, <1>2, SayKeeps
<1>3. CASE Then(c, [i \in DOMAIN SetToSeq(KeysIn(c, 0)) \cap Children |-> LookUp(TurnOf[SetToSeq(KeysIn(c, 0))[i]])],
                "turns")
  <2> PICK list : list = SetToSeq(KeysIn(c, 0))
    OBVIOUS
  <2> PICK qs : qs = [i \in DOMAIN list \cap Children |-> LookUp(TurnOf[list[i]])]
    OBVIOUS
  <2>1. \A i \in DOMAIN list : list[i] \in Keys
    <3>1. call[<<c, 0>>].rows \in Seq(Record)
      BY FibersOfCallers DEF IInv, TypeInv, CallRecord
    <3> PICK rows \in Seq(Record) : rows = call[<<c, 0>>].rows
      BY <3>1
    <3> PICK S : S = {rows[n].key : n \in DOMAIN rows}
      OBVIOUS
    <3>2. KeysIn(c, 0) = S
      BY DEF KeysIn, Rows
    <3>3. \A i \in DOMAIN list : list[i] \in S
      BY <3>2, KeysAreListed
    <3>4. \A n \in DOMAIN rows : rows[n] \in Record
      BY ElementOfSeq, LenProperties
    <3> QED
      BY <3>3, <3>4 DEF Record
  <2>2. \A i \in DOMAIN list : TurnOf[list[i]] \in Keys
    BY <2>1, KeysOfGraph
  <2>3. DOMAIN qs \subseteq {0, 1, 2} /\ \A i \in DOMAIN qs : qs[i] \in Query
    BY <2>2, LookUpIsAQuery DEF Children
  <2> PICK next \in Places \ {"start", "done", "user"} : next = "turns"
    BY DEF Places
  <2>4. Then(c, qs, next) /\ Fits(next, kind[c])
    BY <1>1, <1>3 DEF Fits
  <2> QED
    BY <1>1, <2>3, <2>4, ThenKeeps
<1> QED
  BY <1>2, <1>3 DEF Locators

LEMMA TurnsKeep ==
  ASSUME IInv, NEW c \in Callers, Turns(c)
  PROVE  IInv'
<1>1. TypeInv /\ SoundInv(c) /\ PlaceInv(c) /\ WriteInv(c) /\ at[c] = "turns" /\ kind[c] = "ask"
  BY DEF IInv, ReqInv, PlaceInv, Turns
<1>2. CASE Say(c, 503)
  BY <1>1, <1>2, SayKeeps
<1>3. CASE /\ ~Unsound(c) /\ AllDone(c) /\ Answer(c, 200, 0) /\ UNCHANGED reached
           /\ spans' = [spans EXCEPT ![c] = {k \in reached[c] : \E i \in Asked(c) : TurnOf[k] \in KeysIn(c, i)}]
  <2> DEFINE served == {k \in reached[c] : \E i \in Asked(c) : TurnOf[k] \in KeysIn(c, i)}
  <2>1. \A k \in served : SoundKey(k) /\ k \in Keys /\ SoundKey(TurnOf[k])
    <3> SUFFICES ASSUME NEW k \in reached[c], NEW i \in Asked(c), TurnOf[k] \in KeysIn(c, i)
                 PROVE  SoundKey(k) /\ k \in Keys /\ SoundKey(TurnOf[k])
      OBVIOUS
    <3>1. SoundKey(k) /\ k \in Keys
      BY <1>1 DEF SoundInv, TypeInv
    <3>2. i \in {0, 1, 2} /\ State(c, i) = "done"
      BY <1>3 DEF AllDone, Asked
    <3> QED
      BY <1>3, <3>1, <3>2, CheckedKeys
  <2>2. spans'[c] = served /\ spans' \in [Callers -> SUBSET Keys]
    BY <1>1, <1>3, <2>1 DEF TypeInv
  <2>3. /\ \A k \in reached'[c] : SoundKey(k)
        /\ \A k \in spans'[c] : SoundKey(k) /\ SoundKey(TurnOf[k])
    BY <1>1, <1>3, <2>1, <2>2 DEF SoundInv
  <2>4. /\ reached' \in [Callers -> SUBSET Keys]
        /\ \A d \in Callers \ {c} : reached'[d] = reached[d] /\ spans'[d] = spans[d]
    BY <1>1, <1>3 DEF TypeInv
  <2> HIDE DEF served
  <2> PICK bookmark \in 0..Len(log) : bookmark = 0
    BY <1>1, LenProperties DEF TypeInv
  <2>5. Answer(c, 200, bookmark) /\ kind[c] \notin {"stats", "warm"} /\ 200 \in Nat
    BY <1>1, <1>3
  <2> QED
    BY <2>2, <2>3, <2>4, <2>5, AnswerKeeps
<1> QED
  BY <1>2, <1>3 DEF Turns

LEMMA HandleKeeps ==
  ASSUME IInv, NEW c \in Callers, Handle(c)
  PROVE  IInv'
BY BeginsKeep, BeginAskKeeps, RefusalsKeep, SessionKeeps, WriteMovesOn, UserKeeps, ReportsKeep,
   CheckRootKeeps, ArmsKeep, LocatorsKeep, TurnsKeep DEF Handle

LEMMA StutterKeeps ==
  ASSUME IInv, UNCHANGED requestVars
  PROVE  IInv'
<1>1. UNCHANGED <<log, floor, call, kind, who, at, given, reached, spans, reply>>
  BY DEF requestVars, readVars
<1>2. TypeInv' /\ LogInv'
  BY <1>1 DEF IInv, TypeInv, LogInv
<1>3. ASSUME NEW f \in Fibers
      PROVE  CallInv(f)'
  <2>1. call[f] \in CallRecord /\ CallOK(call[f], floor[f]) /\ TypeInv
    BY DEF IInv, TypeInv, CallInv
  <2> PICK d \in CallRecord, known \in {floor[f]} : d = call[f] /\ known = floor[f]
    BY <2>1
  <2>2. CallOK(d, known)'
    BY <1>1, <2>1, SameLog
  <2> QED
    BY <1>1, <2>2 DEF CallInv
<1>4. ASSUME NEW c \in Callers
      PROVE  ReqInv(c)'
  <2>1. PlaceInv(c)' /\ FloorInv(c)' /\ WriteInv(c)'
    BY <1>1 DEF IInv, ReqInv, PlaceInv, FloorInv, WriteInv, Running, Own
  <2>2. UserInv(c)'
    BY <1>1, UserIsKept DEF IInv, ReqInv
  <2>3. SoundInv(c)'
    BY <1>1 DEF IInv, ReqInv, SoundInv, SoundKey
  <2> QED
    BY <2>1, <2>2, <2>3 DEF ReqInv
<1> QED
  BY <1>2, <1>3, <1>4 DEF IInv

LEMMA NextKeeps == IInv /\ [RequestsNext]_requestVars => IInv'
BY HandleKeeps, ServeKeeps, StutterKeeps DEF RequestsNext

-----------------------------------------------------------------------------
(***************************************************************************)
(* Theorems.                                                               *)
(***************************************************************************)

\* The invariant of the server's reads and replies holds in every state, whatever
\* the engine stored first, however the requests and their pages interleave and
\* whichever reads fail (Handlers.ts, Transport.ts, Paging.ts).
THEOREM RequestsInvariant == RequestsSpec => []IInv
<1>1. RequestsInit => IInv
  BY InitHolds
<1>2. IInv /\ [RequestsNext]_requestVars => IInv'
  BY NextKeeps
<1> QED
  BY <1>1, <1>2, PTL DEF RequestsSpec

\* A read that succeeds returns exactly what one committed state held for it, and
\* that state is no older than the floor of its fiber (Transport.ts, Paging.ts).
THEOREM ReadsAreWhole == RequestsSpec => []WholeResult
<1>1. IInv => WholeResult
  BY DEF IInv, CallInv, CallOK, ReadsOneState, WholeResult
<1> QED
  BY <1>1, RequestsInvariant, PTL

\* An ask that passes the bookmark of an acknowledged post reads only states that
\* hold all the post wrote (Handlers.ts isolateRequest, Transport.ts sendOnce).
THEOREM AsksReadTheirWrites == RequestsSpec => []ReadYourWrites
<1>1. ASSUME IInv
      PROVE  ReadYourWrites
  <2> SUFFICES ASSUME NEW c \in Callers, NEW d \in Callers, NEW f \in Fibers,
                      reply[d].bookmark # 0, given[c] = reply[d].bookmark,
                      f[1] = c, call[f].state = "done",
                      NEW i \in DOMAIN log, log[i].by = d
               PROVE  i <= call[f].at
    BY DEF ReadYourWrites
  <2>1. TypeInv /\ PlaceInv(d) /\ WriteInv(d) /\ FloorInv(c) /\ CallInv(f)
    BY <1>1 DEF IInv, ReqInv
  <2>2. at[d] = "done" /\ i <= reply[d].bookmark
    BY <2>1 DEF PlaceInv, WriteInv
  <2>3. f = <<c, f[2]>> /\ f[2] \in {0, 1, 2}
    BY FibersOfCallers
  <2>4. given[c] <= call[f].since
    BY <2>1, <2>3 DEF FloorInv, Running
  <2>5. call[f].at \in call[f].since..Len(log)
    BY <2>1 DEF CallInv, CallOK, ReadsOneState
  <2>6. /\ given[c] \in Nat /\ call[f].since \in Nat /\ call[f].at \in Nat
        /\ i \in Nat /\ reply[d].bookmark \in Nat
    BY <2>1, LenProperties DEF TypeInv, CallRecord
  <2> QED
    BY <2>2, <2>4, <2>5, <2>6
<1>2. IInv => ReadYourWrites
  BY <1>1
<1> QED
  BY <1>2, RequestsInvariant, PTL

\* A report about a user is about that user, whichever keys share its number and
\* whatever fails (Handlers.ts requireUser, snapshotFailure; Client.ts getById).
THEOREM ReportsAreAboutTheUser == RequestsSpec => []NotFoundMeansNone
<1>1. IInv => NotFoundMeansNone
  BY DEF IInv, ReqInv, UserInv, Known, NotFoundMeansNone
<1> QED
  BY <1>1, RequestsInvariant, PTL

\* Every call stops trying at its bound and reading at its cap, and a request is
\* answered exactly once it is done (Transport.ts RETRYABLE_SCHEDULE, Paging.ts).
THEOREM RequestsAreTyped == RequestsSpec => []RequestsTypeOK
<1>1. ASSUME IInv
      PROVE  RequestsTypeOK
  <2>1. TypeInv /\ \A c \in Callers : PlaceInv(c)
    BY <1>1 DEF IInv, ReqInv
  <2>2. \A f \in Fibers : call[f].tries \in 0..MaxTries - 1 /\ call[f].page \in 0..MaxPages + 1
    BY <2>1 DEF TypeInv, CallRecord
  <2>3. ASSUME NEW c \in Callers
        PROVE  reply[c].status = 0 <=> at[c] # "done"
    <3>1. CASE at[c] = "done"
      BY <2>1, <3>1 DEF PlaceInv
    <3>2. CASE at[c] # "done"
      <4>1. reply[c] = [status |-> 0, bookmark |-> 0]
        BY <2>1, <3>2 DEF PlaceInv
      <4> QED
        BY <3>2, <4>1
    <3> QED
      BY <3>1, <3>2
  <2> QED
    BY <2>1, <2>2, <2>3, ReadsAreBounded DEF RequestsTypeOK, TypeInv
<1>2. IInv => RequestsTypeOK
  BY <1>1
<1> QED
  BY <1>2, RequestsInvariant, PTL

\* No span comes from a record outside the bound snapshot, whatever the graph
\* holds under the keys an ask reads (SnapshotRows.ts, Reader.ts).
THEOREM ServedSpansAreSound == RequestsSpec => []SpansAreSound
<1>1. IInv => SpansAreSound
  BY DEF IInv, ReqInv, SoundInv, SoundKey, SpansAreSound
<1> QED
  BY <1>1, RequestsInvariant, PTL

=============================================================================
