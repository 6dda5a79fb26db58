------------------------------ MODULE Requests ------------------------------
(***************************************************************************)
(* The handlers of the HTTP server (server/src/Handlers.ts) over the reading *)
(* client.  Each request runs on a fiber of its own, isolated from every    *)
(* other's causal floor: an ask starts from the bookmark its caller passes,  *)
(* all others from none.  A step that reads several things at once reads    *)
(* them on child fibers, which start from the request's floor and do not    *)
(* give it theirs back (Reader.ts, SnapshotArms.ts, User.ts).               *)
(*                                                                         *)
(* Ingesting is LiveIngest's subject and asking Ask's; here they are the    *)
(* reads and writes they make, and the reply.  A record is sound when it    *)
(* lies in the scope, snapshot and revision it is read for.                 *)
(***************************************************************************)
EXTENDS HydraReads, SequencesExt

CONSTANTS
  Callers,          \* the requests of a behaviour
  KindsOf,          \* what each caller may ask for
  Users,            \* the keys of the counts of the users asked about
  Written,          \* the keys a post writes, in order: the session with its turns, its claims, counts
  Root,             \* the active snapshot's root
  ArmOf,            \* the claims each arm of an ask walks to, and
  TurnOf,           \* the source turn each quotes
  Stored,           \* what the engine may hold before the first request
  Scopes            \* what the manifest may say of the asked scope

Kinds == {"ingest", "sourceIndex", "ask", "stats", "slot", "warm", "sessions"}
Children == {1, 2}

ASSUME CallersAsk ==
  /\ KindsOf \in [Callers -> SUBSET Kinds] /\ "before" \notin Callers
  /\ Fibers = Callers \X {0, 1, 2}
  /\ Scopes \subseteq {"active", "inactive", "unknown"}

ASSUME KeysOfGraph ==
  /\ "none" \notin Keys /\ Users \subseteq Keys /\ Root \in Keys
  /\ Written \in Seq(Keys) /\ Len(Written) >= 2
  /\ ArmOf \in [Children -> SUBSET Keys] /\ TurnOf \in [Keys -> Keys]
  /\ \A before \in Stored :
       before \in Seq([key : Keys, by : {"before"}, sound : BOOLEAN]) /\ Settled = Len(before)

VARIABLES
  kind,             \* what each caller asks for
  who,              \* the user it asks about, if the handler looks the user up
  at,               \* where its request is
  given,            \* the bookmark it passed
  reached,          \* the claims an ask's arms reached
  spans,            \* those whose source was read
  reply             \* status 0 until it is answered

requestVars == <<readVars, kind, who, at, given, reached, spans, reply>>

Posted == {Written[i] : i \in DOMAIN Written}
Own(c) == <<c, 0>>

RequestsInit ==
  /\ log \in Stored
  /\ floor = [f \in Fibers |-> 0] /\ call = [f \in Fibers |-> NoCall]
  /\ kind \in [Callers -> Kinds] /\ \A c \in Callers : kind[c] \in KindsOf[c]
  /\ who = [c \in Callers |-> "none"]
  /\ at = [c \in Callers |-> "start"] /\ given = [c \in Callers |-> 0]
  /\ reached = [c \in Callers |-> {}] /\ spans = [c \in Callers |-> {}]
  /\ reply = [c \in Callers |-> [status |-> 0, bookmark |-> 0]]

-----------------------------------------------------------------------------
\* A child fiber starts from its parent's floor.
Inherited(f, own) == own

\* The next reads of a request, qs[0] on its own fiber; what it read is taken.
Launch(c, qs, own, next) ==
  /\ floor' = [f \in Fibers |-> IF f[1] = c /\ f[2] \in DOMAIN qs \cup {0} THEN Inherited(f, own)
                                ELSE floor[f]]
  /\ call' = [f \in Fibers |->
                IF f[1] # c THEN call[f]
                ELSE IF f[2] \notin DOMAIN qs THEN NoCall
                ELSE [NoCall EXCEPT !.state = "sent", !.query = qs[f[2]], !.since = Inherited(f, own)]]
  /\ at' = [at EXCEPT ![c] = next]
  /\ UNCHANGED <<log, kind, reply>>

Alone(q) == [i \in {0} |-> q]

Then(c, qs, next) == Launch(c, qs, floor[Own(c)], next) /\ UNCHANGED <<who, given, reached, spans>>

Answer(c, status, bookmark) ==
  /\ reply' = [reply EXCEPT ![c] = [status |-> status, bookmark |-> bookmark]]
  /\ at' = [at EXCEPT ![c] = "done"]
  /\ call' = [f \in Fibers |-> IF f[1] = c THEN NoCall ELSE call[f]]
  /\ UNCHANGED <<log, floor, kind, who, given>>

Say(c, status) == Answer(c, status, 0) /\ UNCHANGED <<reached, spans>>

State(c, i) == call[<<c, i>>].state
Rows(c, i) == call[<<c, i>>].rows
Asked(c) == {i \in 0..2 : State(c, i) # "idle"}
AllIn(c) == \A i \in Asked(c) : State(c, i) \notin {"sent", "paging"}
AllDone(c) == \A i \in Asked(c) : State(c, i) = "done"
Failed(c) == \E i \in Asked(c) : State(c, i) \in Failures
KeysIn(c, i) == {Rows(c, i)[n].key : n \in DOMAIN Rows(c, i)}

\* graphError, snapshotFailure: a failed read is a 503 and says nothing of the user.
\* Fault: it is reported as a user nobody knows.
AsNotFound == 404

FailureStatus == 503

\* One failed read ends a request and interrupts the reads beside it.
ReadFails(c) ==
  /\ at[c] \notin {"start", "hops", "arms", "write", "done"}
  /\ Failed(c)
  /\ Say(c, FailureStatus)

-----------------------------------------------------------------------------
\* Every handler but ask's clears the floor of its fiber.
BeginWith(c, key, next) ==
  /\ at[c] = "start"
  /\ Launch(c, Alone(LookUp(key)), 0, next)
  /\ UNCHANGED <<given, reached, spans>>

Post(c) == kind[c] = "ingest" /\ BeginWith(c, Written[1], "session") /\ UNCHANGED who

requireUser(c) ==
  /\ kind[c] \in {"stats", "slot", "warm"}
  /\ \E u \in Users : BeginWith(c, u, "user") /\ who' = [who EXCEPT ![c] = u]

Sessions(c) == kind[c] = "sessions" /\ BeginWith(c, Written[1], "list") /\ UNCHANGED who

\* The bookmark of a post, if the caller holds one; the scope is bound outside Hydra.
BeginAsk(c) ==
  /\ at[c] = "start" /\ kind[c] = "ask" /\ "active" \in Scopes
  /\ \E b \in {0} \cup {reply[d].bookmark : d \in Callers} :
       /\ Launch(c, [i \in {1} |-> LookUp(Root)], b, "root")
       /\ given' = [given EXCEPT ![c] = b]
  /\ UNCHANGED <<who, reached, spans>>

\* An empty session or a date that is none.
BadRequest(c) == at[c] = "start" /\ kind[c] \in {"ingest", "sourceIndex"} /\ Say(c, 400)

\* snapshotFailure: a scope nobody knows, or one with nothing to serve.
Unbound(c) ==
  /\ at[c] = "start" /\ kind[c] = "ask"
  /\ \/ "unknown" \in Scopes /\ Say(c, 404)
     \/ "inactive" \in Scopes /\ Say(c, 503)

\* The source index does its own work (SourceCommit); its reply shows nothing to ask.
IndexSession(c) ==
  /\ at[c] = "start" /\ kind[c] = "sourceIndex"
  /\ \E status \in {200, 503} : Say(c, status)

\* ingestSession: a session already in the graph is not written again.
Session(c) ==
  /\ at[c] = "session" /\ AllDone(c)
  /\ IF Rows(c, 0) # <<>>
     THEN Answer(c, 200, floor[Own(c)]) /\ UNCHANGED <<reached, spans>>
     ELSE Then(c, <<>>, "write")

WrittenBy(c) == Cardinality({i \in DOMAIN log : log[i].by = c})

\* Fault: the reply carries the bookmark of the first write.
OfFirstWrite(c) == 1 + Cardinality({i \in DOMAIN log : log[i].by = "before"})

lastBookmark(c) == floor[Own(c)]

\* A write moves the floor to itself; the reply carries the last.
Write(c) ==
  /\ at[c] = "write"
  /\ LET n == WrittenBy(c) IN
     IF n < Len(Written)
     THEN /\ log' = Append(log, [key |-> Written[n + 1], by |-> c, sound |-> TRUE])
          /\ floor' = [floor EXCEPT ![Own(c)] = Len(log')]
          /\ UNCHANGED <<call, kind, who, at, given, reached, spans, reply>>
     ELSE Answer(c, 200, lastBookmark(c)) /\ UNCHANGED <<reached, spans>>

LoseWrite(c) == at[c] = "write" /\ WrittenBy(c) < Len(Written) /\ Say(c, FailureStatus)

\* requireUser, then what the request is for.
User(c) ==
  /\ at[c] = "user" /\ AllDone(c)
  /\ IF Rows(c, 0) = <<>> THEN Say(c, 404)
     ELSE CASE kind[c] = "stats" -> Then(c, Alone(Walk(Posted)), "list")
            [] kind[c] = "slot" -> Then(c, Alone(Walk({Written[2]})), "chain")
            [] kind[c] = "warm" -> Then(c, [i \in Children |-> Walk({Written[i]})], "vertices")

List(c) == at[c] = "list" /\ AllDone(c) /\ Say(c, 200)

\* evidenceText: the turns, and the chunks of long ones, that claims are quoted from.
Quotes == Alone(Walk({Written[1]}))

\* slotChain, then its quotes.
Chain(c) ==
  /\ at[c] = "chain" /\ AllDone(c)
  /\ IF Rows(c, 0) = <<>> THEN Say(c, 404) ELSE Then(c, Quotes, "quoted")

\* prepareDerivedIndexAssertions: without its turn no assertion is served.
Quoted(c) ==
  /\ at[c] = "quoted" /\ AllDone(c)
  /\ Say(c, IF Rows(c, 0) = <<>> THEN 503 ELSE 200)

Vertices(c) ==
  /\ at[c] = "vertices" /\ AllDone(c)
  /\ Then(c, [i \in Children |-> Walk({Written[i]})], "hops")

\* warmUser counts the hops that failed.
Hops(c) == at[c] = "hops" /\ AllIn(c) /\ Say(c, 200)

-----------------------------------------------------------------------------
\* Fault: what a walk brings is believed.
Believed(r) == TRUE

\* checkSnapshotKey, checkCoveredCommit, parseSnapshotSourceTurn, and the root's checks.
Sound(r) == r.sound

Unsound(c) == \E i \in Asked(c) : \E n \in DOMAIN Rows(c, i) : ~Sound(Rows(c, i)[n])

\* readSnapshotClaimStats, on a fiber of its own beside the understanding.
CheckRoot(c) ==
  /\ at[c] = "root" /\ AllDone(c)
  /\ IF Rows(c, 1) = <<>> \/ Unsound(c) THEN Say(c, 503)
     ELSE Then(c, [i \in Children |-> Walk(ArmOf[i])], "arms")

\* An arm cut off by a limit brings nothing; any other failure ends the ask.
Arms(c) ==
  /\ at[c] = "arms"
  /\ LET arrived == {i \in Children : State(c, i) = "done"}
         found == UNION {KeysIn(c, i) : i \in arrived}
     IN  IF Unsound(c) \/ \E i \in Children : State(c, i) \in Failures \ {"limit"}
         THEN Say(c, 503)
         ELSE /\ AllIn(c)
              /\ IF found = {} THEN Say(c, 200)
                 ELSE /\ Launch(c, Alone(Walk(found)), floor[Own(c)], "locators")
                      /\ reached' = [reached EXCEPT ![c] = found]
                      /\ UNCHANGED <<who, given, spans>>

\* The evidence walk that names each claim's turn.
Locators(c) ==
  /\ at[c] = "locators" /\ AllDone(c)
  /\ IF Unsound(c) THEN Say(c, 503)
     ELSE LET list == SetToSeq(KeysIn(c, 0)) IN
          Then(c, [i \in DOMAIN list \cap Children |-> LookUp(TurnOf[list[i]])], "turns")

\* A turn that is not there drops its claim; one of another source ends the ask.
Turns(c) ==
  /\ at[c] = "turns" /\ AllDone(c)
  /\ IF Unsound(c) THEN Say(c, 503)
     ELSE /\ Answer(c, 200, 0)
          /\ spans' = [spans EXCEPT ![c] = {k \in reached[c] : \E i \in Asked(c) : TurnOf[k] \in KeysIn(c, i)}]
          /\ UNCHANGED reached

Handle(c) ==
  \/ Post(c) \/ requireUser(c) \/ Sessions(c) \/ BeginAsk(c) \/ BadRequest(c) \/ Unbound(c)
  \/ IndexSession(c) \/ Session(c) \/ Write(c) \/ LoseWrite(c) \/ User(c) \/ List(c)
  \/ Chain(c) \/ Quoted(c) \/ Vertices(c) \/ Hops(c) \/ CheckRoot(c) \/ Arms(c)
  \/ Locators(c) \/ Turns(c) \/ ReadFails(c)

Serve(f) == ReadStep(f) /\ UNCHANGED <<kind, who, at, given, reached, spans, reply>>

RequestsNext == (\E c \in Callers : Handle(c)) \/ (\E f \in Fibers : Serve(f))

RequestsSpec == RequestsInit /\ [][RequestsNext]_requestVars

-----------------------------------------------------------------------------
(***************************************************************************)
(* Properties.                                                             *)
(***************************************************************************)

RequestsTypeOK ==
  /\ \A f \in Fibers : floor[f] \in 0..Len(log)
  /\ \A f \in Fibers : call[f].tries < MaxTries /\ call[f].page \in 0..MaxPages + 1
  /\ \A c \in Callers : reply[c].status = 0 <=> at[c] # "done"

\* An ask that passes the bookmark of an acknowledged post reads, on every fiber
\* it forks, only states that hold everything the post wrote
\* (Handlers.ts isolateRequest, Transport.ts sendOnce).
ReadYourWrites ==
  \A c, d \in Callers : \A f \in Fibers :
    kind[d] = "ingest" /\ reply[d].bookmark # 0 /\ given[c] = reply[d].bookmark
      /\ f[1] = c /\ call[f].state = "done"
    => \A i \in DOMAIN log : log[i].by = d => i <= call[f].at

\* Reports about a user are about that user: 404 is told only of one whose counts
\* were not stored before the server started, whatever failed meanwhile, and 200
\* only of one whose counts are stored, whichever key shares the number
\* (Handlers.ts requireUser, snapshotFailure; Client.ts getById).
NotFoundMeansNone ==
  \A c \in Callers : kind[c] \in {"stats", "warm"} =>
    /\ reply[c].status = 404 => \A i \in 1..Settled : log[i].key # who[c]
    /\ reply[c].status = 200 => \E i \in DOMAIN log : log[i].key = who[c]

\* No span is served whose claim or turn lies outside the bound snapshot and its
\* revisions, even when the graph leads to such records (SnapshotRows.ts, Reader.ts).
SpansAreSound ==
  \A c \in Callers : \A k \in spans[c] : \A i \in DOMAIN log :
    log[i].key \in {k, TurnOf[k]} => log[i].sound
=============================================================================
