--------------------------- MODULE HumanDecisions ---------------------------
(***************************************************************************)
(* What the chatbot asks of the people in the store, and what they answer. *)
(* A RESTOCK or EXPIRATION question is a row that a reviewer resolves; a   *)
(* question about the delivery to a postal code joins the open validation  *)
(* of that code, whose resolution writes the delivery zone and answers all *)
(* who wait, or is answered at once by an active zone.  The bot tells the  *)
(* customer and acknowledges what became of the message, once.             *)
(*                                                                         *)
(* A handler reads in a first step and writes and commits in a second.     *)
(* Writers of one postal code hold its advisory lock in between; all other *)
(* handlers rely on unique indexes and on conditional updates.             *)
(***************************************************************************)
EXTENDS Naturals, FiniteSets

CONSTANTS
  Handlers,        \* request handlers that run at the same time
  AskKeys,         \* sourceRequestId values
  Questions,       \* bodies of intakes
  Zips,            \* postal codes
  Reviewers,
  ReviewKeys,      \* resolutionRequestId values
  Sayings,         \* resolutions: estimates, texts, settings of a zone
  Evidences,       \* bodies of acknowledgments
  Window,          \* application window of each type
  MaxValidations,  \* bound on the validations opened
  MaxRequests,     \* bound on the requests begun
  MaxClock,        \* bound on the clock
  Absent

DecisionTypes == {"RESTOCK", "EXPIRATION"}

Question == [type : DecisionTypes \cup {"ZONE"}, about : Zips \cup {Absent}, after : AskKeys \cup {Absent}]

Evidence == [attempt : Nat, outcome : {"ACCEPTED", "LATE", "UNKNOWN", "STALE"}, at : Nat, seen : Nat]

ASSUME QuestionsAssumption ==
  /\ Questions \subseteq Question
  /\ Evidences \subseteq Evidence
  /\ \A q \in Questions : q.type = "ZONE" => q.about \in Zips /\ q.after = Absent
  /\ MaxValidations \in Nat /\ MaxRequests \in Nat /\ MaxClock \in Nat
  /\ Absent \notin Zips

VARIABLES
  asked,   \* human_decisions and delivery_zone_requests
  zones,   \* delivery_zones
  checks,  \* delivery_zone_validations
  work,    \* what each handler is doing
  begun,   \* requests so far
  clock

decisionVars == <<asked, zones, checks, work, begun, clock>>

-----------------------------------------------------------------------------
(* Tables *)

AskIds == {"decision", "zone"} \X AskKeys
Checks == 1..MaxValidations

IdOf(key, body) == <<IF body.type = "ZONE" THEN "zone" ELSE "decision", key>>

NoEvidence == [attempt |-> 0, outcome |-> "NONE", at |-> 0, seen |-> 0]
NoAnswer == [key |-> Absent, by |-> Absent, says |-> Absent]
NoRow == [status |-> "NONE", body |-> Absent, answer |-> NoAnswer, at |-> 0,
          ack |-> NoEvidence, check |-> 0]
NoCheck == [status |-> "NONE", zip |-> Absent, answer |-> NoAnswer]
NoWork == [phase |-> "idle", cmd |-> [do |-> "none"], saw |-> [row |-> NoRow]]

DecisionsInit ==
  /\ asked = [id \in AskIds |-> NoRow]
  /\ zones = [z \in Zips |-> [says |-> Absent, active |-> FALSE]]
  /\ checks = [c \in Checks |-> NoCheck]
  /\ work = [h \in Handlers |-> NoWork]
  /\ begun = 0 /\ clock = 0

OpenChecks(z) == {c \in Checks : checks[c].status = "PENDING" /\ checks[c].zip = z}

-----------------------------------------------------------------------------
(* Handlers *)

(* The postal code whose lock a command takes.                             *)
LockOf(cmd) ==
  CASE cmd.do = "intake" /\ cmd.body.type = "ZONE" -> cmd.body.about
    [] cmd.do = "settle" -> checks[cmd.check].zip
    [] cmd.do = "edit" -> cmd.zip
    [] OTHER -> Absent

(* lockZipCode.                                                            *)
NotWaitedFor(h, z) == z = Absent \/ z \in Zips

LockFree(h, z) ==
  z = Absent \/ \A g \in Handlers \ {h} : work[g].phase = "read" => LockOf(work[g].cmd) # z

(* Only what was never sent can be asked again (assertPredecessorEligible).*)
SupersedableOnceTold(k) == asked[<<"decision", k>>].ack # NoEvidence

Supersedable(k) == asked[<<"decision", k>>].ack.outcome = "STALE"

(* What the first statements of a command read.                            *)
Sight(cmd) ==
  CASE cmd.do = "intake" ->
         [row |-> asked[IdOf(cmd.key, cmd.body)],
          eligible |-> cmd.body.after = Absent \/ Supersedable(cmd.body.after),
          zone |-> IF cmd.body.type = "ZONE" THEN zones[cmd.body.about] ELSE Absent,
          open |-> IF cmd.body.type = "ZONE" THEN OpenChecks(cmd.body.about) ELSE {}]
    [] cmd.do \in {"resolve", "ack"} -> [row |-> asked[cmd.id]]
    [] cmd.do = "settle" -> [row |-> checks[cmd.check]]
    [] OTHER -> [row |-> NoRow, open |-> OpenChecks(cmd.zip)]

Commands ==
  [do : {"intake"}, key : AskKeys, body : Questions]
    \cup [do : {"resolve"}, id : {id \in AskIds : id[1] = "decision" /\ asked[id] # NoRow},
          answer : [key : ReviewKeys, by : Reviewers, says : Sayings]]
    \cup [do : {"settle"}, check : {c \in Checks : checks[c] # NoCheck},
          answer : [key : ReviewKeys, by : Reviewers, says : Sayings]]
    \cup [do : {"ack"}, id : {id \in AskIds : asked[id] # NoRow}, evidence : Evidences]
    \cup [do : {"edit"}, zip : Zips, says : Sayings \cup {Absent}]

Begin(h, cmd) ==
  /\ work[h].phase # "read"
  /\ begun < MaxRequests /\ begun' = begun + 1
  /\ LockFree(h, LockOf(cmd))
  /\ work' = [work EXCEPT ![h] = [phase |-> "read", cmd |-> cmd, saw |-> Sight(cmd)]]
  /\ UNCHANGED <<asked, zones, checks, clock>>

Doing(h, what) == work[h].phase = "read" /\ work[h].cmd.do = what

(* The handler commits and answers with what is committed.                 *)
Answers(h) == work' = [work EXCEPT ![h] = [NoWork EXCEPT !.phase = "ok", !.cmd = work[h].cmd]]

(* Any refusal, error or death: the transaction is rolled back.            *)
Fail(h) ==
  /\ work[h].phase = "read"
  /\ work' = [work EXCEPT ![h] = NoWork]
  /\ UNCHANGED <<asked, zones, checks, begun, clock>>

-----------------------------------------------------------------------------
(* POST /chatbot-api/human-decisions *)

(* The identity is there already, or was when the insert hit its index.    *)
ReplayIntake(h) ==
  LET cmd == work[h].cmd
      known == IF work[h].saw.row # NoRow THEN work[h].saw.row ELSE asked[IdOf(cmd.key, cmd.body)]
  IN
  /\ Doing(h, "intake")
  /\ known # NoRow /\ known.body = cmd.body
  /\ Answers(h)
  /\ UNCHANGED <<asked, zones, checks, begun, clock>>

NewRow(h) == /\ Doing(h, "intake") /\ work[h].saw.row = NoRow
             /\ asked[IdOf(work[h].cmd.key, work[h].cmd.body)] = NoRow

Inserts(h, row) == asked' = [asked EXCEPT ![IdOf(work[h].cmd.key, work[h].cmd.body)] = row]

(* unique (tenantId, source, supersedesDecisionId).                        *)
Succeeded(k) == \E id \in AskIds : asked[id] # NoRow /\ asked[id].body.after = k

InsertDecision(h) ==
  LET body == work[h].cmd.body IN
  /\ NewRow(h) /\ body.type \in DecisionTypes
  /\ work[h].saw.eligible
  /\ body.after # Absent => ~Succeeded(body.after)
  /\ Inserts(h, [NoRow EXCEPT !.status = "PENDING", !.body = body])
  /\ Answers(h)
  /\ UNCHANGED <<zones, checks, begun, clock>>

(* PrismaDeliveryZoneBotRepository.submit, existing zone.                  *)
InsertAnswered(h) ==
  LET zone == work[h].saw.zone IN
  /\ NewRow(h) /\ work[h].cmd.body.type = "ZONE"
  /\ zone.active
  /\ Inserts(h, [NoRow EXCEPT !.status = "RESOLVED", !.body = work[h].cmd.body, !.at = clock,
                              !.answer.says = zone.says])
  /\ Answers(h)
  /\ UNCHANGED <<zones, checks, begun, clock>>

(* findOrOpenValidation, and the requester that joins the validation.      *)
JoinValidation(h) ==
  LET zip == work[h].cmd.body.about IN
  /\ NewRow(h) /\ work[h].cmd.body.type = "ZONE"
  /\ ~work[h].saw.zone.active
  /\ \E c \in Checks :
       /\ IF work[h].saw.open # {}
          THEN c \in work[h].saw.open /\ UNCHANGED checks
          ELSE /\ checks[c] = NoCheck /\ OpenChecks(zip) = {}
               /\ \A b \in 1..(c - 1) : checks[b] # NoCheck
               /\ checks' = [checks EXCEPT ![c] = [NoCheck EXCEPT !.status = "PENDING", !.zip = zip]]
       /\ Inserts(h, [NoRow EXCEPT !.status = "PENDING", !.body = work[h].cmd.body, !.check = c])
  /\ Answers(h)
  /\ UNCHANGED <<zones, begun, clock>>

-----------------------------------------------------------------------------
(* The reviewers *)

(* The condition of the update that resolves a decision.                   *)
StillPendingAsRead(h) == work[h].saw.row.status = "PENDING"

StillPending(h) == asked[work[h].cmd.id].status = "PENDING"

Resolve(h) ==
  LET id == work[h].cmd.id IN
  /\ Doing(h, "resolve")
  /\ work[h].saw.row.status = "PENDING" /\ StillPending(h)
  /\ asked' = [asked EXCEPT ![id].status = "RESOLVED", ![id].answer = work[h].cmd.answer,
                            ![id].at = clock]
  /\ Answers(h)
  /\ UNCHANGED <<zones, checks, begun, clock>>

(* assertExactReplay.                                                      *)
SameAnswer(committed, answer) == committed = answer

ReplayResolve(h) ==
  /\ Doing(h, "resolve")
  /\ asked[work[h].cmd.id].status = "RESOLVED"
  /\ SameAnswer(asked[work[h].cmd.id].answer, work[h].cmd.answer)
  /\ Answers(h)
  /\ UNCHANGED <<asked, zones, checks, begun, clock>>

(* PrismaDeliveryZoneValidationRepository.resolve.                         *)
Settle(h) ==
  LET c == work[h].cmd.check
      answer == work[h].cmd.answer
  IN
  /\ Doing(h, "settle")
  /\ work[h].saw.row.status = "PENDING" /\ checks[c].status = "PENDING"
  /\ checks' = [checks EXCEPT ![c].status = "RESOLVED", ![c].answer = answer]
  /\ zones' = [zones EXCEPT ![checks[c].zip] = [says |-> answer.says, active |-> TRUE]]
  /\ asked' = [id \in AskIds |->
                 IF asked[id].check = c /\ asked[id].status = "PENDING"
                 THEN [asked[id] EXCEPT !.status = "RESOLVED", !.at = clock,
                                        !.answer.says = answer.says]
                 ELSE asked[id]]
  /\ Answers(h)
  /\ UNCHANGED <<begun, clock>>

ReplaySettle(h) ==
  /\ Doing(h, "settle")
  /\ work[h].saw.row.status = "RESOLVED"
  /\ SameAnswer(work[h].saw.row.answer, work[h].cmd.answer)
  /\ Answers(h)
  /\ UNCHANGED <<asked, zones, checks, begun, clock>>

(* PUT and DELETE /delivery-zones/:zipCode.                                *)
EditZone(h) ==
  LET cmd == work[h].cmd IN
  /\ Doing(h, "edit")
  /\ IF cmd.says = Absent
     THEN zones[cmd.zip].says # Absent /\ zones' = [zones EXCEPT ![cmd.zip].active = FALSE]
     ELSE work[h].saw.open = {} /\ zones' = [zones EXCEPT ![cmd.zip] = [says |-> cmd.says, active |-> TRUE]]
  /\ Answers(h)
  /\ UNCHANGED <<asked, checks, begun, clock>>

-----------------------------------------------------------------------------
(* The acknowledgment of the bot: one per question *)

(* assertTemporalWindow.                                                   *)
InWindow(e, row) ==
  LET end == row.at + Window[row.body.type] IN
  \/ e.outcome = "STALE"
  \/ /\ row.at <= e.at /\ e.at < end
     /\ e.outcome = "ACCEPTED" => e.seen < end
     /\ e.outcome = "LATE" => e.seen >= end

Acknowledge(h) ==
  LET id == work[h].cmd.id IN
  /\ Doing(h, "ack")
  /\ work[h].saw.row.status = "RESOLVED" /\ work[h].saw.row.ack = NoEvidence
  /\ InWindow(work[h].cmd.evidence, work[h].saw.row)
  /\ asked[id].ack = NoEvidence
  /\ asked' = [asked EXCEPT ![id].ack = work[h].cmd.evidence]
  /\ Answers(h)
  /\ UNCHANGED <<zones, checks, begun, clock>>

(* classifyTerminal: same attempt, same evidence.                          *)
ReplayAck(h) ==
  /\ Doing(h, "ack")
  /\ work[h].saw.row.status = "RESOLVED"
  /\ asked[work[h].cmd.id].ack = work[h].cmd.evidence
  /\ Answers(h)
  /\ UNCHANGED <<asked, zones, checks, begun, clock>>

Tick == clock < MaxClock /\ clock' = clock + 1 /\ UNCHANGED <<asked, zones, checks, work, begun>>

-----------------------------------------------------------------------------
DecisionsNext ==
  \/ \E h \in Handlers :
       \/ \E cmd \in Commands : Begin(h, cmd)
       \/ ReplayIntake(h) \/ InsertDecision(h) \/ InsertAnswered(h) \/ JoinValidation(h)
       \/ Resolve(h) \/ ReplayResolve(h) \/ Settle(h) \/ ReplaySettle(h) \/ EditZone(h)
       \/ Acknowledge(h) \/ ReplayAck(h)
       \/ Fail(h)
  \/ Tick

DecisionsSpec == DecisionsInit /\ [][DecisionsNext]_decisionVars

-----------------------------------------------------------------------------
(* Along a chain of questions of which each replaces the one before, only  *)
(* the last may still reach the customer: what is replaced was never sent, *)
(* stays unsent, and is replaced once.                                     *)
OneLiveDecisionPerChain ==
  \A id \in AskIds : asked[id] # NoRow /\ asked[id].body.after # Absent =>
    /\ asked[<<"decision", asked[id].body.after>>].ack.outcome = "STALE"
    /\ \A other \in AskIds \ {id} :
         asked[other] # NoRow => asked[other].body.after # asked[id].body.after

(* A customer who waits for a postal code waits for the one validation of  *)
(* it that a reviewer can still resolve; there is none beside a zone that  *)
(* answers at once.                                                        *)
NobodyWaitsInVain ==
  /\ \A id \in AskIds : asked[id].status = "PENDING" /\ asked[id].body.type = "ZONE" =>
       asked[id].check \in OpenChecks(asked[id].body.about)
  /\ \A z \in Zips : /\ Cardinality(OpenChecks(z)) <= 1
                     /\ zones[z].active => OpenChecks(z) = {}

(* Whoever was told that his question, his decision or his message is in   *)
(* the books finds it there, and nobody else's in its place, for ever.     *)
AnswersTellTheRow ==
  \A h \in Handlers : work[h].phase = "ok" =>
    LET cmd == work[h].cmd IN
    CASE cmd.do = "intake" -> asked[IdOf(cmd.key, cmd.body)].body = cmd.body
      [] cmd.do = "resolve" -> asked[cmd.id].answer = cmd.answer
      [] cmd.do = "settle" -> checks[cmd.check].answer = cmd.answer
      [] cmd.do = "ack" -> asked[cmd.id].ack = cmd.evidence
      [] OTHER -> TRUE
=============================================================================
