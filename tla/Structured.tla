----------------------------- MODULE Structured -----------------------------
(***************************************************************************)
(* chat_structured (graph/plugins/structured_output.py) over a list of     *)
(* messages that belongs to its caller, who may add to it while a chat is  *)
(* awaited.  A message is a number, SchemaHint the one about the schema.         *)
(***************************************************************************)
EXTENDS Integers, Sequences, SequencesExt

CONSTANTS
  MaxRetries,   \* what PERPETUA_STRUCTURED_RETRIES may be
  MaxMessages   \* bound on the caller's list

ASSUME RetriesAssumption == MaxRetries \subseteq Int /\ MaxMessages \in Nat

VARIABLES retries, messages, attempt, sent, replies, phase

dialogue == <<retries, messages, attempt, sent, replies, phase>>

SchemaHint == 0

Begins(n) ==
  /\ retries = n
  /\ messages = <<1>>
  /\ attempt = 0
  /\ sent = <<>> /\ replies = <<>>   \* one list and one reply per chat
  /\ phase = "ready"

StructuredInit == \E n \in MaxRetries : Begins(n)

\* Mutant: one attempt too few.
Retrying == attempt < retries
MoreAttempts == attempt < retries + 1

\* list(messages) is a copy.  Mutant: the hint goes into the caller's list.
InPlace(msgs) == messages' = msgs
Copied(msgs) == UNCHANGED messages

Chat ==
  /\ phase = "ready" /\ MoreAttempts
  /\ LET msgs == IF attempt > 0 THEN Append(messages, SchemaHint) ELSE messages
     IN  sent' = Append(sent, msgs) /\ Copied(msgs)
  /\ phase' = "waiting"
  /\ UNCHANGED <<retries, attempt, replies>>

CallerAppends ==
  /\ phase = "waiting" /\ Len(messages) < MaxMessages
  /\ messages' = Append(messages, Len(messages) + 1)
  /\ UNCHANGED <<retries, attempt, sent, replies, phase>>

Reply(kind) ==
  /\ phase = "waiting"
  /\ replies' = Append(replies, kind)
  /\ CASE kind = "valid" -> phase' = "returned" /\ UNCHANGED attempt
       [] kind = "invalid" -> phase' = "ready" /\ attempt' = attempt + 1
       [] kind = "error" -> phase' = "chat failed" /\ UNCHANGED attempt
  /\ UNCHANGED <<retries, messages, sent>>

GiveUp ==
  /\ phase = "ready" /\ ~MoreAttempts
  /\ phase' = "gave up"
  /\ UNCHANGED <<retries, messages, attempt, sent, replies>>

StructuredNext ==
  \/ Chat \/ CallerAppends \/ GiveUp
  \/ \E kind \in {"valid", "invalid", "error"} : Reply(kind)

StructuredSpec == StructuredInit /\ [][StructuredNext]_dialogue

-----------------------------------------------------------------------------
\* Hints do not pile up: a retry sends what the caller's list holds by then
\* and one hint at the end, and the list never gets one
\* (structured_output.py:23-33).
HintsLeaveNoTrace ==
  /\ SchemaHint \notin ToSet(messages)
  /\ \A i \in DOMAIN sent :
       LET said == IF i = 1 THEN sent[i] ELSE Front(sent[i])
       IN  /\ IsPrefix(said, messages)
           /\ i > 1 => Last(sent[i]) = SchemaHint

\* The model is asked again exactly as long as its answers are invalid and
\* attempts are left, whatever the variable says: with a negative number it is
\* never asked (structured_output.py:22-43).
AttemptsAreUsedUp ==
  LET allowed == IF retries < 0 THEN 0 ELSE retries + 1
      bad == \A i \in DOMAIN replies : replies[i] = "invalid"
  IN  /\ Len(sent) <= allowed
      /\ phase = "gave up" => bad /\ Len(replies) = allowed
      /\ phase \in {"returned", "chat failed"} => \A i \in DOMAIN Front(replies) : replies[i] = "invalid"

\* Every attempt is the same question with at most one hint, and there are as
\* many as allowed.
RetriesAreFair == HintsLeaveNoTrace /\ AttemptsAreUsedUp
=============================================================================
