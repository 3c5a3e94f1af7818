---------------------------- MODULE OperatorChat ----------------------------
(***************************************************************************)
(* The pure part of the operator chat: the two detectors that read an      *)
(* intent from what the operator wrote (ui/chat_service.py and             *)
(* inferMockIntent of ui/static/app.js), the model router                  *)
(* (adapters/stepfun_model_router.py), and the answer of POST /api/chat.   *)
(*                                                                         *)
(* A text is what the detectors look for in it: the phrases ("cues") it    *)
(* contains, the zone it names last and the machine it names first.  The   *)
(* verbs "go" and "home" are those all rules share.                        *)
(***************************************************************************)
EXTENDS Naturals, Sequences

Cues == {"cleared", "allclear", "approve", "defer", "mower", "drone", "inspect", "home", "go",
         "start", "task", "storm", "assess", "organize", "request"}

CourseZones == {"A", "B", "C", "D"}                 \* with coordinates in app.js
NamedZones == CourseZones \cup {"E", "F", "G", "H"}  \* the letters the pattern admits
Unnamed == "none"

\* Naming a machine is naming a mower; a phrase that starts an inspection
\* names the drone or the inspection.
Texts == {t \in [cues : SUBSET Cues, zone : NamedZones \cup {Unnamed},
                 machine : {"mower_1", "mower_2", Unnamed}] :
            /\ t.machine # Unnamed => "mower" \in t.cues
            /\ "start" \in t.cues => {"drone", "inspect"} \cap t.cues # {}}

---------------------------------------------------------------------------
(* The detectors.  Each is a list of rules; the first one whose cues are   *)
(* all in the text decides.                                                *)

Rule(needs, intent) == [needs |-> needs, intent |-> intent]

MovementRules == <<
  Rule({"mower", "home"}, "RETURN_MACHINE_TO_BASE"),
  Rule({"mower", "go"}, "ASSIGN_MOWING_ZONE"),
  Rule({"drone", "go"}, "REDIRECT_INSPECTION"),
  Rule({"inspect", "go"}, "REDIRECT_INSPECTION")>>

ScenarioRules == <<
  Rule({"start"}, "START_INSPECTION"),
  Rule({"task"}, "CREATE_MAINTENANCE_TASK"),
  Rule({"storm"}, "INJECT_THUNDERSTORM"),
  Rule({"assess"}, "ASSESS_RISK"),
  Rule({"organize"}, "PREPARE_EMERGENCY_ORGANIZATION"),
  Rule({"request"}, "REQUEST_AUTHORIZATION")>>

\* Mutant: asking for an authorization is taken for giving it.
EagerDecisionRules == <<
  Rule({"approve"}, "APPROVE_EMERGENCY"),
  Rule({"request"}, "APPROVE_EMERGENCY"),
  Rule({"defer"}, "DEFER_EMERGENCY")>>

DecisionRules == <<
  Rule({"approve"}, "APPROVE_EMERGENCY"),
  Rule({"defer"}, "DEFER_EMERGENCY")>>

ClearanceRules == <<
  Rule({"cleared"}, "CLEAR_MAINTENANCE_HAZARD"),
  Rule({"allclear"}, "CLEAR_EMERGENCY")>>

\* The console asks for decisions first, the service last.
ConsoleRules == ClearanceRules \o DecisionRules \o MovementRules \o ScenarioRules
ServiceRules == ClearanceRules \o MovementRules \o ScenarioRules \o DecisionRules

Detect(rules, text) ==
  LET hits == {i \in DOMAIN rules : rules[i].needs \subseteq text.cues}
  IN IF hits = {} THEN "ANSWER" ELSE rules[CHOOSE i \in hits : \A j \in hits : i <= j].intent

ConsoleIntent(text) == Detect(ConsoleRules, text)  \* inferMockIntent
ServiceIntent(text) == Detect(ServiceRules, text)  \* _detect_explicit_intent

Intents == {"ANSWER"} \cup {ConsoleRules[i].intent : i \in DOMAIN ConsoleRules}

---------------------------------------------------------------------------
(* StepFunModelRouter.complete: what can become of a completion.           *)

\* A typed reply carries whatever intent the model chose.
Completions == [kind : {"reply"}, intent : Intents] \cup
               [kind : {"no_key", "transport_failed", "not_an_object", "no_message", "unfinished",
                        "invalid_output", "not_json", "choice_not_an_object"}]

RouterErrors == {"no_key", "transport_failed", "not_an_object", "no_message", "unfinished",
                 "invalid_output"}

---------------------------------------------------------------------------
(* RuntimeChatService.reply and do_POST: the answer to POST /api/chat      *)

Refused(status) == [status |-> status]

\* The intent of a reply is what the text says, whatever the model said.
Gate(text, intent) ==
  IF intent = ServiceIntent(text) THEN intent ELSE ServiceIntent(text)

\* A response body that is not JSON escapes the router as JSONDecodeError, which
\* the handler takes for a malformed request; a choice that is not an object
\* escapes as AttributeError, which nobody catches: the connection is dropped.
Answered(text, completion) ==
  CASE completion.kind = "reply" -> [status |-> 200, intent |-> Gate(text, completion.intent)]
    [] completion.kind \in RouterErrors -> Refused(502)
    [] completion.kind = "not_json" -> Refused(400)
    [] completion.kind = "choice_not_an_object" -> Refused(0)

\* Without a router 503; a text the request schema refuses (too long) 400.
ChatAnswers(text) ==
  {Answered(text, completion) : completion \in Completions} \cup {Refused(503), Refused(400)}

\* All the page makes of an answer without success is that there is none.
NoReply == [ok |-> FALSE]
Heard(answer) == IF answer.status = 200 THEN [ok |-> TRUE, intent |-> answer.intent] ELSE NoReply

Replies(text) == {Heard(answer) : answer \in ChatAnswers(text)}
=============================================================================
