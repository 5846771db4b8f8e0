--------------------------- MODULE WebhookManager ---------------------------
(***************************************************************************)
(* webhook/handler.go: Register and Trigger, which runs each handler of an  *)
(* event in a goroutine under a semaphore, or in the caller when that is    *)
(* full; Handle, which triggers what it receives; and Send with its         *)
(* retries, here towards the Handle of a manager with the same secret.      *)
(* Handlers may trigger further events.                                     *)
(***************************************************************************)
EXTENDS Integers, FiniteSets

CONSTANTS Hooks,       \* handlers, all for the one event type
          SlotCap,     \* capacity of the semaphore (100)
          HookRetries, \* MaxRetries
          MaxTriggers  \* bound on the calls of Trigger

ASSUME WebhookAssumption == IsFiniteSet(Hooks) /\ {SlotCap, HookRetries, MaxTriggers} \subseteq Nat

Triggers == 1..MaxTriggers

VARIABLES secret,    \* Secret is configured, at both ends
          hooked,    \* handlers registered
          trigger,   \* where each call of Trigger is
          wanted,    \* the handlers it read
          todo,      \* those it has still to start
          run,       \* each handler's run for each trigger
          within,    \* the run that made the call; <<>>: another caller
          delivery,  \* Send: where it is, and its attempts
          arrived    \* the trigger its last accepted request made

webhookVars == <<secret, hooked, trigger, wanted, todo, run, within, delivery, arrived>>

WebhookTypeOK ==
    /\ secret \in BOOLEAN
    /\ hooked \subseteq Hooks
    /\ trigger \in [Triggers -> {"none", "loop", "returned"}]
    /\ wanted \in [Triggers -> SUBSET Hooks]
    /\ todo \in [Triggers -> SUBSET Hooks]
    /\ run \in [Triggers -> [Hooks -> {"no", "async", "inline", "ended"}]]
    /\ within \in [Triggers -> (Triggers \X Hooks) \cup {<<>>}]
    /\ delivery \in [at : {"idle", "sent", "served", "failed", "unauthorized", "ok", "error"},
                     tries : 0..(HookRetries + 1)]
    /\ arrived \in 0..MaxTriggers

WebhookInit ==
    /\ secret \in BOOLEAN
    /\ hooked = {}
    /\ trigger = [t \in Triggers |-> "none"]
    /\ wanted = [t \in Triggers |-> {}]
    /\ todo = [t \in Triggers |-> {}]
    /\ run = [t \in Triggers |-> [h \in Hooks |-> "no"]]
    /\ within = [t \in Triggers |-> <<>>]
    /\ delivery = [at |-> "idle", tries |-> 0]
    /\ arrived = 0
-----------------------------------------------------------------------------
Register(h) ==
    /\ h \notin hooked
    /\ hooked' = hooked \cup {h}
    /\ UNCHANGED <<secret, trigger, wanted, todo, run, within, delivery, arrived>>

\* Trigger reads the handlers once, under the lock.
Fresh(t) == trigger[t] = "none" /\ \A u \in 1..(t - 1) : trigger[u] # "none"
BeginTrigger(t, caller) ==
    /\ Fresh(t)
    /\ trigger' = [trigger EXCEPT ![t] = "loop"]
    /\ wanted' = [wanted EXCEPT ![t] = hooked]
    /\ todo' = [todo EXCEPT ![t] = hooked]
    /\ within' = [within EXCEPT ![t] = caller]

CallTrigger(t) ==
    /\ BeginTrigger(t, <<>>)
    /\ UNCHANGED <<secret, hooked, run, delivery, arrived>>

Running(t, h) == run[t][h] \in {"async", "inline"}

\* The runs in the middle of a Trigger of their own.
Busy(t, h) == \E u \in Triggers : trigger[u] = "loop" /\ within[u] = <<t, h>>

Recurse(t, h, u) ==
    /\ Running(t, h) /\ ~ Busy(t, h)
    /\ BeginTrigger(u, <<t, h>>)
    /\ UNCHANGED <<secret, hooked, run, delivery, arrived>>

SlotsTaken == Cardinality({x \in Triggers \X Hooks : run[x[1]][x[2]] = "async"})
RunsInline(t) == \E h \in Hooks : run[t][h] = "inline"

\* Bug: no default, the caller waits for a slot.
StartHookInTurn(t, h) ==
    /\ trigger[t] = "loop" /\ h \in todo[t] /\ ~ RunsInline(t)
    /\ SlotsTaken < SlotCap
    /\ run' = [run EXCEPT ![t][h] = "async"]
    /\ todo' = [todo EXCEPT ![t] = @ \ {h}]
    /\ UNCHANGED <<secret, hooked, trigger, wanted, within, delivery, arrived>>

\* Bug: a full semaphore drops the handler.
StartOrDropHook(t, h) ==
    /\ trigger[t] = "loop" /\ h \in todo[t] /\ ~ RunsInline(t)
    /\ run' = IF SlotsTaken < SlotCap THEN [run EXCEPT ![t][h] = "async"] ELSE run
    /\ todo' = [todo EXCEPT ![t] = @ \ {h}]
    /\ UNCHANGED <<secret, hooked, trigger, wanted, within, delivery, arrived>>

\* One turn of the loop; the order of the handlers tells nothing here.
StartHook(t, h) ==
    /\ trigger[t] = "loop" /\ h \in todo[t] /\ ~ RunsInline(t)
    /\ run' = [run EXCEPT ![t][h] = IF SlotsTaken < SlotCap THEN "async" ELSE "inline"]
    /\ todo' = [todo EXCEPT ![t] = @ \ {h}]
    /\ UNCHANGED <<secret, hooked, trigger, wanted, within, delivery, arrived>>

\* The handler returns or panics, which GoSafe recovers.
HookEnds(t, h) ==
    /\ Running(t, h) /\ ~ Busy(t, h)
    /\ run' = [run EXCEPT ![t][h] = "ended"]
    /\ UNCHANGED <<secret, hooked, trigger, wanted, todo, within, delivery, arrived>>

TriggerReturns(t) ==
    /\ trigger[t] = "loop" /\ todo[t] = {} /\ ~ RunsInline(t)
    /\ trigger' = [trigger EXCEPT ![t] = "returned"]
    /\ UNCHANGED <<secret, hooked, wanted, todo, run, within, delivery, arrived>>
-----------------------------------------------------------------------------
\* What doRequest puts on the wire: the signature of the event goes into the
\* event, so the body is not what was signed, and into no header.
SentBody   == IF secret THEN "event with signature" ELSE "event"
SentHeader == [hmacOf |-> "nothing"]
SignPayload(body) == [hmacOf |-> body]
VerifySignature(body, signature) == signature = SignPayload(body)

\* Handle's checks before the event is triggered.
Accepts(body, signature) == ~ secret \/ VerifySignature(body, signature)

DeliveryGoes(from, to) ==
    /\ delivery.at = from
    /\ delivery' = [delivery EXCEPT !.at = to]

\* The first attempt, or another after a failure of any kind.
SendWebhook ==
    /\ \/ delivery.at = "idle"
       \/ delivery.at \in {"failed", "unauthorized"} /\ delivery.tries <= HookRetries
    /\ delivery' = [at |-> "sent", tries |-> delivery.tries + 1]
    /\ arrived' = 0
    /\ UNCHANGED <<secret, hooked, trigger, wanted, todo, run, within>>

HandleWebhook(t) ==
    /\ Accepts(SentBody, SentHeader)
    /\ BeginTrigger(t, <<>>)
    /\ DeliveryGoes("sent", "served")
    /\ arrived' = t
    /\ UNCHANGED <<secret, hooked, run>>

\* 401.
RefuseWebhook ==
    /\ ~ Accepts(SentBody, SentHeader)
    /\ DeliveryGoes("sent", "unauthorized")
    /\ UNCHANGED <<secret, hooked, trigger, wanted, todo, run, within, arrived>>

\* A request of another program that signs its body: 200 after its trigger.
HandleForeign(t, body) == Accepts(body, SignPayload(body)) /\ CallTrigger(t)

\* Request or response is lost, or times out; the receiver goes on with it.
WebhookLost ==
    /\ \E from \in {"sent", "served"} : DeliveryGoes(from, "failed")
    /\ UNCHANGED <<secret, hooked, trigger, wanted, todo, run, within, arrived>>

\* The 200 is written after Trigger has returned.
WebhookAnswered ==
    /\ arrived # 0 => trigger[arrived] = "returned"
    /\ DeliveryGoes("served", "ok")
    /\ UNCHANGED <<secret, hooked, trigger, wanted, todo, run, within, arrived>>

\* No attempt left, or the context ended during RetryDelay.
SendGivesUp ==
    /\ \E from \in {"failed", "unauthorized"} : DeliveryGoes(from, "error")
    /\ UNCHANGED <<secret, hooked, trigger, wanted, todo, run, within, arrived>>

WebhookNext ==
    \/ \E h \in Hooks : Register(h)
    \/ \E t \in Triggers :
        \/ CallTrigger(t) \/ TriggerReturns(t)
        \/ HandleWebhook(t) \/ HandleForeign(t, "event")
        \/ \E h \in Hooks : \/ StartHook(t, h) \/ HookEnds(t, h)
                            \/ \E u \in Triggers : Recurse(t, h, u)
    \/ SendWebhook \/ RefuseWebhook \/ WebhookLost \/ WebhookAnswered \/ SendGivesUp

\* The runtime runs what is ready, and a handler that does not wait for a
\* trigger of its own returns.
WebhookFairness ==
    \A t \in Triggers :
        /\ WF_webhookVars(TriggerReturns(t))
        /\ \A h \in Hooks : WF_webhookVars(StartHook(t, h)) /\ WF_webhookVars(HookEnds(t, h))

WebhookSpec == WebhookInit /\ [][WebhookNext]_webhookVars /\ WebhookFairness
-----------------------------------------------------------------------------
\* Trigger returns also when it is called from a handler and every slot is
\* taken by handlers that call it themselves (handler.go:105).
TriggersReturn ==
    \A t \in Triggers : trigger[t] = "loop" ~> trigger[t] = "returned"

\* Nothing is lost on the way: when Trigger has returned every handler that
\* was registered when it was called has run or runs, a full semaphore or not,
\* and when Send reports success the receiver's Trigger has returned
\* (handler.go:107, 157, 268).
NothingUndelivered ==
    /\ \A t \in Triggers : trigger[t] = "returned" => \A h \in wanted[t] : run[t][h] # "no"
    /\ delivery.at = "ok" => arrived # 0 /\ trigger[arrived] = "returned"

=============================================================================
