------------------------------- MODULE Approval -------------------------------
(***************************************************************************)
(* What a confirmation promises to whoever asked for it, without runs,     *)
(* threads or timers. One request is decided at a time, once, and it is    *)
(* approved only for a signature over its own challenge, made with the key *)
(* that was enrolled with that challenge, before the challenge died.       *)
(***************************************************************************)
CONSTANTS
  Challenges,      \* nonces (a name is used again once it is forgotten)
  Keys,
  None

VARIABLES
  decision,        \* "idle", "asked", "open", "approved", "rejected", "expired"
  challenge,       \* the challenge of the request, or None before one is issued
  key,             \* the key enrolled with the last challenge
  signatures,      \* pairs <<challenge, key>> for which the key was touched
  clock            \* of the challenge: "none", "running", "due" (the asker has
                   \* been shown 0 s), "dead" (a signature is not accepted)

vars == <<decision, challenge, key, signatures, clock>>

Pending == decision \in {"asked", "open"}

Init ==
  /\ decision = "idle"
  /\ challenge = None
  /\ key = None
  /\ signatures = {}
  /\ clock = "none"

\* A request, once the one before has been decided. Challenges may be forgotten.
Ask ==
  /\ ~Pending
  /\ decision' = "asked"
  /\ challenge' = None
  /\ clock' = "none"
  /\ signatures' \in SUBSET signatures
  /\ UNCHANGED key

Issue(c, k) ==
  /\ decision = "asked"
  /\ decision' = "open"
  /\ challenge' = c
  /\ key' = k
  /\ clock' = "running"
  /\ UNCHANGED signatures

\* A key is touched, for this challenge or for an earlier one.
Sign(c, k) ==
  /\ signatures' = signatures \cup {<<c, k>>}
  /\ UNCHANGED <<decision, challenge, key, clock>>

TimePasses ==
  /\ \/ clock = "running" /\ clock' = "due"
     \/ clock = "due" /\ clock' = "dead"
  /\ UNCHANGED <<decision, challenge, key, signatures>>

Approve ==
  /\ decision = "open"
  /\ <<challenge, key>> \in signatures
  /\ clock # "dead"
  /\ decision' = "approved"
  /\ UNCHANGED <<challenge, key, signatures, clock>>

Reject ==
  /\ Pending
  /\ decision' = "rejected"
  /\ UNCHANGED <<challenge, key, signatures, clock>>

Expire ==
  /\ decision = "open"
  /\ clock # "running"
  /\ decision' = "expired"
  /\ UNCHANGED <<challenge, key, signatures, clock>>

Next ==
  \/ Ask \/ TimePasses \/ Approve \/ Reject \/ Expire
  \/ \E c \in Challenges, k \in Keys : Issue(c, k) \/ Sign(c, k)

Spec == Init /\ [][Next]_vars
=============================================================================
