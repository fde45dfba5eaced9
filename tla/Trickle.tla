-------------------------------- MODULE Trickle --------------------------------
(* What candidate trickling promises, on the cloud and on the edge alike:    *)
(* a local candidate is sent to the remote peer once, and only when a remote *)
(* description is known; or its sending fails and it is dropped.             *)
EXTENDS Sequences, SequencesExt

CONSTANT Candidates

VARIABLES
    described,  \* there is a remote description
    gathered,   \* candidates pion has handed to OnICECandidate
    sent,       \* candidates sent, in order
    dropped     \* candidates whose sending failed

vars == <<described, gathered, sent, dropped>>

Unsettled == gathered \ (ToSet(sent) \cup dropped)

Init ==
    /\ described = FALSE
    /\ gathered = {}
    /\ sent = <<>>
    /\ dropped = {}

Describe ==
    /\ ~described
    /\ described' = TRUE
    /\ UNCHANGED <<gathered, sent, dropped>>

Gather(c) ==
    /\ c \notin gathered
    /\ gathered' = gathered \cup {c}
    /\ UNCHANGED <<described, sent, dropped>>

Send(c) ==
    /\ described
    /\ c \in Unsettled
    /\ sent' = Append(sent, c)
    /\ UNCHANGED <<described, gathered, dropped>>

Drop(D) ==
    /\ described
    /\ D # {} /\ D \subseteq Unsettled
    /\ dropped' = dropped \cup D
    /\ UNCHANGED <<described, gathered, sent>>

Settle(c) == Send(c) \/ \E D \in SUBSET Unsettled : c \in D /\ Drop(D)

Next ==
    \/ Describe
    \/ \E c \in Candidates : Gather(c) \/ Settle(c)

Spec == Init /\ [][Next]_vars

\* No candidate is left behind once there is somebody to send it to.
FairSpec == Spec /\ \A c \in Candidates : WF_vars(Settle(c))
=============================================================================
