------------------------------ MODULE BallotBox ------------------------------
(***************************************************************************)
(* What CGS promises of the user documents: a box per document in which at *)
(* most one ballot is held at a time, until one ballot has the consent of  *)
(* all its approvers.  That decides the document for good, and afterwards  *)
(* each of its approvers may object to an option and lift its own          *)
(* objection.  There are no proposal ids and no states of proposals here.  *)
(***************************************************************************)
CONSTANTS Documents, Contents, Options, Callers

VARIABLES
    box,        \* per document, the ballot that is held, a set of at most one
    decision,   \* per document, what was decided, a set of at most one
    objections  \* per document and option, the approvers that object

boxVars == <<box, decision, objections>>

Ballot(content, approvers, consents) ==
    [document |-> content, approvers |-> approvers, consents |-> consents]

NewBallots ==
    [document: Contents, approvers: (SUBSET Callers) \ {{}}, consents: {{}}]

BoxInit ==
    /\ box = [d \in Documents |-> {}]
    /\ decision = [d \in Documents |-> {}]
    /\ objections = [d \in Documents |-> [o \in Options |-> {}]]

\* A ballot needs approvers, and is held only where nothing is decided or being decided.
Open(d) ==
    /\ box[d] = {} /\ decision[d] = {}
    /\ \E b \in box'[d] :
         /\ b \in NewBallots
         /\ box' = [box EXCEPT ![d] = {b}]
    /\ UNCHANGED <<decision, objections>>

Consent(d, b, c) ==
    /\ c \in b.approvers \ b.consents
    /\ b.consents \cup {c} # b.approvers
    /\ box' = [box EXCEPT ![d] = {Ballot(b.document, b.approvers, b.consents \cup {c})}]
    /\ UNCHANGED <<decision, objections>>

\* The last consent decides.
Decide(d, b, c) ==
    /\ c \in b.approvers \ b.consents
    /\ b.consents \cup {c} = b.approvers
    /\ box' = [box EXCEPT ![d] = {}]
    /\ decision' = [decision EXCEPT ![d] = {[document |-> b.document, approvers |-> b.approvers]}]
    /\ UNCHANGED objections

\* The ballot is withdrawn, or an approver rejects it.
Close(d, b) ==
    /\ box' = [box EXCEPT ![d] = {}]
    /\ UNCHANGED <<decision, objections>>

Object(d, o, c) ==
    /\ objections' = [objections EXCEPT ![d][o] = @ \cup {c}]
    /\ UNCHANGED <<box, decision>>

Lift(d, o, c) ==
    /\ objections' = [objections EXCEPT ![d][o] = @ \ {c}]
    /\ UNCHANGED <<box, decision>>

BoxNext ==
    \E d \in Documents :
      \/ Open(d)
      \/ \E b \in box[d] : Close(d, b) \/ \E c \in Callers : Consent(d, b, c) \/ Decide(d, b, c)
      \/ \E x \in decision[d] : \E c \in x.approvers, o \in Options :
           Object(d, o, c) \/ Lift(d, o, c)

BoxSpec == BoxInit /\ [][BoxNext]_boxVars
=============================================================================
