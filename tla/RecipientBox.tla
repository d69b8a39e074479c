---------------------------- MODULE RecipientBox ----------------------------
(***************************************************************************)
(* The recipient's address in the two send forms and the badge under it.   *)
(*                                                                         *)
(* The address is looked up when the field is left (in the confidential    *)
(* form also when something is pasted): the confidential form asks the     *)
(* chain, the shielded form the local copy of the pool's registry.  The    *)
(* answers arrive when they do and go into the badge, whatever address is  *)
(* in the field by then.                                                   *)
(***************************************************************************)
EXTENDS Integers, Sequences

CONSTANTS
  Recipients,   \* contract addresses of other wallets
  Account,      \* an address of another kind, or no address
  Blank,        \* the empty field
  MaxLookups    \* bound: lookups

ASSUME RecipientAssumption ==
  Account \notin Recipients /\ Blank \notin Recipients /\ Account # Blank

VARIABLES
  screen,      \* which of the forms it is
  registered,  \* recipients that can receive
  known,       \* of those, the ones in the local registry
  box,         \* the address in the field
  badge,       \* what is said about it
  lookup,      \* lookup -> [of, open]
  mixed        \* history: the badge may be about another text than the field's

boxVars == <<screen, registered, known, box, badge, lookup, mixed>>

Waiting == \E i \in DOMAIN lookup : lookup[i].open

\* A lookup is open that is not of what the field holds.
Astray(lookups, text) == \E i \in DOMAIN lookups : lookups[i].open /\ lookups[i].of # text

BoxInit ==
  /\ screen \in {"confidential", "shielded"}
  /\ registered \in SUBSET Recipients
  /\ known \in SUBSET registered
  /\ box = Blank
  /\ badge = "idle"
  /\ lookup = <<>>
  /\ mixed = FALSE

\* A recipient registers; the registry learns of it by a sync.
Register(recipient) ==
  /\ registered' = registered \cup {recipient}
  /\ UNCHANGED <<screen, known, box, badge, lookup, mixed>>

SyncRegistry ==
  /\ known' = registered
  /\ UNCHANGED <<screen, registered, box, badge, lookup, mixed>>

KeepsBadge == badge   \* a mutation of the next
\* The shielded form takes the badge away with every edit, the confidential form
\* leaves it until the field is left.
EditedBadge == IF screen = "shielded" THEN "idle" ELSE badge

Edit(address) ==
  /\ address # box
  /\ box' = address
  /\ badge' = EditedBadge
  /\ mixed' = (Astray(lookup, address) \/ (screen = "confidential" /\ badge = "ready"))
  /\ UNCHANGED <<screen, registered, known, lookup>>

----------------------------------------------------------------------------
(* checkRecipient *)

\* An empty field, or an address of the wrong kind, needs no lookup.
SaidAtOnce(address) ==
  /\ badge' = IF address = Blank THEN "idle" ELSE "invalid"
  /\ UNCHANGED lookup

AsksFor(address) ==
  /\ Len(lookup) < MaxLookups
  /\ badge' = "checking"
  /\ lookup' = Append(lookup, [of |-> address, open |-> TRUE])

CheckRecipient(address) ==
  /\ IF address \in Recipients THEN AsksFor(address) ELSE SaidAtOnce(address)
  /\ mixed' = Astray(lookup', box')

LeaveField ==
  /\ UNCHANGED <<screen, registered, known, box>>
  /\ CheckRecipient(box)

\* What a paste leaves in the field: the pasted text, or that beside the text of
\* before, which is no address if the pasted text was one.
PastedInto(text) ==
  IF text \in Recipients THEN {text, Account} ELSE Recipients \cup {Account, text}

\* The pasted text is looked up, whatever the field then holds.
Paste(text) ==
  /\ screen = "confidential"
  /\ box' \in PastedInto(text)
  /\ CheckRecipient(text)
  /\ UNCHANGED <<screen, registered, known>>

\* What the badge says when a lookup is answered.
Answer(i, says) ==
  /\ lookup[i].open
  /\ lookup' = [lookup EXCEPT ![i].open = FALSE]
  /\ badge' = says
  /\ UNCHANGED <<screen, registered, known, box, mixed>>

\* confidentialBalance takes an error for an account that is not registered.
ChainAnswers(i) ==
  /\ screen = "confidential"
  /\ \/ lookup[i].of \in registered /\ Answer(i, "ready")
     \/ Answer(i, "unregistered")

RegistryAnswers(i) ==
  /\ screen = "shielded"
  /\ Answer(i, IF lookup[i].of \in known THEN "ready" ELSE "unregistered")

RegistryFails(i) == screen = "shielded" /\ Answer(i, "invalid")

\* A shielded send that has gone through clears the field.
Sent ==
  /\ screen = "shielded"
  /\ badge = "ready"
  /\ box' = Blank
  /\ badge' = "idle"
  /\ mixed' = Astray(lookup, Blank)
  /\ UNCHANGED <<screen, registered, known, lookup>>

BoxNext ==
  \/ \E r \in Recipients : Register(r)
  \/ SyncRegistry
  \/ \E a \in Recipients \cup {Account, Blank} : Edit(a) \/ Paste(a)
  \/ LeaveField
  \/ \E i \in DOMAIN lookup : ChainAnswers(i) \/ RegistryAnswers(i) \/ RegistryFails(i)
  \/ Sent

BoxSpec == BoxInit /\ [][BoxNext]_boxVars

----------------------------------------------------------------------------
\* A badge that says "ready" is about a recipient that can receive, in any order
\* of the answers to any number of lookups of the address in the field, and one
\* that says "checking" waits for an answer.  (Not so once the field has been
\* edited, pasted into or cleared while a lookup of another text was open, or
\* edited under a "ready" in the confidential form: until the field is left with
\* no such lookup open, the badge may be about the text of before.)
BadgeHonest ==
  /\ badge = "ready" => mixed \/ box \in registered
  /\ badge = "checking" => Waiting
=============================================================================
