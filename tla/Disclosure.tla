----------------------------- MODULE Disclosure -----------------------------
(***************************************************************************)
(* Selective disclosure of a confidential transfer.                        *)
(*                                                                         *)
(* A verifier issues a request, its key and a fresh nonce.  A party to a   *)
(* transfer answers with a bundle: the circuit, a reference to the event,  *)
(* a proof and the amount sealed to the verifier's key under the nonce.    *)
(* The verifier finds the event on chain, by the RPC while that keeps it,  *)
(* else by an indexer that may lag, takes every other public input from    *)
(* the chain and from its own request, and checks the proof against them.  *)
(* Bundles travel out of band: they may reach the wrong verifier, answer   *)
(* an old request, arrive twice or carry the wrong reference.              *)
(*                                                                         *)
(* A proof is the public inputs it was made for; it verifies against those *)
(* and no others.  A viewing key is named by its account, a request by its *)
(* nonce and the verifier whose key it holds.                              *)
(***************************************************************************)
EXTENDS Integers, Sequences, FiniteSets

CONSTANTS
  Accounts,     \* accounts with a confidential record
  Amounts,      \* amounts that are transferred
  Verifiers,
  MaxEvents,    \* bound: transfers
  MaxNonces,    \* bound: requests
  MaxBundles    \* bound: bundles

VARIABLES
  events,      \* the transfers on chain, in order: [from, to, amount, sigma]
  expired,     \* how many of them the RPC no longer keeps
  indexed,     \* how many of them the indexer has
  requests,    \* nonce -> the verifier that issued it
  bundles,     \* bundles that have been made: [circuit, ref, proof, sealed]
  proven,      \* history: what each holder meant to disclose
  accepted     \* history: the last disclosure a verifier took for true

disclosureVars == <<events, expired, indexed, requests, bundles, proven, accepted>>

Events == DOMAIN events
Nonces == DOMAIN requests

DisclosureInit ==
  /\ events = <<>>
  /\ expired = 0 /\ indexed = 0
  /\ requests = <<>>
  /\ bundles = {} /\ proven = {} /\ accepted = {}

----------------------------------------------------------------------------
(* The chain and the two sources of events. *)

Transfer(from, to, amount) ==
  /\ Len(events) < MaxEvents
  /\ events' = Append(events, [from |-> from, to |-> to, amount |-> amount,
                               sigma |-> Len(events) + 1])
  /\ UNCHANGED <<expired, indexed, requests, bundles, proven, accepted>>

Expire ==
  /\ expired < Len(events)
  /\ expired' = expired + 1
  /\ UNCHANGED <<events, indexed, requests, bundles, proven, accepted>>

IndexNext ==
  /\ indexed < Len(events)
  /\ indexed' = indexed + 1
  /\ UNCHANGED <<events, expired, requests, bundles, proven, accepted>>

\* The RPC has the ledgers of its retention window, the indexer those it has
\* reached.
RpcHas(ref) == ref \in Events /\ ref > expired
IndexerHas(ref) == ref \in 1 .. indexed

\* hybridResolveEventRef: the RPC, then the indexer.
Resolves(ref) == RpcHas(ref) \/ IndexerHas(ref)

----------------------------------------------------------------------------
(* The holder *)

NewRequest(verifier) ==
  /\ Len(requests) < MaxNonces
  /\ requests' = Append(requests, verifier)
  /\ UNCHANGED <<events, expired, indexed, bundles, proven, accepted>>

\* The account whose key opens the event in this circuit.
Discloser(circuit, event) == IF circuit = "disclose_sender" THEN event.from ELSE event.to

UnboundInputs(circuit, event, verifier, nonce, sealed) ==
  [circuit |-> circuit, pvkA |-> Discloser(circuit, event), event |-> event,
   pvkB |-> event.to, pR |-> verifier, sealed |-> sealed]   \* a mutation of the next: no nonce
AnyEventInputs(circuit, event, verifier, nonce, sealed) ==
  [circuit |-> circuit, pR |-> verifier, nonce |-> nonce, sealed |-> sealed]   \* and another: no event

\* The public inputs of a disclosure: the account's key, the event's ciphertext
\* (as the event, for no two transfers share one), in disclose_sender the
\* recipient's key, the request and the sealed amount; and the circuit, by its
\* verification key.
PublicInputs(circuit, event, verifier, nonce, sealed) ==
  [circuit |-> circuit, pvkA |-> Discloser(circuit, event), event |-> event,
   pvkB |-> IF circuit = "disclose_sender" THEN event.to ELSE "none",
   pR |-> verifier, nonce |-> nonce, sealed |-> sealed]

\* The amount sealed to a verifier's key under a nonce.
Seal(amount, verifier, nonce) == [amount |-> amount, pR |-> verifier, nonce |-> nonce]

\* The answer: the circuit, the reference, the proof and the sealed amount; and
\* what its account meant by it.
Answers(account, circuit, ref, nonce) ==
  LET event == events[ref]
      sealed == Seal(event.amount, requests[nonce], nonce)
  IN
  /\ Cardinality(bundles) < MaxBundles
  /\ bundles' = bundles \cup
       {[circuit |-> circuit, ref |-> ref, sealed |-> sealed,
         proof |-> PublicInputs(circuit, event, requests[nonce], nonce, sealed)]}
  /\ proven' = proven \cup {[account |-> account, circuit |-> circuit,
                             amount |-> event.amount, nonce |-> nonce]}
  /\ UNCHANGED <<events, expired, indexed, requests, accepted>>

\* The witness builders: the recipient's key opens the amount to a value in
\* range, the sender's key gives the ephemeral scalar of the event again.
OpensAsRecipient(account, event) == account = event.to
OpensAsSender(account, event) == account = event.from

ProveRecipient(account, ref, nonce) ==
  /\ OpensAsRecipient(account, events[ref])
  /\ Answers(account, "disclose_recipient", ref, nonce)

ProveSender(account, ref, nonce) ==
  /\ OpensAsSender(account, events[ref])
  /\ Answers(account, "disclose_sender", ref, nonce)

----------------------------------------------------------------------------
(* The verifier *)

\* verifyDisclosure of a bundle that names the event ref, against a request of
\* the verifier's own; it decrypts with its own key and nonce.
Verify(bundle, ref, nonce) ==
  LET event == events[ref]
      verifier == requests[nonce]
  IN
  /\ Resolves(ref)
  /\ bundle.proof = PublicInputs(bundle.circuit, event, verifier, nonce, bundle.sealed)
  /\ accepted' =
       {[account |-> Discloser(bundle.circuit, event), circuit |-> bundle.circuit,
         ref |-> ref, amount |-> bundle.sealed.amount, nonce |-> nonce]}
  /\ UNCHANGED <<events, expired, indexed, requests, bundles, proven>>

DisclosureNext ==
  \/ \E from, to \in Accounts : \E amount \in Amounts : Transfer(from, to, amount)
  \/ Expire
  \/ IndexNext
  \/ \E verifier \in Verifiers : NewRequest(verifier)
  \/ \E account \in Accounts : \E ref \in Events : \E nonce \in Nonces :
       ProveRecipient(account, ref, nonce) \/ ProveSender(account, ref, nonce)
  \/ \E bundle \in bundles : \E ref \in Events : \E nonce \in Nonces : Verify(bundle, ref, nonce)

DisclosureSpec == DisclosureInit /\ [][DisclosureNext]_disclosureVars

----------------------------------------------------------------------------
\* What a verifier accepts is a transfer on chain and its true amount: the
\* amount a bundle seals cannot be carried to another transfer's reference.
AcceptedIsTrue ==
  \A a \in accepted : a.ref \in Events /\ a.amount = events[a.ref].amount

\* What a verifier accepts was disclosed by the account itself, to this
\* verifier, in answer to this very request.
AcceptedWasMeant ==
  \A a \in accepted :
    [account |-> a.account, circuit |-> a.circuit, amount |-> a.amount, nonce |-> a.nonce]
      \in proven
=============================================================================
