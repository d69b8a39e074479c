------------------------------ MODULE MCParts ------------------------------
(***************************************************************************)
(* Ten small parts of the system in one run: the Merkle tree of the pool,  *)
(* the wallet session, the shielded rail, the shielded page, the           *)
(* confidential tab, its activity list, the recipient's field, the paged   *)
(* reads, the archive's dump and the selective disclosure.  They share no  *)
(* state: the initial state chooses the part that is live, the others stay *)
(* as they began, and the states are the sum of the parts' states.         *)
(*                                                                         *)
(* A hash is the pair of what it hashes, so it never collides; a leaf is a *)
(* one-element tuple, the absent leaf and the field's zero are tuples of   *)
(* other lengths.                                                          *)
(***************************************************************************)
EXTENDS MerkleTreeWithHistory, WalletSession, ShieldedRail, ShieldedPage, PagedReads,
        Disclosure, RecipientBox, ConfidentialTab, ActivityFeed, ArchiveDump, TLC

VARIABLE live

PairHash(l, r) == <<l, r>>
TwoLeaves  == {<<1>>, <<2>>}
AbsentLeaf == <<>>
NullRoot   == <<0, 0, 0>>

TwoPlaces == {<<1, 1>>, <<1, 2>>}
PoolAndRegistry == <<"pool", "registry">>

Alike == Permutations(Tabs) \cup Permutations(Wallets)

\* A part that is not live, in the first of its initial states.
SessionAsleep ==
  /\ deployed = {} /\ files = {} /\ marked = {} /\ slot = NoBundle
  /\ session = [t \in Tabs |-> FreshSession] /\ job = [t \in Tabs |-> NoJob]
BoxAsleep ==
  /\ screen = "shielded" /\ registered = {} /\ known = {} /\ box = Blank
  /\ badge = "idle" /\ lookup = <<>> /\ mixed = FALSE
FeedAsleep ==
  /\ kind = [r \in Rows |-> "deposit"] /\ entries = {} /\ attempts = {}
  /\ feed = [shown |-> {}, loading |-> TRUE, failed |-> FALSE]
  /\ line = [r \in Rows |-> FreshRow(r)] /\ ended = [r \in Rows |-> "none"]
ReadsAsleep == head = 0 /\ rows = {} /\ late = {} /\ reader = NewReader("api")

PartsInit ==
  /\ Init /\ RailInit /\ PageInit /\ TabInit /\ DumpInit /\ DisclosureInit
  /\ live \in {"tree", "session", "rail", "page", "tab", "feed", "box", "reads", "dump",
              "disclosure"}
  /\ IF live = "session" THEN SessionInit ELSE SessionAsleep
  /\ IF live = "box" THEN BoxInit ELSE BoxAsleep
  /\ IF live = "feed" THEN FeedInit ELSE FeedAsleep
  /\ IF live = "reads" THEN ReadsInit ELSE ReadsAsleep

PartsNext ==
  /\ UNCHANGED live
  /\ IF live = "tree" THEN Next ELSE UNCHANGED vars
  /\ IF live = "session" THEN SessionNext ELSE UNCHANGED sessionVars
  /\ IF live = "rail" THEN RailNext ELSE UNCHANGED railVars
  /\ IF live = "page" THEN PageNext ELSE UNCHANGED pageVars
  /\ IF live = "tab" THEN TabNext ELSE UNCHANGED tabVars
  /\ IF live = "box" THEN BoxNext ELSE UNCHANGED boxVars
  /\ IF live = "reads" THEN ReadsNext ELSE UNCHANGED readsVars
  /\ IF live = "feed" THEN FeedNext ELSE UNCHANGED feedVars
  /\ IF live = "dump" THEN DumpNext ELSE UNCHANGED dumpVars
  /\ IF live = "disclosure" THEN DisclosureNext ELSE UNCHANGED disclosureVars

partsVars == <<live, vars, sessionVars, railVars, pageVars, tabVars, feedVars, boxVars,
               readsVars, dumpVars, disclosureVars>>

PartsSpec == PartsInit /\ [][PartsNext]_partsVars

\* The types of the parts that state them.
PartsTypeOK == TypeOK /\ SessionTypeOK /\ RailTypeOK
=============================================================================
