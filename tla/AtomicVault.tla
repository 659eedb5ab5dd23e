----------------------------- MODULE AtomicVault -----------------------------
(***************************************************************************)
(* What the vault promises (nrvault/src/store.rs, atomic.rs): at any       *)
(* moment there is no vault or one whole vault; an edit adds to it, a      *)
(* rotation changes its passphrase and nothing else, and what was          *)
(* acknowledged is in it until it is destroyed.                            *)
(***************************************************************************)
EXTENDS Naturals

CONSTANTS MaxEdits, MaxPass, None

VARIABLES
    vault,   \* None or [pass, body]: the passphrase that opens it, its edits
    acked    \* the edits whose commands returned Ok

Edits == 1..MaxEdits
Pass == 1..MaxPass
Envelope == [pass: Pass, body: SUBSET Edits]

Init == vault = None /\ acked = {}

Create ==
    /\ vault = None
    /\ \E p \in Pass: vault' = [pass |-> p, body |-> {}]
    /\ UNCHANGED acked

Edit ==
    /\ vault # None
    /\ \E b \in SUBSET Edits: vault.body \subseteq b /\ vault' = [vault EXCEPT !.body = b]
    /\ UNCHANGED acked

Rotate ==
    /\ vault # None
    /\ \E p \in Pass: vault' = [vault EXCEPT !.pass = p]
    /\ UNCHANGED acked

Acknowledge ==
    /\ vault # None
    /\ \E e \in vault.body: acked' = acked \cup {e}
    /\ UNCHANGED vault

Erase == vault' = None /\ acked' = {}

Next == Create \/ Edit \/ Rotate \/ Acknowledge \/ Erase

Spec == Init /\ [][Next]_<<vault, acked>>
=============================================================================
