----------------------------- MODULE Submissions -----------------------------
(***************************************************************************)
(* What an account signs and sends, either to the sequencer's front door   *)
(* (feed/http.rs submit) or to the separate inbox (inbox.rs submit), and   *)
(* the rules both services share (inbox.rs).                               *)
(*                                                                         *)
(* A submission is the terms with the account they are for, the nonce that *)
(* names them, the session of the log they are meant for, and the key they *)
(* are signed with.  Only well-formed, well-signed submissions are         *)
(* modelled: a bad one is refused before it reaches any state.             *)
(***************************************************************************)
EXTENDS Naturals, Sequences, FiniteSets

CONSTANTS Submissions   \* the submissions that clients may sign and send

\* Keys, nonces and quantities have a width, so there are finitely many.
ASSUME FinitelyManySubmissions == IsFiniteSet(Submissions)
ASSUME SubmissionsNameSessions == \A s \in Submissions : s.session \in Nat \ {0}

\* The log's content for a submission: neither the key nor the session is in
\* the message.
MessageFrom(s) == [account |-> s.account, nonce |-> s.nonce, terms |-> s.terms]

\* A file of pinned keys is a set of [account, key]: the key an account first
\* submitted under.  Each service keeps its own.
IsPinned(pins, s) == \E p \in pins : p.account = s.account

KeyFits(pins, s) == \A p \in pins : p.account = s.account => p.key = s.key

AfterPin(pins, s) == pins \cup {[account |-> s.account, key |-> s.key]}
=============================================================================
