------------------------------- MODULE MCIntake -------------------------------
(* A sequencer, its inbox and their clients.                                *)
EXTENDS IntakeProperties

CONSTANTS alice, bob, op, ak, bk, x, y

Signed(account, key, nonce, terms, session) ==
    [account |-> account, key |-> key, nonce |-> nonce, terms |-> terms, session |-> session]

\* One nonce for two terms, a later session, and another key for an account.
MCSubmissions ==
    {Signed(alice, ak, 1, x, 1), Signed(alice, ak, 1, y, 1),
     Signed(bob, bk, 1, x, 1), Signed(bob, ak, 2, x, 2)}

\* For an inbox address that answers with any page.
MCTwoSubmissions == {Signed(alice, ak, n, x, 1) : n \in 1..2}

MCFirstSession == {s \in MCSubmissions : s.session = 1}

MCOpenings == {Signed(op, op, 1, x, session) : session \in 1..2}

\* With one more after the opening: more nonces than there is room for.
MCOperatorMessages == MCOpenings \cup {Signed(op, op, 2, x, 1)}

MCGenerated == [account |-> op, nonce |-> 0, terms |-> y]
=============================================================================
