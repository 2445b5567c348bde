----------------------------- MODULE MCMailops ------------------------------
EXTENDS Mailops, TLC

CONSTANTS s1, s2, d1, o1, q1, n1, n2

Alt(op, on) == [op |-> op, on |-> on, nacks |-> {}]
Covered(op, on, cs) == [op |-> op, on |-> on, nacks |-> cs]

Plain(a) == [call |-> "plain", alts |-> <<a>>, nacks |-> <<>>]
Nonblocking(a) == [call |-> "nonblocking", alts |-> <<a>>, nacks |-> <<>>]
Mailop(as) == [call |-> "mailop", alts |-> as, nacks |-> <<>>]
WithNacks(as, cs) == [call |-> "mailop", alts |-> as, nacks |-> cs]

\* Choices between two mailslots, with plain and nonblocking calls on one.
Choices ==
    { Plain(Alt("put", s1)),
      Nonblocking(Alt("take", s1)),
      Mailop(<<Alt("put", s2), Alt("take", s1)>>),
      Mailop(<<Alt("take", s2), Alt("put", s1)>>) }

\* A request that may be dropped, and a server that is told: the server waits
\* for the nack of the request, and answers only what that nack covers.
Requests ==
    { WithNacks(<<Covered("take", s2, {n1}), Alt("put", s1)>>, <<n1>>),
      Mailop(<<Alt("wait", n1), Alt("put", s2)>>),
      Nonblocking(Alt("take", s1)),
      Plain(Alt("take", s1)) }

\* The server has a server of its own: one nack leads to another.
Cascade ==
    { WithNacks(<<Covered("take", s2, {n1}), Alt("peek", o1)>>, <<n1>>),
      WithNacks(<<Alt("wait", n1), Covered("take", q1, {n2})>>, <<n2>>),
      Mailop(<<Alt("wait", n2), Alt("wait", n1), Alt("take", q1)>>) }

\* All that can be done with a maildrop and a oneshot.
Drops ==
    { Plain(Alt("take", d1)),
      Nonblocking(Alt("take", d1)),
      Mailop(<<Alt("peek", d1), Alt("swap", d1)>>),
      Plain(Alt("peek", o1)),
      WithNacks(<<Covered("take", d1, {n1}), Alt("peek", d1)>>, <<n1>>),
      Mailop(<<Alt("wait", n1)>>) }

PassingPrograms == {Choices, Requests, Cascade, Drops}

\* A client asks for two things and drops one of the requests; one server
\* offers to answer either, until it is told that the client has lost interest.
Server ==
    { WithNacks(<<Covered("take", s1, {n1}), Covered("take", s2, {n2})>>,
                <<n1, n2>>),
      Mailop(<<Alt("put", s1), Alt("put", s2), Alt("wait", n1),
               Alt("wait", n2)>>) }

ServerPrograms == {Server}

\* The passing programs are such that the theorems apply; of the server's
\* programs the one on partners does not hold.
ASSUME TheoremsApply ==
    /\ PartnersAwaitNoNack(UNION Programs) <=> Programs = PassingPrograms
    /\ Programs = PassingPrograms => MaildropsApart(UNION Programs)

Symmetry == Permutations(Threads)
=============================================================================
