---------------------------- MODULE MailExchange ----------------------------
(***************************************************************************)
(* What do_one_mailop and the mailslots, maildrops and mailqueues promise  *)
(* their callers, whatever queues they keep.  A call offers a list of      *)
(* alternatives and exactly one of them happens:                           *)
(*                                                                         *)
(*   - a put and a take of one mailslot happen together, in two threads;   *)
(*   - a maildrop holds one value, a mailqueue is first in, first out;     *)
(*   - a nack is sent when, and only when, the call it belongs to has been *)
(*     answered by an alternative that the nack does not cover;            *)
(*   - a thread begins to wait, or a nonblocking call gives up, only when  *)
(*     none of its alternatives can happen.                                *)
(*                                                                         *)
(* A message is named by the thread that sent it.                          *)
(***************************************************************************)
EXTENDS Naturals, Sequences

CONSTANTS Threads, Slots, Boxes, Mailqueues, Nacks, Menus, Null

VARIABLES
    pending,    \* the call of each thread that has not been answered
    waiting,    \* the threads that have begun to wait
    result,     \* what the last call of each thread returned
    box,        \* the value in each maildrop
    mail,       \* the messages in each mailqueue
    sent        \* the nacks that have been sent

vars == <<pending, waiting, result, box, mail, sent>>

ElementsOf(seq) == {seq[i] : i \in DOMAIN seq}

Alts(t) == IF pending[t] = Null THEN {} ELSE ElementsOf(pending[t].alts)

\* The nacks sent when t's call is answered by its alternative a.
Unchosen(t, a) == ElementsOf(pending[t].nacks) \ a.nacks

Matches(a, b) == a.on \in Slots /\ b.on = a.on /\ {a.op, b.op} = {"put", "take"}

CanHappen(t, a) ==
    \/ \E u \in waiting \ {t} : \E b \in Alts(u) : Matches(a, b)
    \/ a.on \in Boxes /\ box[a.on] # Null
    \/ a.on \in Mailqueues /\ mail[a.on] # <<>>
    \/ a.on \in sent

Init ==
    /\ pending = [t \in Threads |-> Null]
    /\ waiting = {}
    /\ result = [t \in Threads |-> Null]
    /\ box = [d \in Boxes |-> Null]
    /\ mail = [q \in Mailqueues |-> <<>>]
    /\ sent = {}

Offer(t, m) ==
    /\ pending[t] = Null
    /\ pending' = [pending EXCEPT ![t] = m]
    /\ result' = [result EXCEPT ![t] = Null]
    /\ UNCHANGED <<waiting, box, mail, sent>>

Wait(t) ==
    /\ pending[t] # Null /\ t \notin waiting
    /\ pending[t].call # "nonblocking"
    /\ \A a \in Alts(t) : ~CanHappen(t, a)
    /\ waiting' = waiting \cup {t}
    /\ UNCHANGED <<pending, result, box, mail, sent>>

GiveUp(t) ==
    /\ pending[t] # Null /\ pending[t].call = "nonblocking"
    /\ \A a \in Alts(t) : ~CanHappen(t, a)
    /\ pending' = [pending EXCEPT ![t] = Null]
    /\ UNCHANGED <<waiting, result, box, mail, sent>>

\* t arrives and meets u, who waits.
Meet(t, u) ==
    \E a \in Alts(t), b \in Alts(u) :
        /\ Matches(a, b)
        /\ t \notin waiting /\ u \in waiting
        /\ pending' = [pending EXCEPT ![t] = Null, ![u] = Null]
        /\ waiting' = waiting \ {u}
        /\ result' = IF a.op = "take" THEN [result EXCEPT ![t] = u]
                                      ELSE [result EXCEPT ![u] = t]
        /\ sent' = sent \cup Unchosen(t, a) \cup Unchosen(u, b)
        /\ UNCHANGED <<box, mail>>

Answer(t, a, msg) ==
    /\ pending' = [pending EXCEPT ![t] = Null]
    /\ waiting' = waiting \ {t}
    /\ result' = [result EXCEPT ![t] = msg]
    /\ sent' = sent \cup Unchosen(t, a)

UseBox(t) ==
    \E a \in Alts(t) :
        /\ a.on \in Boxes /\ box[a.on] # Null
        /\ Answer(t, a, box[a.on])
        /\ box' = [box EXCEPT ![a.on] = CASE a.op = "take" -> Null
                                          [] a.op = "swap" -> t
                                          [] a.op = "peek" -> @]
        /\ UNCHANGED mail

TakeMail(t) ==
    \E a \in Alts(t) :
        /\ a.on \in Mailqueues /\ mail[a.on] # <<>>
        /\ Answer(t, a, Head(mail[a.on]))
        /\ mail' = [mail EXCEPT ![a.on] = Tail(@)]
        /\ UNCHANGED box

SeeNack(t) ==
    \E a \in Alts(t) :
        /\ a.on \in sent
        /\ Answer(t, a, Null)
        /\ UNCHANGED <<box, mail>>

PutInBox(t, d) ==
    /\ pending[t] = Null /\ box[d] = Null
    /\ box' = [box EXCEPT ![d] = t]
    /\ UNCHANGED <<pending, waiting, result, mail, sent>>

PutInMail(t, q) ==
    /\ pending[t] = Null
    /\ mail' = [mail EXCEPT ![q] = Append(@, t)]
    /\ UNCHANGED <<pending, waiting, result, box, sent>>

\* The queue is empty and u waits for it: the message goes straight to u.
PassMail(t, u, q) ==
    /\ pending[t] = Null /\ mail[q] = <<>>
    /\ \E a \in Alts(u) : u \in waiting /\ a.on = q /\ Answer(u, a, t)
    /\ UNCHANGED <<box, mail>>

Next ==
    \E t \in Threads :
        \/ \E m \in Menus : Offer(t, m)
        \/ Wait(t)
        \/ GiveUp(t)
        \/ \E u \in Threads : Meet(t, u)
        \/ UseBox(t)
        \/ TakeMail(t)
        \/ SeeNack(t)
        \/ \E d \in Boxes : PutInBox(t, d)
        \/ \E q \in Mailqueues :
             PutInMail(t, q) \/ \E u \in Threads : PassMail(t, u, q)

Spec == Init /\ [][Next]_vars
=============================================================================
