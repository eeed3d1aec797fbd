------------------------------- MODULE Notices -------------------------------
(***************************************************************************)
(* apps/notifications: the rows of a company, the sockets and e-mails that *)
(* announce them, and the scan for overdue invoices, which holds no lock   *)
(* and no transaction: looking for a pending reminder, adding one, and     *)
(* going on to the next invoice are steps of their own.                    *)
(***************************************************************************)
EXTENDS Integers, Sequences, SequencesExt, FiniteSets

CONSTANTS Users, Everyone,                      \* recipients; Everyone is null
          Scanners

VARIABLES notices,                              \* the rows in the order of their creation
          online,                               \* users with an open socket
          heard,                                \* <<row, user, way>> that was announced
          scans                                 \* per scanner: invoices read, invoice being added

noticeVars == <<notices, online, heard, scans>>

Nothing == [todo |-> {}, adding |-> {}]

NoticesInit == /\ notices = <<>> /\ online = {} /\ heard = {}
               /\ scans = [s \in Scanners |-> Nothing]

NewNotice(type, ref, to) == [type |-> type, ref |-> ref, to |-> to, read |-> FALSE]

PendingLast(type, ref) ==                        \* faulty: compared with the latest notice only
    /\ notices # <<>>
    /\ LET last == notices[Len(notices)] IN last.type = type /\ last.ref = ref /\ ~last.read
Pending(type, ref) ==
    \E i \in DOMAIN notices : notices[i].type = type /\ notices[i].ref = ref /\ ~notices[i].read

Feed(u) == {i \in DOMAIN notices : notices[i].to \in {u, Everyone}}

Group(note) == IF note.to = Everyone THEN online ELSE online \cap {note.to}
Mailed(note) == IF note.to = Everyone THEN Users ELSE {note.to}

Announced(row, note) == ({row} \X Group(note) \X {"socket"}) \cup ({row} \X Mailed(note) \X {"mail"})

\* Hooks run when the outermost transaction commits and are dropped by a rollback.
RunHooksAtOnce(hooks, committed) == hooks        \* faulty
RunHooks(hooks, committed) == IF committed THEN hooks ELSE {}

\* The rows new are created; the transaction they belong to commits or not.
Create(new, committed) ==
    LET row(k) == Len(notices) + k
    IN  /\ notices' = IF committed THEN notices \o new ELSE notices
        /\ heard' = heard \cup
             RunHooks(UNION {Announced(row(k), new[k]) : k \in DOMAIN new}, committed)

Connect(u) == u \notin online /\ online' = online \cup {u} /\ UNCHANGED <<notices, heard, scans>>
Disconnect(u) == u \in online /\ online' = online \ {u} /\ UNCHANGED <<notices, heard, scans>>

Read(S) == notices' = [i \in DOMAIN notices |-> [notices[i] EXCEPT !.read = @ \/ i \in S]]

MarkRead(u, i) == i \in Feed(u) /\ ~notices[i].read /\ Read({i}) /\ UNCHANGED <<online, heard, scans>>
MarkAllRead(u) == Feed(u) # {} /\ Read(Feed(u)) /\ UNCHANGED <<online, heard, scans>>

\* notify_staff_of_portal_action: never deduplicated, to the document's creator.
PortalActs(ref, to) ==
    Create(<<NewNotice("system", ref, to)>>, TRUE) /\ UNCHANGED <<online, scans>>

\* overdue: the <<invoice, creator>> pairs the query returns.
StartScan(s, overdue) ==
    /\ scans[s] = Nothing /\ overdue # {}
    /\ scans' = [scans EXCEPT ![s].todo = overdue]
    /\ UNCHANGED <<notices, online, heard>>

Look(s, o) ==
    /\ o \in scans[s].todo /\ scans[s].adding = {}
    /\ scans' = [scans EXCEPT ![s] = [todo |-> @.todo \ {o},
                     adding |-> IF Pending("overdue", o[1]) THEN {} ELSE {o}]]
    /\ UNCHANGED <<notices, online, heard>>

AddReminder(s, o) ==
    /\ o \in scans[s].adding
    /\ scans' = [scans EXCEPT ![s].adding = {}]
    /\ Create(<<NewNotice("overdue", o[1], o[2])>>, TRUE)
    /\ UNCHANGED online

\* The process that scans dies; what it has added stays.
ScanDies(s) == scans[s] # Nothing /\ scans' = [scans EXCEPT ![s] = Nothing]
               /\ UNCHANGED <<notices, online, heard>>
-----------------------------------------------------------------------------
\* What was pushed or mailed to a user is a row in that user's feed: nobody
\* hears of a sale that was rolled back (_broadcast after commit), nor of a
\* reminder addressed to somebody else (group of the recipient).
HeardIsListed == \A h \in heard : h[1] \in Feed(h[2])
=============================================================================
