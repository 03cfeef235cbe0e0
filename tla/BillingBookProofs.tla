-------------------------- MODULE BillingBookProofs --------------------------
(* Billing as a ChargeBook: what every handler goes on knowing while others *)
(* run, and what its writes do to the tables if they come in time, for any  *)
(* number of charges, slots, boletos, payments and processes.               *)
EXTENDS BillingBook, BillingProofs

-----------------------------------------------------------------------------
(* What a step does to the tables: one effect per step of the book *)

Nothing == UNCHANGED <<charge, payment>>

Drafts(c) ==
    /\ ~Exists(c) /\ Only(c) /\ UNCHANGED payment
    /\ charge'[c].slot \in Slots /\ charge'[c].issue = "draft"
    /\ charge'[c].pay = "open" /\ charge'[c].boleto = None
    /\ IndexFree(c, charge'[c].slot, "draft")

Reprices(c) ==
    /\ charge[c].issue = "draft" /\ Only(c) /\ UNCHANGED payment
    /\ SameButAmount(c)

Issues(c) ==
    /\ charge[c].issue = "draft" /\ Only(c) /\ UNCHANGED payment
    /\ IndexFree(c, charge[c].slot, "issued")
    /\ \E b \in Boletos \cup {None, Mock} :
          /\ charge'[c] = [charge[c] EXCEPT !.issue = "issued", !.boleto = b]
          /\ b \in Boletos => bank'[b].amount = charge[c].net

\* The charge was issued meanwhile: it changes its boleto.
Reissues(c) ==
    /\ charge[c].issue = "issued" /\ Only(c) /\ UNCHANGED payment
    /\ \E b \in Boletos \cup {None, Mock} :
          /\ charge'[c] = [charge[c] EXCEPT !.boleto = b]
          /\ b \in Boletos => bank'[b].amount = charge[c].net

FallsDue(c) ==
    /\ charge[c].issue = "issued" /\ charge[c].pay = "open" /\ Only(c) /\ UNCHANGED payment
    /\ charge'[c] = [charge[c] EXCEPT !.pay = "overdue"]

SettlesWith(k, c, a, r) ==
    LET rec == Classify(a, charge[c].net) IN
    /\ Exists(c) /\ Only(c)
    /\ payment' = [payment EXCEPT ![k] = [charge |-> c, amount |-> a, ref |-> r, recon |-> rec]]
    /\ charge'[c] = [charge[c] EXCEPT !.pay = Settled(rec, charge[c].pay)]

Receives(k, c) ==
    /\ payment[k].recon = "absent"
    /\ \E a \in Int, r \in Boletos \cup PixRefs \cup {None} :
          /\ r \in Boletos => \A j \in Payments : payment[j].ref # r
          /\ SettlesWith(k, c, a, r)

Assigns(k, c) ==
    /\ payment[k].recon = "unmatched"
    /\ SettlesWith(k, c, payment[k].amount, payment[k].ref)

Parks(k) ==
    /\ payment[k].recon = "absent" /\ UNCHANGED charge
    /\ \E a \in Int, r \in PixRefs :
          payment' = [payment EXCEPT ![k] = [charge |-> None, amount |-> a, ref |-> r,
                                             recon |-> "unmatched"]]

Effect ==
    \/ Nothing
    \/ \E c \in Charges : Drafts(c) \/ Reprices(c) \/ Issues(c) \/ Reissues(c) \/ FallsDue(c)
    \/ \E k \in Payments : Parks(k) \/ (\E c \in Charges : Receives(k, c) \/ Assigns(k, c))

-----------------------------------------------------------------------------
(* An effect is a step of the book *)

EntryIs(e, row) == e = [slot |-> row.slot, due |-> row.net, issue |-> row.issue, pay |-> row.pay]

(* The entries of the book, before and after a step. *)
LEMMA EntryOf == \A c \in Charges : EntryIs(entry[c], charge[c]) /\ EntryIs(entry'[c], charge'[c])
BY DEF entry, EntryIs

LEMMA EntryFields ==
    \A c \in Charges : entry[c].slot = charge[c].slot /\ entry[c].issue = charge[c].issue
BY DEF entry

LEMMA EntriesKept ==
    ASSUME NEW c \in Charges, Only(c)
    PROVE  entry' = [entry EXCEPT ![c] = entry'[c]]
BY DEF entry, Only

LEMMA DraftsStep ==
    ASSUME NEW c \in Charges, Drafts(c)
    PROVE  Book!Draft(c)
<1>0. EntryIs(entry[c], charge[c]) /\ EntryIs(entry'[c], charge'[c])
  BY EntryOf
<1>1. entry[c].issue = "absent"
  BY <1>0 DEF EntryIs, Drafts, Exists
<1>2. entry' = [entry EXCEPT ![c] = entry'[c]]
  BY EntriesKept DEF Drafts
<1>3. \E s \in Slots : entry'[c] = [slot |-> s, due |-> entry'[c].due,
                                    issue |-> "draft", pay |-> "open"]
  BY <1>0 DEF EntryIs, Drafts
<1>4. \A d \in Charges \ {c} : ~(entry[d].slot = entry'[c].slot /\ entry[d].issue = "draft")
  BY <1>0, EntryFields DEF EntryIs, Drafts, IndexFree
<1> QED
  BY <1>1, <1>2, <1>3, <1>4 DEF Drafts, Book!Draft, Book!Changes, Book!Free, entry

LEMMA RepricesStep ==
    ASSUME NEW c \in Charges, Reprices(c)
    PROVE  Book!Reprice(c)
<1>0. EntryIs(entry[c], charge[c]) /\ EntryIs(entry'[c], charge'[c])
  BY EntryOf
<1>1. entry[c].issue = "draft"
  BY <1>0 DEF EntryIs, Reprices
<1>2. entry' = [entry EXCEPT ![c] = entry'[c]]
  BY EntriesKept DEF Reprices
<1>3. entry'[c] = [entry[c] EXCEPT !.due = entry'[c].due]
  BY <1>0 DEF EntryIs, Reprices, SameButAmount
<1> QED
  BY <1>1, <1>2, <1>3 DEF Reprices, Book!Reprice, Book!Changes, entry

LEMMA IssuesStep ==
    ASSUME TypeOK, NEW c \in Charges, Issues(c)
    PROVE  Book!Issue(c)
<1>0. EntryIs(entry[c], charge[c]) /\ EntryIs(entry'[c], charge'[c])
  BY EntryOf
<1>1. entry[c].issue = "draft"
  BY <1>0 DEF EntryIs, Issues
<1>2. entry' = [entry EXCEPT ![c] = entry'[c]]
  BY EntriesKept DEF Issues
<1>3. /\ charge'[c].slot = charge[c].slot /\ charge'[c].net = charge[c].net
      /\ charge'[c].pay = charge[c].pay /\ charge'[c].issue = "issued"
  BY DEF Issues, TypeOK, ChargeRow
<1>4. entry'[c] = [entry[c] EXCEPT !.issue = "issued"]
  BY <1>0, <1>3 DEF EntryIs
<1>5. entry' = [entry EXCEPT ![c].issue = "issued"]
  BY <1>2, <1>4
<1>6. \A d \in Charges \ {c} : ~(entry[d].slot = entry'[c].slot /\ entry[d].issue = "issued")
  BY <1>0, <1>3, EntryFields DEF EntryIs, Issues, IndexFree
<1> QED
  BY <1>1, <1>5, <1>6 DEF Issues, Book!Issue, Book!Free, entry

(* The book does not know boletos. *)
LEMMA ReissuesStep ==
    ASSUME TypeOK, NEW c \in Charges, Reissues(c)
    PROVE  entry' = entry
<1>1. EntryIs(entry[c], charge[c]) /\ EntryIs(entry'[c], charge'[c])
  BY EntryOf
<1>2. /\ charge'[c].slot = charge[c].slot /\ charge'[c].net = charge[c].net
      /\ charge'[c].pay = charge[c].pay /\ charge'[c].issue = charge[c].issue
  BY DEF Reissues, TypeOK, ChargeRow
<1>3. entry'[c] = entry[c]
  BY <1>1, <1>2 DEF EntryIs
<1>4. entry' = [entry EXCEPT ![c] = entry'[c]]
  BY EntriesKept DEF Reissues
<1> QED
  BY <1>3, <1>4 DEF entry

LEMMA FallsDueStep ==
    ASSUME TypeOK, NEW c \in Charges, FallsDue(c)
    PROVE  Book!FallDue(c)
<1>0. EntryIs(entry[c], charge[c]) /\ EntryIs(entry'[c], charge'[c])
  BY EntryOf
<1>1. entry[c].issue = "issued" /\ entry[c].pay = "open"
  BY <1>0 DEF EntryIs, FallsDue
<1>2. entry' = [entry EXCEPT ![c] = entry'[c]]
  BY EntriesKept DEF FallsDue
<1>3. /\ charge'[c].slot = charge[c].slot /\ charge'[c].net = charge[c].net
      /\ charge'[c].pay = "overdue" /\ charge'[c].issue = charge[c].issue
  BY DEF FallsDue, TypeOK, ChargeRow
<1>4. entry'[c] = [entry[c] EXCEPT !.pay = "overdue"]
  BY <1>0, <1>3 DEF EntryIs
<1>5. entry' = [entry EXCEPT ![c].pay = "overdue"]
  BY <1>2, <1>4
<1> QED
  BY <1>1, <1>5 DEF FallsDue, Book!FallDue, entry

LEMMA SettlesWithStep ==
    ASSUME TypeOK, NEW k \in Payments, NEW c \in Charges, NEW a \in Int, NEW r,
           SettlesWith(k, c, a, r)
    PROVE  Book!Settles(k, c, a, r)
<1> DEFINE rec == Classify(a, charge[c].net)
           pay == Settled(rec, charge[c].pay)
<1>0. EntryIs(entry[c], charge[c]) /\ EntryIs(entry'[c], charge'[c])
  BY EntryOf
<1>1. charge[c] \in ChargeRow /\ charge[c].net \in Int
  BY DEF TypeOK, ChargeRow
<1>2. rec = IF a = entry[c].due THEN "matched" ELSE IF a < entry[c].due THEN "partial" ELSE "divergent"
  BY <1>0, <1>1 DEF EntryIs, Classify
<1>3. pay = IF a = entry[c].due THEN "paid" ELSE IF a < entry[c].due THEN "partially_paid"
            ELSE entry[c].pay
  <2> HIDE DEF rec
  <2> QED
    BY <1>0, <1>2 DEF EntryIs, Settled
<1>4. charge'[c] = [charge[c] EXCEPT !.pay = pay]
  BY DEF SettlesWith
<1>5. payment' = [payment EXCEPT ![k] = [charge |-> c, amount |-> a, ref |-> r, recon |-> rec]]
  BY DEF SettlesWith
<1> HIDE DEF pay, rec
<1>6. /\ charge'[c].slot = charge[c].slot /\ charge'[c].net = charge[c].net
      /\ charge'[c].pay = pay /\ charge'[c].issue = charge[c].issue
  BY <1>1, <1>4 DEF ChargeRow
<1>7. entry'[c] = [entry[c] EXCEPT !.pay = pay]
  BY <1>0, <1>6 DEF EntryIs
<1>8. entry' = [entry EXCEPT ![c].pay = pay]
  BY <1>7, EntriesKept DEF SettlesWith
<1>9. entry[c].issue # "absent"
  BY <1>0 DEF EntryIs, SettlesWith, Exists
<1>10. entry' = [entry EXCEPT ![c].pay = IF a = entry[c].due THEN "paid"
                    ELSE IF a < entry[c].due THEN "partially_paid" ELSE @]
  BY <1>3, <1>8
<1>11. payment' = [payment EXCEPT ![k] = [charge |-> c, amount |-> a, ref |-> r,
           recon |-> IF a = entry[c].due THEN "matched"
                     ELSE IF a < entry[c].due THEN "partial" ELSE "divergent"]]
  BY <1>2, <1>5
<1> QED
  BY <1>9, <1>10, <1>11 DEF Book!Settles, entry

(* Every effect is a step of the book, or invisible to it. *)
LEMMA EffectIsBookStep ==
    ASSUME TypeOK, Effect
    PROVE  [Book!Next]_<<entry, payment>>
<1>1. CASE Nothing
  BY <1>1 DEF Nothing, entry
<1>2. CASE \E c \in Charges : Drafts(c) \/ Reprices(c) \/ Issues(c) \/ FallsDue(c)
  BY <1>2, DraftsStep, RepricesStep, IssuesStep, FallsDueStep DEF Book!Next
<1>7. CASE \E c \in Charges : Reissues(c)
  BY <1>7, ReissuesStep DEF Reissues
<1>3. ASSUME NEW k \in Payments, Parks(k) PROVE Book!Park(k)
  <2>1. payment'[k].charge = None /\ payment'[k].recon = "unmatched"
    BY <1>3 DEF Parks, TypeOK
  <2>2. payment' = [payment EXCEPT ![k] = payment'[k]]
    BY <1>3 DEF Parks, TypeOK
  <2> QED
    BY <1>3, <2>1, <2>2 DEF Parks, Book!Park, entry
<1>4. ASSUME NEW k \in Payments, NEW c \in Charges, Receives(k, c) PROVE Book!Receive(k, c)
  <2>1. PICK a \in Int, r \in Boletos \cup PixRefs \cup {None} :
          /\ r \in Boletos => \A j \in Payments : payment[j].ref # r
          /\ SettlesWith(k, c, a, r)
    BY <1>4 DEF Receives
  <2>2. Book!Settles(k, c, a, r)
    BY <2>1, SettlesWithStep
  <2>3. payment'[k].amount = a /\ payment'[k].ref = r
    BY <2>1 DEF SettlesWith, TypeOK
  <2>4. Book!Settles(k, c, payment'[k].amount, payment'[k].ref)
    BY <2>2, <2>3 DEF Book!Settles
  <2> QED
    BY <1>4, <2>1, <2>3, <2>4 DEF Receives, Book!Receive
<1>5. ASSUME NEW k \in Payments, NEW c \in Charges, Assigns(k, c) PROVE Book!Assign(k, c)
  <2>1. PICK a \in Int, r \in Boletos \cup PixRefs \cup {None} :
          a = payment[k].amount /\ r = payment[k].ref
    BY DEF TypeOK, PaymentRow
  <2>2. SettlesWith(k, c, a, r)
    BY <1>5, <2>1 DEF Assigns, SettlesWith
  <2>3. Book!Settles(k, c, a, r)
    BY <2>2, SettlesWithStep
  <2>4. Book!Settles(k, c, payment[k].amount, payment[k].ref)
    BY <2>1, <2>3 DEF Book!Settles
  <2> QED
    BY <1>5, <2>4 DEF Assigns, Book!Assign
<1>6. CASE \E k \in Payments : Parks(k) \/ (\E c \in Charges : Receives(k, c) \/ Assigns(k, c))
  BY <1>3, <1>4, <1>5, <1>6 DEF Book!Next
<1> QED
  BY <1>1, <1>2, <1>6, <1>7 DEF Effect

-----------------------------------------------------------------------------
(* What a process knows while others run *)

(* st is the record of a process.  Nothing in this can be overtaken: a      *)
(* charge that exists or is issued stays so, an amount that was registered  *)
(* or paid stays, and the rest is about what the process itself has read.   *)
Knows(st) ==
    /\ st.pc = "insert" => st.row.slot \in Slots
    /\ st.pc = "write_items" => st.row.issue = "draft"
    /\ st.pc \in {"request_boleto", "write_issue", "check_duplicate", "read_match", "record", "link"}
          => Exists(st.charge)
    /\ st.pc = "write_issue" /\ st.boleto \in Boletos => bank[st.boleto].amount = st.row.net
    /\ st.pc = "read_match" => st.row.net = st.amount /\ st.recon = "matched"
    /\ st.pc \in {"record", "link"} => st.recon = Classify(st.amount, st.row.net)
    /\ st.pc = "park" => st.charge = None /\ st.recon = "unmatched" /\ st.ref \in PixRefs
    /\ st.pc \in {"read_charge", "link"} =>
          st.payment \in Payments /\ payment[st.payment].amount = st.amount
    /\ st.pc = "mark_overdue" => \A c \in st.todo : charge[c].issue = "issued"

KnownInv ==
    /\ BoletoInv /\ BoletoPaymentOnOwnCharge
    /\ \A p \in Procs : Knows(proc[p])

LEMMA IdleKnows ==
    ASSUME NEW p \in Procs, proc'[p] = Idle
    PROVE  Knows(proc[p])'
BY IdleType DEF Knows

LEMMA FinishKnows ==
    ASSUME TypeOK, NEW p \in Procs, Finish(p)
    PROVE  Knows(proc[p])'
<1>1. proc'[p] = Idle
  BY DEF Finish, TypeOK
<1> QED
  BY <1>1, IdleKnows

(* A process that ends its operation has moved, and so was not overtaken. *)
LEMMA FinishInTime ==
    ASSUME TypeOK, NEW p \in Procs, Finish(p), proc[p].pc # "idle", Timely
    PROVE  ~Overtaken(p)
<1>1. proc'[p] # proc[p]
  BY IdleType DEF Finish, TypeOK
<1> QED
  BY <1>1 DEF Timely

LEMMA KnownCompose ==
    ASSUME KnownInv, NEW p \in Procs, Compose(p)
    PROVE  Knows(proc[p])' /\ Effect
<1>0. TypeOK /\ DraftInHand /\ Knows(proc[p])
  BY DEF KnownInv, BoletoInv, RowInv
<1>1. ASSUME NEW s \in Slots, ComposeCheck(p, s) PROVE Knows(proc[p])' /\ Effect
  <2>1. PICK E \in SUBSET Extras :
          proc' = [proc EXCEPT ![p] = [Idle EXCEPT !.pc = "insert", !.row = NewRow(s, E, 0)]]
    BY <1>1 DEF ComposeCheck
  <2>2. proc'[p] = [Idle EXCEPT !.pc = "insert", !.row = NewRow(s, E, 0)]
    BY <1>0, <2>1 DEF TypeOK
  <2>3. proc'[p].pc = "insert" /\ proc'[p].row = NewRow(s, E, 0)
    BY <2>2, IdleType DEF ProcState
  <2>4. proc'[p].row.slot \in Slots
    BY <2>3 DEF NewRow
  <2> QED
    BY <1>1, <2>3, <2>4 DEF Knows, ComposeCheck, Effect, Nothing
<1>2. CASE ComposeInsert(p)
  <2>1. PICK c \in Charges :
          /\ ~Exists(c) /\ IndexFree(c, proc[p].row.slot, "draft")
          /\ charge' = [charge EXCEPT ![c] = proc[p].row]
    BY <1>2 DEF ComposeInsert
  <2>2. Only(c) /\ charge'[c] = proc[p].row
    BY <1>0, <2>1 DEF TypeOK, Only
  <2>3. Drafts(c)
    BY <1>0, <1>2, <2>1, <2>2 DEF Drafts, ComposeInsert, DraftInHand, Knows
  <2> QED
    BY <1>0, <1>2, <2>3, FinishKnows DEF ComposeInsert, Effect
<1>3. CASE ComposeSkip(p)
  BY <1>0, <1>3, FinishKnows DEF ComposeSkip, Effect, Nothing
<1> QED
  BY <1>1, <1>2, <1>3 DEF Compose

LEMMA KnownEdit ==
    ASSUME KnownInv, NEW p \in Procs, Edit(p)
    PROVE  Knows(proc[p])' /\ (Timely => Effect)
<1>0. TypeOK /\ ChargeInHand /\ Knows(proc[p])
  BY DEF KnownInv, BoletoInv, RowInv
<1>1. ASSUME NEW c \in Charges, AddLineItem(p, c) \/ RemoveLineItem(p, c)
      PROVE  Knows(proc[p])' /\ Effect
  <2>0. charge[c] \in ChargeRow
    BY <1>0 DEF TypeOK
  <2>1. PICK E : ReadForEdit(p, c, E)
    BY <1>1 DEF AddLineItem, RemoveLineItem
  <2> DEFINE row == [charge[c] EXCEPT !.extras = E, !.net = Gross(E)]
  <2>2. proc'[p] = [Idle EXCEPT !.pc = "write_items", !.charge = c, !.row = row]
    BY <1>0, <2>1 DEF ReadForEdit, TypeOK
  <2>3. row.issue = "draft"
    BY <2>0, <2>1 DEF ReadForEdit, ChargeRow
  <2> HIDE DEF row
  <2>4. proc'[p].pc = "write_items" /\ proc'[p].row = row
    BY <2>2, IdleType DEF ProcState
  <2> QED
    BY <2>1, <2>3, <2>4 DEF ReadForEdit, Knows, Effect, Nothing
<1>2. CASE WriteLineItems(p)
  <2> DEFINE c == proc[p].charge
             row == [charge[c] EXCEPT !.extras = proc[p].row.extras, !.net = proc[p].row.net]
  <2>1. c \in Charges /\ charge[c] \in ChargeRow
    BY <1>0, <1>2 DEF WriteLineItems, ChargeInHand, HoldingCharge, TypeOK
  <2>2. charge' = [charge EXCEPT ![c] = row]
    BY <1>2 DEF WriteLineItems
  <2>3. Only(c) /\ charge'[c] = row
    BY <1>0, <2>1, <2>2 DEF TypeOK, Only
  <2>4. SameButAmount(c)
    BY <2>1, <2>3 DEF SameButAmount, ChargeRow
  <2>5. ASSUME Timely PROVE Effect
    <3>1. ~Overtaken(p)
      BY <1>0, <1>2, <2>5, FinishInTime DEF WriteLineItems
    <3>2. charge[c].issue = "draft"
      BY <1>0, <1>2, <3>1 DEF Overtaken, WriteLineItems, Knows
    <3>3. Reprices(c)
      BY <1>2, <2>3, <2>4, <3>2 DEF Reprices, WriteLineItems
    <3> QED
      BY <2>1, <3>3 DEF Effect
  <2> QED
    BY <1>0, <1>2, <2>5, FinishKnows DEF WriteLineItems
<1> QED
  BY <1>1, <1>2 DEF Edit

LEMMA KnownIssue ==
    ASSUME KnownInv, NEW p \in Procs, Issue(p)
    PROVE  Knows(proc[p])' /\ (Timely => Effect)
<1>0. TypeOK /\ ChargeInHand /\ Knows(proc[p]) /\ proc[p] \in ProcState
  BY DEF KnownInv, BoletoInv, RowInv, TypeOK
<1>1. ASSUME NEW c \in Charges, IssueRead(p, c) PROVE Knows(proc[p])' /\ Effect
  <2>1. proc'[p] = [Idle EXCEPT !.pc = "request_boleto", !.charge = c, !.row = charge[c]]
    BY <1>0, <1>1 DEF IssueRead, TypeOK
  <2>2. proc'[p].pc = "request_boleto" /\ proc'[p].charge = c /\ proc'[p].row = charge[c]
    BY <2>1, IdleType DEF ProcState
  <2> QED
    BY <1>1, <2>2 DEF IssueRead, Knows, Effect, Nothing, Exists
<1>2. ASSUME NEW b \in Boletos \cup {None, Mock}, proc[p].pc = "request_boleto", GotBoleto(p, b),
             b \in Boletos => bank'[b].amount = proc[p].row.net, UNCHANGED <<charge, payment>>
      PROVE  Knows(proc[p])' /\ Effect
  <2>1. /\ proc'[p].pc = "write_issue" /\ proc'[p].charge = proc[p].charge
        /\ proc'[p].row = proc[p].row /\ proc'[p].boleto = b
    BY <1>0, <1>2 DEF GotBoleto, TypeOK, ProcState
  <2> QED
    BY <1>0, <1>2, <2>1 DEF Knows, Effect, Nothing, Exists
<1>3. CASE BoletoRegistered(p)
  <2>1. PICK b \in Boletos, got \in Boletos \cup {Mock} :
          /\ got \in {b, Mock}
          /\ bank' = [bank EXCEPT ![b] = [state |-> "registered", charge |-> proc[p].charge,
                                          amount |-> proc[p].row.net, paid |-> 0]]
          /\ GotBoleto(p, got)
    BY <1>3 DEF BoletoRegistered
  <2>2. bank'[b].amount = proc[p].row.net
    BY <1>0, <2>1 DEF TypeOK
  <2>3. got \in Boletos => bank'[got].amount = proc[p].row.net
    BY <2>1, <2>2, BillingAssumption
  <2> QED
    BY <1>2, <1>3, <2>1, <2>3 DEF BoletoRegistered
<1>4. CASE BoletoUnavailable(p)
  <2>1. PICK got \in {Mock, None} : GotBoleto(p, got)
    BY <1>4 DEF BoletoUnavailable
  <2>2. got \notin Boletos
    BY BillingAssumption
  <2> QED
    BY <1>2, <1>4, <2>1, <2>2 DEF BoletoUnavailable
<1>5. CASE IssueWrite(p)
  <2> DEFINE c == proc[p].charge
             b == proc[p].boleto
             row == [charge[c] EXCEPT !.issue = "issued", !.boleto = b]
  <2>1. c \in Charges /\ b \in Boletos \cup {None, Mock}
    BY <1>0, <1>5 DEF IssueWrite, ChargeInHand, HoldingCharge, ProcState
  <2>2. charge' = [charge EXCEPT ![c] = row]
    BY <1>5 DEF IssueWrite
  <2>3. Only(c) /\ charge'[c] = row
    BY <1>0, <2>1, <2>2 DEF TypeOK, Only
  <2>4. IndexFree(c, charge[c].slot, "issued") /\ UNCHANGED payment
    BY <1>5 DEF IssueWrite
  <2>5. CASE ~Timely
    BY <1>0, <1>5, <2>5, FinishKnows DEF IssueWrite
  <2>6. CASE Timely
    <3>1. ~Overtaken(p)
      BY <1>0, <1>5, <2>6, FinishInTime DEF IssueWrite
    <3>2. charge[c].net = proc[p].row.net
      BY <1>5, <3>1 DEF IssueWrite, Overtaken
    <3>3. ASSUME b \in Boletos PROVE bank'[b].amount = charge[c].net
      <4>1. bank'[b] = [bank[b] EXCEPT !.state = "shown"] /\ bank[b] \in BankBoleto
        BY <1>0, <1>5, <3>3 DEF IssueWrite, TypeOK
      <4>2. bank[b].amount = charge[c].net
        BY <1>0, <1>5, <3>2, <3>3 DEF IssueWrite, Knows
      <4> QED
        BY <4>1, <4>2 DEF BankBoleto
    <3>4. CASE charge[c].issue = "draft"
      <4>1. Issues(c)
        BY <2>1, <2>3, <2>4, <3>3, <3>4 DEF Issues
      <4> QED
        BY <1>0, <1>5, <2>1, <4>1, FinishKnows DEF IssueWrite, Effect
    <3>5. CASE charge[c].issue = "issued"
      <4>1. charge'[c] = [charge[c] EXCEPT !.boleto = b]
        <5>1. charge[c] \in ChargeRow
          BY <1>0, <2>1 DEF TypeOK
        <5>2. [charge[c] EXCEPT !.issue = "issued", !.boleto = b] = [charge[c] EXCEPT !.boleto = b]
          BY <3>5, <5>1 DEF ChargeRow
        <5> QED
          BY <2>3, <5>2
      <4>2. Reissues(c)
        BY <2>1, <2>3, <2>4, <3>3, <3>5, <4>1 DEF Reissues
      <4> QED
        BY <1>0, <1>5, <2>1, <4>2, FinishKnows DEF IssueWrite, Effect
    <3>6. charge[c].issue \in {"draft", "issued"}
      <4>1. charge[c].issue \in IssueStatus
        BY <1>0, <2>1 DEF TypeOK, ChargeRow
      <4>2. charge[c].issue # "absent"
        BY <1>0, <1>5 DEF IssueWrite, Knows, Exists
      <4> QED
        BY <4>1, <4>2 DEF IssueStatus
    <3> QED
      BY <3>4, <3>5, <3>6
  <2> QED
    BY <2>5, <2>6
<1>6. CASE IssueConflict(p)
  BY <1>0, <1>6, FinishKnows DEF IssueConflict, Effect, Nothing
<1> QED
  BY <1>1, <1>3, <1>4, <1>5, <1>6 DEF Issue

LEMMA KnownSantander ==
    ASSUME KnownInv, NEW p \in Procs, Santander(p)
    PROVE  Knows(proc[p])' /\ Effect
<1>0. TypeOK /\ ChargeInHand /\ Knows(proc[p]) /\ proc[p] \in ProcState
  BY DEF KnownInv, BoletoInv, RowInv, TypeOK
<1>1. ASSUME NEW b \in Boletos, SantanderFind(p, b) PROVE Knows(proc[p])' /\ Effect
  <2>1. PICK c \in Charges :
          /\ charge[c].boleto = b
          /\ proc' = [proc EXCEPT ![p] =
               [ToRecord(bank[b].paid, b, c, charge[c], "absent") EXCEPT !.pc = "check_duplicate"]]
    BY <1>1 DEF SantanderFind
  <2>2. proc'[p] = [ToRecord(bank[b].paid, b, c, charge[c], "absent") EXCEPT !.pc = "check_duplicate"]
    BY <1>0, <2>1 DEF TypeOK
  <2>3. proc'[p].pc = "check_duplicate" /\ proc'[p].charge = c /\ proc'[p].row = charge[c]
    BY <2>2, IdleType DEF ToRecord, ProcState
  <2>4. Exists(c)
    BY <2>1 DEF KnownInv, BoletoInv, StoredBoletoIsOwn, Exists
  <2> QED
    BY <1>1, <2>3, <2>4 DEF SantanderFind, Knows, Effect, Nothing, Exists
<1>2. CASE SantanderIgnore(p)
  BY <1>0, <1>2, FinishKnows DEF SantanderIgnore, Effect, Nothing
<1>3. CASE SantanderAccept(p)
  <2> DEFINE rec == Classify(proc[p].amount, proc[p].row.net)
  <2>1. proc' = [proc EXCEPT ![p].pc = "record", ![p].recon = rec]
    BY <1>3 DEF SantanderAccept
  <2> HIDE DEF rec
  <2>2. /\ proc'[p].pc = "record" /\ proc'[p].charge = proc[p].charge /\ proc'[p].row = proc[p].row
        /\ proc'[p].ref = proc[p].ref /\ proc'[p].amount = proc[p].amount /\ proc'[p].recon = rec
    BY <1>0, <2>1 DEF TypeOK, ProcState
  <2>3. proc'[p].recon = Classify(proc'[p].amount, proc'[p].row.net)
    BY <2>2 DEF rec
  <2>4. Exists(proc[p].charge) /\ UNCHANGED <<charge, payment, bank>>
    BY <1>0, <1>3 DEF SantanderAccept, Knows
  <2> QED
    BY <2>2, <2>3, <2>4 DEF Knows, Effect, Nothing, Exists
<1> QED
  BY <1>1, <1>2, <1>3 DEF Santander

LEMMA KnownPsp ==
    ASSUME KnownInv, NEW p \in Procs, Psp(p)
    PROVE  Knows(proc[p])' /\ Effect
<1>0. TypeOK /\ ChargeInHand /\ Knows(proc[p]) /\ proc[p] \in ProcState
  BY DEF KnownInv, BoletoInv, RowInv, TypeOK
<1>r. \A r \in PixRefs : r \notin Boletos
  BY BillingAssumption
<1>1. ASSUME NEW c \in Charges, NoticeForCharge(p, c) PROVE Knows(proc[p])' /\ Effect
  <2>1. PICK a \in Amounts, r \in PixRefs :
          proc' = [proc EXCEPT ![p] = ToRecord(a, r, c, charge[c], Classify(a, charge[c].net))]
    BY <1>1 DEF NoticeForCharge
  <2> DEFINE rec == Classify(a, charge[c].net)
  <2>2. proc'[p] = ToRecord(a, r, c, charge[c], rec)
    BY <1>0, <2>1 DEF TypeOK
  <2> HIDE DEF rec
  <2>3. /\ proc'[p].pc = "record" /\ proc'[p].charge = c /\ proc'[p].row = charge[c]
        /\ proc'[p].ref = r /\ proc'[p].amount = a /\ proc'[p].recon = rec
    BY <2>2, IdleType DEF ToRecord, ProcState
  <2>4. proc'[p].recon = Classify(proc'[p].amount, proc'[p].row.net) /\ proc'[p].ref \notin Boletos
    BY <1>r, <2>3 DEF rec
  <2> QED
    BY <1>1, <2>3, <2>4 DEF NoticeForCharge, Knows, Effect, Nothing, Exists
<1>2. CASE NoticeMatch(p)
  <2>1. PICK a \in Amounts, r \in PixRefs, c \in Charges :
          /\ Exists(c) /\ charge[c].net = a
          /\ proc' = [proc EXCEPT ![p] = [ToRecord(a, r, c, charge[c], "matched")
                                            EXCEPT !.pc = "read_match"]]
    BY <1>2 DEF NoticeMatch, Candidates
  <2>2. proc'[p] = [ToRecord(a, r, c, charge[c], "matched") EXCEPT !.pc = "read_match"]
    BY <1>0, <2>1 DEF TypeOK
  <2>3. /\ proc'[p].pc = "read_match" /\ proc'[p].charge = c /\ proc'[p].amount = a
        /\ proc'[p].recon = "matched" /\ proc'[p].row = charge[c]
    BY <2>2, IdleType DEF ToRecord, ProcState
  <2> QED
    BY <1>2, <2>1, <2>3 DEF NoticeMatch, Knows, Effect, Nothing, Exists
<1>3. CASE ReadMatched(p)
  <2>1. /\ proc'[p].pc = "record" /\ proc'[p].charge = proc[p].charge
        /\ proc'[p].row = proc[p].row /\ proc'[p].recon = "matched"
        /\ proc'[p].amount = proc[p].amount
    BY <1>0, <1>3 DEF ReadMatched, Knows, TypeOK, ProcState
  <2>2. /\ Exists(proc[p].charge) /\ proc[p].row.net = proc[p].amount
        /\ UNCHANGED <<charge, payment, bank>>
    BY <1>0, <1>3 DEF ReadMatched, Knows
  <2>3. proc'[p].recon = Classify(proc'[p].amount, proc'[p].row.net)
    <3>1. proc[p].amount \in Int
      BY <1>0 DEF ProcState
    <3>2. Classify(proc[p].amount, proc[p].amount) = "matched"
      BY <3>1 DEF Classify
    <3> QED
      BY <2>1, <2>2, <3>2
  <2> QED
    BY <2>1, <2>2, <2>3 DEF Knows, Effect, Nothing, Exists
<1>4. CASE NoticeUnmatched(p)
  <2>1. PICK a \in Amounts, r \in PixRefs :
          proc' = [proc EXCEPT ![p] =
                     [ToRecord(a, r, None, AbsentRow, "unmatched") EXCEPT !.pc = "park"]]
    BY <1>4 DEF NoticeUnmatched
  <2>2. proc'[p] = [ToRecord(a, r, None, AbsentRow, "unmatched") EXCEPT !.pc = "park"]
    BY <1>0, <2>1 DEF TypeOK
  <2>3. /\ proc'[p].pc = "park" /\ proc'[p].charge = None /\ proc'[p].ref = r
        /\ proc'[p].recon = "unmatched"
    BY <2>2, IdleType DEF ToRecord, ProcState
  <2> QED
    BY <1>4, <2>3 DEF NoticeUnmatched, Knows, Effect, Nothing
<1>5. CASE ParkPayment(p)
  <2>1. PICK k \in Payments :
          /\ payment[k].recon = "absent"
          /\ payment' = [payment EXCEPT ![k] = [charge |-> proc[p].charge,
               amount |-> proc[p].amount, ref |-> proc[p].ref, recon |-> proc[p].recon]]
    BY <1>5 DEF ParkPayment, InsertPayment
  <2>2. /\ proc[p].charge = None /\ proc[p].recon = "unmatched" /\ proc[p].ref \in PixRefs
        /\ proc[p].amount \in Int
    BY <1>0, <1>5 DEF ParkPayment, Knows, ProcState
  <2>3. Parks(k)
    BY <1>5, <2>1, <2>2 DEF Parks, ParkPayment
  <2> QED
    BY <1>0, <1>5, <2>3, FinishKnows DEF ParkPayment, Effect
<1> QED
  BY <1>1, <1>2, <1>3, <1>4, <1>5 DEF Psp

(* The charge a payment is settled on gets its status by what it owes now. *)
LEMMA SettlesNow ==
    ASSUME TypeOK, NEW p \in Procs, Knows(proc[p]), ~Overtaken(p),
           proc[p].pc \in {"record", "link"}, proc[p].charge \in Charges, NEW k \in Payments,
           charge' = [charge EXCEPT ![proc[p].charge].pay = Settled(proc[p].recon, proc[p].row.pay)],
           NEW a, NEW r, a = proc[p].amount,
           payment' = [payment EXCEPT ![k] = [charge |-> proc[p].charge, amount |-> a,
                                              ref |-> r, recon |-> proc[p].recon]]
    PROVE  SettlesWith(k, proc[p].charge, a, r)
<1> DEFINE c == proc[p].charge
           rec == Classify(a, charge[c].net)
           pay == Settled(proc[p].recon, proc[p].row.pay)
<1>1. Exists(c) /\ charge[c].net = proc[p].row.net /\ charge[c].pay = proc[p].row.pay
  BY DEF Knows, Overtaken
<1>2. proc[p].recon = rec
  BY <1>1 DEF Knows
<1>3. pay = Settled(rec, charge[c].pay)
  BY <1>1, <1>2
<1>4. charge' = [charge EXCEPT ![c] = [charge[c] EXCEPT !.pay = pay]]
  OBVIOUS
<1>5. Only(c) /\ charge'[c] = [charge[c] EXCEPT !.pay = pay]
  <2> HIDE DEF pay
  <2> QED
    BY <1>4 DEF TypeOK, Only
<1> HIDE DEF pay, rec
<1>6. charge'[c] = [charge[c] EXCEPT !.pay = Settled(rec, charge[c].pay)]
  BY <1>3, <1>5
<1>7. payment' = [payment EXCEPT ![k] = [charge |-> c, amount |-> a, ref |-> r, recon |-> rec]]
  BY <1>2
<1> QED
  BY <1>1, <1>5, <1>6, <1>7 DEF SettlesWith, rec

LEMMA KnownRecord ==
    ASSUME KnownInv, NEW p \in Procs, RecordPayment(p)
    PROVE  Knows(proc[p])' /\ (Timely => Effect)
<1>0. TypeOK /\ ChargeInHand /\ Knows(proc[p]) /\ proc[p] \in ProcState
  BY DEF KnownInv, BoletoInv, RowInv, TypeOK
<1>1. PICK k \in Payments, a \in Int, r \in Boletos \cup PixRefs \cup {None} :
        /\ payment[k].recon = "absent" /\ a = proc[p].amount /\ r = proc[p].ref
        /\ payment' = [payment EXCEPT ![k] = [charge |-> proc[p].charge, amount |-> a,
                                              ref |-> r, recon |-> proc[p].recon]]
  BY <1>0 DEF RecordPayment, InsertPayment, ProcState
<1>2. proc[p].charge \in Charges /\ proc[p].pc = "record" /\ Finish(p)
  BY <1>0 DEF RecordPayment, ChargeInHand, HoldingCharge
<1>3. charge' = [charge EXCEPT ![proc[p].charge].pay = Settled(proc[p].recon, proc[p].row.pay)]
  BY DEF RecordPayment
<1>4. ASSUME Timely PROVE Receives(k, proc[p].charge)
  <2>1. ~Overtaken(p)
    BY <1>0, <1>2, <1>4, FinishInTime
  <2>2. SettlesWith(k, proc[p].charge, a, r)
    BY <1>0, <1>1, <1>2, <1>3, <2>1, SettlesNow
  <2>3. ASSUME r \in Boletos, NEW j \in Payments PROVE payment[j].ref # r
    <3>1. bank[r].charge = proc[p].charge
      BY <1>1, <1>2, <2>3 DEF KnownInv, BoletoInv, PaidInHand
    <3>2. payment[j].ref = r => payment[j].charge = proc[p].charge
      BY <2>3, <3>1 DEF KnownInv, BoletoPaymentOnOwnCharge
    <3> QED
      BY <1>1, <1>2, <2>1, <2>3, <3>2 DEF Overtaken, AlreadyRecorded
  <2> QED
    BY <1>1, <2>2, <2>3 DEF Receives
<1> QED
  BY <1>0, <1>2, <1>4, FinishKnows DEF Effect

(* Linking a payment sets two of its columns. *)
LEMMA LinkedRow ==
    ASSUME NEW row \in PaymentRow, NEW c, NEW rec
    PROVE  [row EXCEPT !.charge = c, !.recon = rec]
             = [charge |-> c, amount |-> row.amount, ref |-> row.ref, recon |-> rec]
<1> DEFINE new == [row EXCEPT !.charge = c, !.recon = rec]
<1>1. new \in [charge : {c}, amount : {row.amount}, ref : {row.ref}, recon : {rec}]
  BY DEF PaymentRow
<1> HIDE DEF new
<1>2. new = [charge |-> c, amount |-> row.amount, ref |-> row.ref, recon |-> rec]
  BY <1>1
<1> QED
  BY <1>2 DEF new

LEMMA KnownReconcile ==
    ASSUME KnownInv, NEW p \in Procs, Reconcile(p)
    PROVE  Knows(proc[p])' /\ (Timely => Effect)
<1>0. TypeOK /\ ChargeInHand /\ Knows(proc[p]) /\ proc[p] \in ProcState
  BY DEF KnownInv, BoletoInv, RowInv, TypeOK
<1>1. ASSUME NEW k \in Payments, ReconcileRead(p, k) PROVE Knows(proc[p])' /\ Effect
  <2>1. proc'[p] = [Idle EXCEPT !.pc = "read_charge", !.payment = k, !.amount = payment[k].amount]
    BY <1>0, <1>1 DEF ReconcileRead, TypeOK
  <2>2. proc'[p].pc = "read_charge" /\ proc'[p].payment = k /\ proc'[p].amount = payment[k].amount
    BY <2>1, IdleType DEF ProcState
  <2> QED
    BY <1>1, <2>2 DEF ReconcileRead, Knows, Effect, Nothing
<1>2. ASSUME NEW c \in Charges, ReconcileReadCharge(p, c) PROVE Knows(proc[p])' /\ Effect
  <2> DEFINE rec == Classify(proc[p].amount, charge[c].net)
  <2>1. proc' = [proc EXCEPT ![p].pc = "link", ![p].charge = c, ![p].row = charge[c],
                             ![p].recon = rec]
    BY <1>2 DEF ReconcileReadCharge
  <2> HIDE DEF rec
  <2>2. /\ proc'[p].pc = "link" /\ proc'[p].charge = c /\ proc'[p].row = charge[c]
        /\ proc'[p].recon = rec /\ proc'[p].payment = proc[p].payment
        /\ proc'[p].amount = proc[p].amount
    BY <1>0, <2>1 DEF TypeOK, ProcState
  <2>3. proc'[p].recon = Classify(proc'[p].amount, proc'[p].row.net)
    BY <2>2 DEF rec
  <2>4. proc[p].payment \in Payments /\ payment[proc[p].payment].amount = proc[p].amount
    BY <1>0, <1>2 DEF ReconcileReadCharge, Knows
  <2> QED
    BY <1>2, <2>2, <2>3, <2>4 DEF ReconcileReadCharge, Knows, Effect, Nothing, Exists
<1>3. CASE ReconcileWrite(p)
  <2>1. PICK k \in Payments, a \in Int, r \in Boletos \cup PixRefs \cup {None} :
          /\ k = proc[p].payment /\ a = payment[k].amount /\ r = payment[k].ref
          /\ a = proc[p].amount
    BY <1>0, <1>3 DEF ReconcileWrite, Knows, TypeOK, PaymentRow
  <2>2. payment' = [payment EXCEPT ![k].charge = proc[p].charge, ![k].recon = proc[p].recon]
    BY <1>3, <2>1 DEF ReconcileWrite
  <2>3. payment[k] \in PaymentRow
    BY <1>0 DEF TypeOK
  <2>4. payment' = [payment EXCEPT ![k] = [charge |-> proc[p].charge, amount |-> a,
                                           ref |-> r, recon |-> proc[p].recon]]
    <3>1. [payment[k] EXCEPT !.charge = proc[p].charge, !.recon = proc[p].recon]
            = [charge |-> proc[p].charge, amount |-> payment[k].amount,
               ref |-> payment[k].ref, recon |-> proc[p].recon]
      BY <2>3, LinkedRow
    <3>2. payment' = [payment EXCEPT ![k] = [payment[k] EXCEPT !.charge = proc[p].charge,
                                                               !.recon = proc[p].recon]]
      BY <2>2
    <3> QED
      BY <2>1, <3>1, <3>2
  <2>5. proc[p].charge \in Charges /\ proc[p].pc = "link"
    BY <1>0, <1>3 DEF ReconcileWrite, ChargeInHand, HoldingCharge
  <2>6. charge' = [charge EXCEPT ![proc[p].charge].pay = Settled(proc[p].recon, proc[p].row.pay)]
    BY <1>3 DEF ReconcileWrite
  <2>7. ASSUME Timely PROVE Assigns(k, proc[p].charge)
    <3>1. ~Overtaken(p)
      BY <1>0, <1>3, <2>5, <2>7, FinishInTime DEF ReconcileWrite
    <3>2. SettlesWith(k, proc[p].charge, a, r)
      BY <1>0, <2>1, <2>4, <2>5, <2>6, <3>1, SettlesNow
    <3>3. payment[k].recon = "unmatched"
      BY <2>1, <2>5, <3>1 DEF Overtaken
    <3> QED
      BY <2>1, <3>2, <3>3 DEF Assigns
  <2> QED
    BY <1>0, <1>3, <2>5, <2>7, FinishKnows DEF ReconcileWrite, Effect
<1> QED
  BY <1>1, <1>2, <1>3 DEF Reconcile

LEMMA KnownOverdue ==
    ASSUME KnownInv, NEW p \in Procs, Overdue(p)
    PROVE  Knows(proc[p])' /\ (Timely => Effect)
<1>0. TypeOK /\ Knows(proc[p]) /\ proc[p] \in ProcState
  BY DEF KnownInv, BoletoInv, RowInv, TypeOK
<1>1. CASE OverdueScan(p)
  <2>1. PICK due \in SUBSET {c \in Charges : charge[c].issue = "issued" /\ charge[c].pay = "open"} :
          proc' = [proc EXCEPT ![p] = [Idle EXCEPT !.pc = "mark_overdue", !.todo = due]]
    BY <1>1 DEF OverdueScan
  <2>2. proc'[p] = [Idle EXCEPT !.pc = "mark_overdue", !.todo = due]
    BY <1>0, <2>1 DEF TypeOK
  <2>3. proc'[p].pc = "mark_overdue" /\ proc'[p].todo = due
    BY <2>2, IdleType DEF ProcState
  <2> QED
    BY <1>1, <2>3 DEF OverdueScan, Knows, Effect, Nothing
<1>2. ASSUME NEW c \in Charges, MarkOverdue(p, c)
      PROVE  Knows(proc[p])' /\ (Timely => Effect)
  <2>1. charge' = [charge EXCEPT ![c] = [charge[c] EXCEPT !.pay = "overdue"]]
    BY <1>2 DEF MarkOverdue
  <2>2. Only(c) /\ charge'[c] = [charge[c] EXCEPT !.pay = "overdue"]
    BY <1>0, <2>1 DEF TypeOK, Only
  <2>3. /\ proc[p].pc = "mark_overdue" /\ c \in proc[p].todo
        /\ \A d \in proc[p].todo : d \in Charges /\ charge[d].issue = "issued"
    BY <1>0, <1>2 DEF MarkOverdue, Knows, ProcState
  <2>4. CASE Finish(p)
    <3>1. ASSUME Timely PROVE FallsDue(c)
      <4>1. ~Overtaken(p)
        BY <1>0, <2>3, <2>4, <3>1, FinishInTime
      <4> QED
        BY <1>2, <2>2, <2>3, <4>1 DEF FallsDue, MarkOverdue, Overtaken
    <3> QED
      BY <1>0, <2>4, <3>1, FinishKnows DEF Effect
  <2>5. CASE proc' = [proc EXCEPT ![p].todo = @ \ {c}]
    <3>1. proc'[p].pc = "mark_overdue" /\ proc'[p].todo = proc[p].todo \ {c}
      BY <1>0, <2>3, <2>5 DEF TypeOK, ProcState
    <3>2. \A d \in proc'[p].todo : charge'[d].issue = "issued"
      BY <2>2, <2>3, <3>1 DEF Only
    <3>3. ASSUME Timely PROVE FallsDue(c)
      <4>1. ~Overtaken(p)
        BY <2>3, <3>1, <3>3 DEF Timely
      <4> QED
        BY <1>2, <2>2, <2>3, <4>1 DEF FallsDue, MarkOverdue, Overtaken
    <3> QED
      BY <3>1, <3>2, <3>3 DEF Knows, Effect
  <2> QED
    BY <1>2, <2>4, <2>5 DEF MarkOverdue
<1> QED
  BY <1>1, <1>2 DEF Overdue

-----------------------------------------------------------------------------
(* What a process knows it goes on knowing *)

LEMMA ExistsStays ==
    ASSUME RowInv, [Next]_vars, NEW c \in Charges, Exists(c)
    PROVE  charge'[c].issue # "absent"
<1>1. charge' = charge \/ \E d \in Charges : Only(d) /\ RowChanges(d)
  BY StepChangesRow DEF RowInv
<1> QED
  BY <1>1 DEF Only, RowChanges, Created, SameButAmount, IssuedBy, SettledBy, MarkedBy, SameButPay,
              Exists

(* A boleto keeps its amount once it is registered. *)
LEMMA BoletoKeepsAmount ==
    ASSUME TypeOK, [Next]_vars, NEW b \in Boletos, bank[b].state # "free"
    PROVE  bank'[b].amount = bank[b].amount
<1>1. bank[b] \in BankBoleto
  BY DEF TypeOK
<1>2. BoletoChanges(b)
  BY StepChangesBoleto
<1>3. ASSUME NEW p \in Procs, Shown(p, b) PROVE bank'[b].amount = bank[b].amount
  BY <1>1, <1>3 DEF Shown, BankBoleto
<1> QED
  BY <1>2, <1>3 DEF BoletoChanges, Paid, Registered

(* The amount of a payment is never changed. *)
LEMMA PaymentKeepsAmount ==
    ASSUME TypeOK, [Next]_vars, NEW k \in Payments, payment[k].recon # "absent"
    PROVE  payment'[k].amount = payment[k].amount
BY StepChangesPayment DEF PaymentChanges, InsertedBy, LinkedBy

(* A step of somebody else takes nothing from what p knows. *)
LEMMA StillKnows ==
    ASSUME KnownInv, [Next]_vars, NEW p \in Procs, proc'[p] = proc[p]
    PROVE  Knows(proc[p])'
<1> DEFINE st == proc[p]
<1>0. RowInv /\ TypeOK /\ ChargeInHand /\ Knows(st) /\ st \in ProcState
  BY DEF KnownInv, BoletoInv, RowInv, TypeOK
<1>1. ASSUME st.pc \in HoldingCharge, st.pc # "write_items" PROVE charge'[st.charge].issue # "absent"
  <2>1. st.charge \in Charges /\ Exists(st.charge)
    BY <1>0, <1>1 DEF ChargeInHand, HoldingCharge, Knows
  <2> QED
    BY <1>0, <2>1, ExistsStays
<1>2. ASSUME st.pc = "write_issue", st.boleto \in Boletos PROVE bank'[st.boleto].amount = st.row.net
  <2>1. bank[st.boleto].state # "free" /\ bank[st.boleto].amount = st.row.net
    BY <1>0, <1>2 DEF KnownInv, BoletoInv, BoletoInHand, Knows
  <2> QED
    BY <1>0, <1>2, <2>1, BoletoKeepsAmount
<1>3. ASSUME st.pc \in {"read_charge", "link"} PROVE payment'[st.payment].amount = st.amount
  <2>1. st.payment \in Payments /\ payment[st.payment].amount = st.amount
    BY <1>0, <1>3 DEF Knows
  <2>2. payment[st.payment].recon # "absent"
    BY <1>3, <2>1 DEF KnownInv, BoletoInv, PaidInHand
  <2> QED
    BY <1>0, <2>1, <2>2, PaymentKeepsAmount
<1>4. ASSUME st.pc = "mark_overdue", NEW c \in st.todo PROVE charge'[c].issue = "issued"
  <2>1. c \in Charges /\ charge[c].issue = "issued"
    BY <1>0, <1>4 DEF Knows, ProcState
  <2> QED
    BY <1>0, <2>1, IssuedStays
<1> QED
  BY <1>0, <1>1, <1>2, <1>3, <1>4 DEF Knows, HoldingCharge, Exists

-----------------------------------------------------------------------------
(* Every step in time has an effect of the book *)

LEMMA GenerateDrafts ==
    ASSUME TypeOK, NEW s \in Slots, GenerateCharge(s)
    PROVE  Effect
<1>1. PICK c \in Charges, E \in SUBSET Extras, a \in Adjustments :
        /\ ~Exists(c) /\ IndexFree(c, s, "draft")
        /\ charge' = [charge EXCEPT ![c] = NewRow(s, E, a)]
  BY DEF GenerateCharge
<1>2. Only(c) /\ charge'[c] = NewRow(s, E, a)
  BY <1>1 DEF TypeOK, Only
<1>3. Drafts(c)
  BY <1>1, <1>2 DEF Drafts, NewRow, GenerateCharge
<1> QED
  BY <1>3 DEF Effect

LEMMA MoveHasEffect ==
    ASSUME KnownInv, NEW p \in Procs, Moves(p)
    PROVE  Knows(proc[p])' /\ (Timely => Effect)
<1>1. ASSUME Crash(p) PROVE Knows(proc[p])' /\ Effect
  BY <1>1, FinishKnows DEF Crash, Effect, Nothing, KnownInv, BoletoInv, RowInv
<1> QED
  BY <1>1, KnownCompose, KnownEdit, KnownIssue, KnownSantander, KnownPsp,
     KnownRecord, KnownReconcile, KnownOverdue DEF Moves

LEMMA StepHasEffect ==
    ASSUME KnownInv, [Next]_vars
    PROVE  (\A p \in Procs : Knows(proc[p])') /\ (Timely => Effect)
<1>0. TypeOK
  BY DEF KnownInv, BoletoInv, RowInv
<1>1. ASSUME NEW p \in Procs PROVE Knows(proc[p])'
  BY <1>0, <1>1, OwnMoves, MoveHasEffect, StillKnows
<1>2. CASE \E p \in Procs : Moves(p)
  BY <1>1, <1>2, MoveHasEffect
<1>3. CASE \E s \in Slots : GenerateCharge(s)
  BY <1>0, <1>1, <1>3, GenerateDrafts
<1>4. CASE \E b \in Boletos : PayBoleto(b)
  BY <1>1, <1>4 DEF PayBoleto, Effect, Nothing
<1>5. CASE UNCHANGED vars
  BY <1>1, <1>5 DEF vars, Effect, Nothing
<1> QED
  BY <1>2, <1>3, <1>4, <1>5 DEF Next, Moves

LEMMA KnownInit == Init => KnownInv
<1> SUFFICES ASSUME Init PROVE KnownInv
  OBVIOUS
<1>1. BoletoInv /\ BoletoPaymentOnOwnCharge
  BY RowInvInit, IdleType, BillingAssumption DEF Init, BoletoInv, BoletoInHand, StoredBoletoIsOwn,
     BoletoFresh, PaidInHand, ParkedIsNotBoleto, BoletoPaymentOnOwnCharge, AbsentRow, AbsentPayment
<1>2. \A p \in Procs : Knows(proc[p])
  BY IdleType DEF Init, Knows
<1> QED
  BY <1>1, <1>2 DEF KnownInv

LEMMA KnownStep == KnownInv /\ [Next]_vars => KnownInv'
<1> SUFFICES ASSUME KnownInv, [Next]_vars PROVE KnownInv'
  OBVIOUS
<1>1. (BoletoInv /\ BoletoPaymentOnOwnCharge)'
  BY RowInvStep, BoletoInHandStep, StoredBoletoIsOwnStep, BoletoFreshStep, PaidInHandStep,
     ParkedIsNotBoletoStep, BoletoPaymentStep DEF KnownInv, BoletoInv
<1>2. \A p \in Procs : Knows(proc[p])'
  BY StepHasEffect
<1> QED
  BY <1>1, <1>2 DEF KnownInv

-----------------------------------------------------------------------------
(* The boleto and the amount of a charge *)

LEMMA EffectOnRow ==
    ASSUME Effect, NEW c \in Charges
    PROVE  \/ charge'[c] = charge[c]
           \/ Drafts(c) \/ Reprices(c) \/ Issues(c) \/ Reissues(c) \/ FallsDue(c)
           \/ \E a : LET rec == Classify(a, charge[c].net) IN
                     charge'[c] = [charge[c] EXCEPT !.pay = Settled(rec, charge[c].pay)]
<1>1. CASE Nothing
  BY <1>1 DEF Nothing
<1>2. ASSUME NEW d \in Charges, Drafts(d) \/ Reprices(d) \/ Issues(d) \/ Reissues(d) \/ FallsDue(d)
      PROVE  charge'[c] = charge[c] \/ d = c
  BY <1>2 DEF Drafts, Reprices, Issues, Reissues, FallsDue, Only
<1>3. ASSUME NEW k \in Payments, Parks(k) PROVE charge'[c] = charge[c]
  BY <1>3 DEF Parks
<1>4. ASSUME NEW k \in Payments, NEW d \in Charges, Receives(k, d) \/ Assigns(k, d)
      PROVE  \/ charge'[c] = charge[c]
             \/ \E a : LET rec == Classify(a, charge[c].net) IN
                       charge'[c] = [charge[c] EXCEPT !.pay = Settled(rec, charge[c].pay)]
  <2>1. PICK a, r : SettlesWith(k, d, a, r)
    <3>1. CASE Receives(k, d)
      BY <3>1 DEF Receives
    <3>2. CASE Assigns(k, d)
      BY <3>2 DEF Assigns, SettlesWith
    <3> QED
      BY <1>4, <3>1, <3>2
  <2> QED
    BY <2>1 DEF SettlesWith, Only
<1> QED
  BY <1>1, <1>2, <1>3, <1>4 DEF Effect

LEMMA AgreesStays ==
    ASSUME KnownInv, [Next]_vars, Timely, NEW c \in Charges, Agrees(c)
    PROVE  Agrees(c)'
<1> SUFFICES ASSUME charge'[c].boleto \in Boletos
             PROVE  bank'[charge'[c].boleto].amount = charge'[c].net
  BY DEF Agrees
<1>0. TypeOK /\ charge[c] \in ChargeRow /\ Effect
  BY StepHasEffect DEF KnownInv, BoletoInv, RowInv, TypeOK
<1>1. ASSUME charge'[c].boleto = charge[c].boleto, charge'[c].net = charge[c].net
      PROVE  bank'[charge'[c].boleto].amount = charge'[c].net
  <2>1. /\ bank[charge[c].boleto].amount = charge[c].net
        /\ bank[charge[c].boleto].state # "free"
    BY <1>1 DEF KnownInv, BoletoInv, Agrees, StoredBoletoIsOwn
  <2> QED
    BY <1>0, <1>1, <2>1, BoletoKeepsAmount
<1>2. ~Drafts(c)
  BY BillingAssumption DEF Drafts
<1>3. ~Reprices(c)
  BY DEF Reprices, SameButAmount, KnownInv, BoletoInv, StoredBoletoIsOwn
<1>4. CASE Issues(c)
  BY <1>0, <1>4 DEF Issues, ChargeRow
<1>5. CASE Reissues(c)
  BY <1>0, <1>5 DEF Reissues, ChargeRow
<1>6. CASE FallsDue(c)
  BY <1>0, <1>1, <1>6 DEF FallsDue, ChargeRow
<1>7. ASSUME NEW a, LET rec == Classify(a, charge[c].net) IN
             charge'[c] = [charge[c] EXCEPT !.pay = Settled(rec, charge[c].pay)]
      PROVE  bank'[charge'[c].boleto].amount = charge'[c].net
  <2> DEFINE pay == Settled(Classify(a, charge[c].net), charge[c].pay)
  <2>1. charge'[c] = [charge[c] EXCEPT !.pay = pay]
    BY <1>7
  <2> HIDE DEF pay
  <2> QED
    BY <1>0, <1>1, <2>1 DEF ChargeRow
<1> QED
  BY <1>0, <1>1, <1>2, <1>3, <1>4, <1>5, <1>6, <1>7, EffectOnRow

-----------------------------------------------------------------------------
(* If nobody edits line items, requests may overlap *)

NothingEdited == \A p \in Procs : proc[p].pc # "write_items"

(* A request that waits for its boleto has read what the charge still says, ... *)
AmountInHand ==
    \A p \in Procs : proc[p].pc = "request_boleto" =>
        Exists(proc[p].charge) /\ proc[p].row.net = charge[proc[p].charge].net

(* ... and so every boleto, also one that is in no row, is for that amount. *)
AmountAtBank ==
    \A b \in Boletos : bank[b].state # "free" =>
        /\ bank[b].charge \in Charges /\ Exists(bank[b].charge)
        /\ bank[b].amount = charge[bank[b].charge].net

UneditedInv ==
    /\ RowInv /\ BoletoInHand /\ StoredBoletoIsOwn
    /\ NothingEdited /\ AmountInHand /\ AmountAtBank

LEMMA UneditedInit == Init => UneditedInv
BY RowInvInit, IdleType, BillingAssumption DEF Init, UneditedInv, BoletoInHand, StoredBoletoIsOwn,
   NothingEdited, AmountInHand, AmountAtBank, AbsentRow, FreeBoleto

LEMMA AmountStays ==
    ASSUME UneditedInv, [Next]_vars, NEW c \in Charges, Exists(c)
    PROVE  Exists(c)' /\ charge'[c].net = charge[c].net
<1>1. charge'[c] = charge[c] \/ RowChanges(c)
  BY StepChangesRow DEF UneditedInv, RowInv, Only
<1> QED
  BY <1>1 DEF RowChanges, Created, SettledBy, MarkedBy, IssuedBy, SameButPay, UneditedInv,
              NothingEdited, Exists

LEMMA UneditedStep == ASSUME "edit" \notin Ops PROVE UneditedInv /\ [Next]_vars => UneditedInv'
<1> SUFFICES ASSUME UneditedInv, [Next]_vars PROVE UneditedInv'
  OBVIOUS
<1>0. RowInv /\ TypeOK /\ ChargeInHand
  BY DEF UneditedInv, RowInv
<1>1. RowInv' /\ BoletoInHand' /\ StoredBoletoIsOwn'
  BY RowInvStep, BoletoInHandStep, StoredBoletoIsOwnStep DEF UneditedInv
<1>2. ASSUME NEW p \in Procs, proc'[p] # proc[p] PROVE Reaches(proc[p], proc'[p])
  BY <1>0, <1>2, OwnMoves, MovesReach
<1>3. NothingEdited'
  BY <1>2, IdleType DEF UneditedInv, NothingEdited, Reaches, Drafted, Editing, Registering, Found,
     Accepted, Noticed, Reread, Parking, Linking, Scanned
<1>4. AmountInHand'
  <2> SUFFICES ASSUME NEW p \in Procs, proc'[p].pc = "request_boleto"
               PROVE  /\ charge'[proc'[p].charge].issue # "absent"
                      /\ proc'[p].row.net = charge'[proc'[p].charge].net
    BY DEF AmountInHand, Exists
  <2>1. PICK c : c = proc'[p].charge
    OBVIOUS
  <2>2. c \in Charges /\ Exists(c) /\ proc'[p].row.net = charge[c].net
    <3>1. CASE proc'[p] = proc[p]
      BY <1>0, <2>1, <3>1 DEF UneditedInv, AmountInHand, ChargeInHand, HoldingCharge
    <3>2. CASE proc'[p] # proc[p]
      <4>1. Editing(proc'[p])
        BY <1>2, <3>2, IdleType DEF Reaches, Drafted, Registering, Found, Accepted, Noticed, Reread,
           Parking, Linking, Scanned
      <4> QED
        BY <2>1, <4>1 DEF Editing, Exists
    <3> QED
      BY <3>1, <3>2
  <2> QED
    BY <2>1, <2>2, AmountStays DEF Exists
<1>5. AmountAtBank'
  <2> SUFFICES ASSUME NEW b \in Boletos, bank'[b].state # "free"
               PROVE  /\ bank'[b].charge \in Charges /\ charge'[bank'[b].charge].issue # "absent"
                      /\ bank'[b].amount = charge'[bank'[b].charge].net
    BY DEF AmountAtBank, Exists
  <2>1. PICK c : c = bank'[b].charge
    OBVIOUS
  <2>2. c \in Charges /\ Exists(c) /\ bank'[b].amount = charge[c].net
    <3>1. CASE bank[b].state # "free"
      BY <1>0, <2>1, <3>1, BoletoKeepsAmount, BoletoKeepsCharge DEF UneditedInv, AmountAtBank
    <3>2. CASE bank[b].state = "free"
      <4>1. PICK p \in Procs : Registered(p, b)
        <5>1. BoletoChanges(b)
          BY <1>0, StepChangesBoleto
        <5>2. ASSUME NEW p \in Procs, Shown(p, b) PROVE FALSE
          BY <1>0, <3>2, <5>2 DEF Shown, IssueWrite, UneditedInv, BoletoInHand
        <5> QED
          BY <3>2, <5>1, <5>2 DEF BoletoChanges, Paid
      <4>2. proc[p].pc = "request_boleto" /\ c = proc[p].charge /\ bank'[b].amount = proc[p].row.net
        BY <2>1, <4>1 DEF Registered
      <4> QED
        BY <1>0, <4>2 DEF UneditedInv, AmountInHand, ChargeInHand, HoldingCharge
    <3> QED
      BY <3>1, <3>2
  <2> QED
    BY <2>1, <2>2, AmountStays DEF Exists
<1> QED
  BY <1>1, <1>3, <1>4, <1>5 DEF UneditedInv

-----------------------------------------------------------------------------
(* Rows that are sealed, payments that are filed *)

LEMMA SealedStays ==
    ASSUME RowInv, [Next]_vars, NEW c \in Charges, Sealed(c)
    PROVE  /\ Sealed(c)'
           /\ charge'[c].boleto = charge[c].boleto
           /\ charge'[c].net = charge[c].net
<1>0. TypeOK /\ ChargeInHand
  BY DEF RowInv
<1>1. charge[c].issue = "issued"
  BY DEF Sealed
<1>2. charge'[c].issue = "issued"
  BY <1>1, IssuedStays
<1>3. charge'[c].boleto = charge[c].boleto /\ charge'[c].net = charge[c].net
  <2>1. charge'[c] = charge[c] \/ RowChanges(c)
    BY StepChangesRow DEF RowInv, Only
  <2>2. ASSUME NEW p \in Procs, IssuedBy(p, c) PROVE FALSE
    BY <2>2 DEF IssuedBy, IssueWrite, Sealed
  <2> QED
    BY <1>1, <2>1, <2>2 DEF RowChanges, Created, SameButAmount, SettledBy, MarkedBy, SameButPay, Sealed
<1>4. ASSUME NEW p \in Procs, proc'[p].pc \in {"write_items", "request_boleto", "write_issue"}
      PROVE  proc'[p].charge # c
  <2>1. CASE proc'[p] = proc[p]
    BY <1>4, <2>1 DEF Sealed
  <2>2. CASE proc'[p] # proc[p]
    <3>1. Reaches(proc[p], proc'[p])
      BY <1>0, <2>2, OwnMoves, MovesReach
    <3>2. Editing(proc'[p]) \/ Registering(proc[p], proc'[p])
      BY <1>4, <3>1, IdleType DEF Reaches, Drafted, Found, Accepted, Noticed, Reread, Parking,
         Linking, Scanned
    <3> QED
      BY <1>1, <3>2 DEF Editing, Registering, Sealed
  <2> QED
    BY <2>1, <2>2
<1> QED
  BY <1>2, <1>3, <1>4 DEF Sealed

LEMMA FiledStays ==
    ASSUME RowInv, [Next]_vars, NEW k \in Payments, Filed(k)
    PROVE  Filed(k)' /\ payment'[k] = payment[k]
<1>0. TypeOK
  BY DEF RowInv
<1>1. payment'[k] = payment[k]
  <2>1. PaymentChanges(k)
    BY <1>0, StepChangesPayment
  <2>2. ASSUME NEW p \in Procs, LinkedBy(p, k) PROVE FALSE
    BY <2>2 DEF LinkedBy, ReconcileWrite, Filed
  <2> QED
    BY <2>1, <2>2 DEF PaymentChanges, InsertedBy, Filed
<1>2. ASSUME NEW p \in Procs, proc'[p].pc \in {"read_charge", "link"}
      PROVE  proc'[p].payment # k
  <2>1. CASE proc'[p] = proc[p]
    BY <1>2, <2>1 DEF Filed
  <2>2. CASE proc'[p] # proc[p]
    <3>1. Reaches(proc[p], proc'[p])
      BY <1>0, <2>2, OwnMoves, MovesReach
    <3>2. Linking(proc[p], proc'[p])
      BY <1>2, <3>1, IdleType DEF Reaches, Drafted, Editing, Registering, Found, Accepted, Noticed,
         Reread, Parking, Scanned
    <3> QED
      BY <3>2 DEF Linking, Filed
  <2> QED
    BY <2>1, <2>2
<1> QED
  BY <1>1, <1>2 DEF Filed

-----------------------------------------------------------------------------
(* How often a boleto is recorded *)

Records(b) == {k \in Payments : payment[k].ref = b}

\* The requests that have looked for the payment of b and will record it.
AboutToRecord(b) == {p \in Procs : proc[p].pc = "record" /\ proc[p].ref = b}

(* Once b is recorded, nobody joins those who will record it: with each      *)
(* record there is one fewer of them.                                        *)
Counted(b) ==
    /\ IsFiniteSet(Records(b))
    /\ Records(b) # {} =>
          Cardinality(Records(b)) + Cardinality(AboutToRecord(b)) <= Cardinality(Procs)

LEMMA AboutIsFinite ==
    ASSUME NEW b \in Boletos
    PROVE  /\ IsFiniteSet(AboutToRecord(b)) /\ Cardinality(AboutToRecord(b)) \in Nat
           /\ Cardinality(AboutToRecord(b)) <= Cardinality(Procs) /\ Cardinality(Procs) \in Nat
<1>1. AboutToRecord(b) \subseteq Procs /\ IsFiniteSet(Procs)
  BY BillingAssumption DEF AboutToRecord
<1>2. IsFiniteSet(AboutToRecord(b)) /\ Cardinality(AboutToRecord(b)) <= Cardinality(Procs)
  BY <1>1, FS_Subset
<1>3. Cardinality(AboutToRecord(b)) \in Nat /\ Cardinality(Procs) \in Nat
  BY <1>1, <1>2, FS_CardinalityType
<1> QED
  BY <1>2, <1>3

(* One request records b and is done with it. *)
LEMMA OneMoreRecord ==
    ASSUME KnownInv, [Next]_vars, NEW b \in Boletos, NEW k \in Payments,
           payment'[k].ref = b, payment[k].ref # b
    PROVE  \E p \in Procs : /\ p \in AboutToRecord(b)
                            /\ AboutToRecord(b)' = AboutToRecord(b) \ {p}
                            /\ Records(b)' = Records(b) \cup {k}
<1>0. TypeOK /\ b \notin PixRefs
  BY BillingAssumption DEF KnownInv, BoletoInv, RowInv
<1>1. PICK p \in Procs : InsertedBy(p, k)
  BY <1>0, StepChangesPayment DEF PaymentChanges, LinkedBy
<1>2. RecordPayment(p) /\ proc[p].ref = b
  BY <1>1 DEF InsertedBy, ParkPayment, KnownInv, BoletoInv, PaidInHand
<1>3. proc[p].pc = "record" /\ Finish(p)
  BY <1>2 DEF RecordPayment
<1>4. proc'[p] = Idle /\ \A q \in Procs \ {p} : proc'[q] = proc[q]
  BY <1>0, <1>3 DEF Finish, TypeOK
<1>5. AboutToRecord(b)' = AboutToRecord(b) \ {p}
  BY <1>4, IdleType DEF AboutToRecord
<1>6. \A j \in Payments \ {k} : payment'[j].ref = payment[j].ref
  <2>1. PICK j \in Payments : \E row :
          payment[j].recon = "absent" /\ payment' = [payment EXCEPT ![j] = row]
    BY <1>2 DEF RecordPayment, InsertPayment
  <2>2. k = j
    BY <1>0, <2>1 DEF TypeOK
  <2> QED
    BY <1>0, <2>1, <2>2 DEF TypeOK
<1>7. Records(b)' = Records(b) \cup {k}
  BY <1>6 DEF Records
<1> QED
  BY <1>2, <1>3, <1>5, <1>7 DEF AboutToRecord

(* A request that finds b recorded does not join. *)
LEMMA NobodyJoins ==
    ASSUME KnownInv, [Next]_vars, NEW b \in Boletos, Records(b) # {}
    PROVE  AboutToRecord(b)' \subseteq AboutToRecord(b)
<1> SUFFICES ASSUME NEW p \in Procs, proc'[p].pc = "record", proc'[p].ref = b, proc'[p] # proc[p]
             PROVE  FALSE
  BY DEF AboutToRecord
<1>0. TypeOK /\ b \notin PixRefs
  BY BillingAssumption DEF KnownInv, BoletoInv, RowInv
<1>1. Reaches(proc[p], proc'[p])
  BY <1>0, OwnMoves, MovesReach
<1>2. Accepted(proc[p], proc'[p])
  BY <1>0, <1>1, IdleType DEF Reaches, Drafted, Editing, Registering, Found, Noticed, Reread,
     Parking, Linking, Scanned, KnownInv, BoletoInv, PaidInHand
<1>3. /\ proc[p].pc = "check_duplicate" /\ proc[p].ref = b
      /\ ~AlreadyRecorded(proc[p].charge, b)
  BY <1>2 DEF Accepted
<1>4. bank[b].charge = proc[p].charge
  BY <1>3 DEF KnownInv, BoletoInv, PaidInHand
<1>5. PICK k \in Payments : payment[k].ref = b
  BY DEF Records
<1>6. payment[k].charge = proc[p].charge
  BY <1>4, <1>5 DEF KnownInv, BoletoPaymentOnOwnCharge
<1> QED
  BY <1>3, <1>5, <1>6 DEF AlreadyRecorded

LEMMA CountedStep ==
    ASSUME KnownInv, [Next]_vars, NEW b \in Boletos, Counted(b)
    PROVE  Counted(b)'
<1> DEFINE R == Records(b)
           A == AboutToRecord(b)
           n == Cardinality(Procs)
<1>0. /\ IsFiniteSet(A) /\ Cardinality(A) \in Nat /\ Cardinality(A) <= n /\ n \in Nat
      /\ IsFiniteSet(A') /\ Cardinality(A') \in Nat
  <2>1. A' = {p \in Procs : proc'[p].pc = "record" /\ proc'[p].ref = b}
    BY DEF AboutToRecord
  <2>2. IsFiniteSet(A')
    BY <2>1, BillingAssumption, FS_Subset
  <2> QED
    BY <2>2, AboutIsFinite, FS_CardinalityType
<1>1. IsFiniteSet(R) /\ Cardinality(R) \in Nat
  BY FS_CardinalityType DEF Counted
<1>2. R # {} => Cardinality(R) + Cardinality(A) <= n
  BY DEF Counted
<1>3. CASE \E k \in Payments : payment'[k].ref = b /\ payment[k].ref # b
  <2>1. PICK k \in Payments, p \in Procs :
          /\ payment[k].ref # b /\ p \in A /\ A' = A \ {p} /\ R' = R \cup {k}
    BY <1>3, OneMoreRecord
  <2>2. Cardinality(A') = Cardinality(A) - 1
    BY <1>0, <2>1, FS_RemoveElement
  <2>3. k \notin R
    BY <2>1 DEF Records
  <2>4. IsFiniteSet(R') /\ Cardinality(R') = Cardinality(R) + 1
    BY <1>1, <2>1, <2>3, FS_AddElement
  <2>5. R = {} => Cardinality(R) = 0
    BY FS_EmptySet
  <2>6. Cardinality(R') + Cardinality(A') <= n
    <3> HIDE DEF R, A, n
    <3> QED
      BY <1>0, <1>1, <1>2, <2>2, <2>4, <2>5
  <2> QED
    BY <2>4, <2>6 DEF Counted
<1>4. CASE ~\E k \in Payments : payment'[k].ref = b /\ payment[k].ref # b
  <2>1. R' \subseteq R
    BY <1>4 DEF Records
  <2>2. IsFiniteSet(R') /\ Cardinality(R') <= Cardinality(R) /\ Cardinality(R') \in Nat
    BY <1>1, <2>1, FS_Subset, FS_CardinalityType
  <2>3. ASSUME R' # {} PROVE Cardinality(R') + Cardinality(A') <= n
    <3>1. R # {}
      BY <2>1, <2>3
    <3>2. A' \subseteq A
      BY <3>1, NobodyJoins
    <3>3. Cardinality(A') <= Cardinality(A)
      BY <1>0, <3>2, FS_Subset
    <3> HIDE DEF R, A, n
    <3> QED
      BY <1>0, <1>1, <1>2, <2>2, <3>1, <3>3
  <2> QED
    BY <2>2, <2>3 DEF Counted
<1> QED
  BY <1>3, <1>4

-----------------------------------------------------------------------------
(* Theorems *)

(* However many requests issue the same charge, or charges of one period, at *)
(* the same time: only an edit that overlaps them can make the boleto a      *)
(* tenant holds differ from what the charge says.                            *)
THEOREM OnlyEditsChangeAmount ==
    ASSUME "edit" \notin Ops PROVE Spec => [](\A c \in Charges : Agrees(c))
<1>1. UneditedInv => \A c \in Charges : Agrees(c)
  BY DEF UneditedInv, StoredBoletoIsOwn, AmountAtBank, Agrees
<1> QED
  BY <1>1, UneditedInit, UneditedStep, PTL DEF Spec

(* Nothing but the write of a request that was overtaken leaves a tenant    *)
(* with a boleto that is not for the amount of the charge.                  *)
THEOREM BoletoAmountHolds == Spec => BoletoAmountStays
<1> DEFINE A == Timely => \A c \in Charges : Agrees(c) => Agrees(c)'
<1>1. KnownInv /\ [Next]_vars => [A]_vars
  BY AgreesStays
<1> QED
  BY <1>1, KnownInit, KnownStep, PTL DEF Spec, BoletoAmountStays

(* A paid boleto is recorded at most once for each request that looked for  *)
(* the payment before it was recorded, however often the bank repeats its   *)
(* notice.                                                                  *)
THEOREM RecordsAreBounded == Spec => []RecordedPerRequest
<1> DEFINE AllCounted == \A b \in Boletos : Counted(b)
<1>1. Init => AllCounted
  <2> SUFFICES ASSUME Init, NEW b \in Boletos PROVE Counted(b)
    OBVIOUS
  <2>1. Records(b) = {}
    BY BillingAssumption DEF Init, AbsentPayment, Records
  <2> QED
    BY <2>1, FS_EmptySet DEF Counted
<1>2. KnownInv /\ AllCounted /\ [Next]_vars => AllCounted'
  BY CountedStep
<1>3. AllCounted => RecordedPerRequest
  <2> SUFFICES ASSUME NEW b \in Boletos, Counted(b) PROVE Cardinality(Records(b)) <= Cardinality(Procs)
    BY DEF RecordedPerRequest, Records
  <2>1. Cardinality(AboutToRecord(b)) \in Nat /\ Cardinality(Procs) \in Nat
    BY AboutIsFinite
  <2>2. Cardinality(Records(b)) \in Nat
    BY FS_CardinalityType DEF Counted
  <2>3. Records(b) = {} => Cardinality(Records(b)) = 0
    BY FS_EmptySet
  <2> QED
    BY <2>1, <2>2, <2>3 DEF Counted
<1> QED
  BY <1>1, <1>2, <1>3, KnownInit, KnownStep, PTL DEF Spec

(* The handlers implement the book: each reads, awaits and writes in several *)
(* steps, may die between them and overlap with any number of others, and    *)
(* only a write that was overtaken is not a step of the book.                *)
THEOREM BillingImplementsBook == Spec => ImplementsBook
<1>1. Init => Book!Init
  BY DEF Init, Book!Init, AbsentRow, AbsentPayment, entry
<1>2. KnownInv /\ [Next]_vars => [Timely => [Book!Next]_<<entry, payment>>]_vars
  BY StepHasEffect, EffectIsBookStep DEF KnownInv, BoletoInv, RowInv
<1> QED
  BY <1>1, <1>2, KnownInit, KnownStep, PTL DEF Spec, ImplementsBook

(* A payment that is settled and that nobody is reconciling stays as it is. *)
THEOREM ReconciledPaymentStays == Spec => ReconciledStays
<1> DEFINE A == \A k \in Payments : Filed(k) => Filed(k)' /\ payment'[k] = payment[k]
<1>1. RowInv /\ [Next]_vars => [A]_vars
  BY FiledStays
<1> QED
  BY <1>1, RowInvInit, RowInvStep, PTL DEF Spec, ReconciledStays

(* An issued charge that no request holds as a draft any more keeps its      *)
(* status, its boleto and its amount.                                        *)
THEOREM IssuedStaysAsIs == Spec => IssuedIsFinal
<1> DEFINE A == \A c \in Charges : Sealed(c) =>
                  /\ Sealed(c)'
                  /\ charge'[c].boleto = charge[c].boleto
                  /\ charge'[c].net = charge[c].net
<1>1. RowInv /\ [Next]_vars => [A]_vars
  BY SealedStays
<1> QED
  BY <1>1, RowInvInit, RowInvStep, PTL DEF Spec, IssuedIsFinal
=============================================================================
