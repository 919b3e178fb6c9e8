---------------------------- MODULE Books_proofs ----------------------------
(***************************************************************************)
(* Proofs about the books that MCTreasury keeps: Receivables writes them   *)
(* while syncs and payments race, and InflowSync compares them with the    *)
(* chain.  Each is proved of its component's own specification, which      *)
(* every behaviour of MCTreasury satisfies.                                *)
(***************************************************************************)
EXTENDS MCTreasury, Sequences, Integers, Sums_proofs, FiniteSetTheorems, WellFoundedInduction, TLAPS

(***************************************************************************)
(* Receivables. BooksFit is what the tables and the ledger say of each       *)
(* other; the sums in it change with what a step adds, takes or moves.  A    *)
(* recorder writes what it read to be missing, which stays so, because only  *)
(* its own method could have written it since: Fresh.                        *)
(***************************************************************************)
NetOf(entries, code) == AmountSum({e \in entries : e.code = code})
AppliedOf(rows, v) == AmountSum({f \in rows : f.invoice = v})
Owes(x) == IF x.status \in {"open", "paid"} THEN x.due - x.paid ELSE 0
OwedOf(invoices) == SumOver([v \in Invoice |-> Owes(invoices[v])], Invoice)

Row == [receipt : Receipt, event : {"log", "x402"}, amount : Int, invoice : Invoice \cup {None}]
EntriesOK(entries) == IsFiniteSet(entries) /\ \A e \in entries : e.amount \in Int

\* A receipt is written once by each of the two methods.
Keys(rows) == \A f, g \in rows : f.receipt = g.receipt /\ f.event = g.event => f = g
Once(rows) == \A f, g \in rows : f.receipt = g.receipt => f = g

\* What is posted says what happened.
RefsFit(invoices, rows, entries) ==
  \A e \in entries :
    /\ e.ref[1] = "in" => \E f \in rows : f.receipt = e.ref[2] /\ f.event = e.ref[3]
    /\ e.ref[1] = "allocated" =>
         \E f \in rows : f.receipt = e.ref[2] /\ f.event = e.ref[3] /\ f.invoice # None
    /\ e.ref[1] = "issued" => e.ref[2] \in Invoice /\ invoices[e.ref[2]].status \notin {"none", "draft"}
    /\ e.ref[1] = "void" => e.ref[2] \in Invoice /\ invoices[e.ref[2]].status = "void"

InvoicesFit(invoices, rows) ==
  \A v \in Invoice :
    /\ invoices[v].paid = AppliedOf(rows, v)
    /\ invoices[v].status = "paid" <=> invoices[v].paid >= Subtotal
    /\ invoices[v].status \in {"none", "draft", "void"} => invoices[v].paid = 0

NetsFit(invoices, rows, entries) ==
  /\ NetOf(entries, "unallocated") = -AppliedOf(rows, None)
  /\ NetOf(entries, "receivable") = OwedOf(invoices)

InvoiceRow == [status : {"none", "draft", "open", "paid", "void"}, due : Int, paid : Int]
BooksTyped(invoices, rows, entries) ==
  /\ invoices \in [Invoice -> InvoiceRow]
  /\ rows \subseteq Row /\ IsFiniteSet(rows)
  /\ EntriesOK(entries)
BooksFit(invoices, rows, entries) ==
  /\ BooksTyped(invoices, rows, entries)
  /\ Keys(rows)
  /\ RefsFit(invoices, rows, entries)
  /\ InvoicesFit(invoices, rows)
  /\ NetsFit(invoices, rows, entries)

LEMMA NetType == ASSUME NEW L, EntriesOK(L), NEW code PROVE NetOf(L, code) \in Int
BY AmountType, FS_Subset DEF NetOf, EntriesOK

LEMMA NetAdds ==
  ASSUME NEW L, EntriesOK(L), NEW e, e \notin L, e.amount \in Int
  PROVE  /\ EntriesOK(L \cup {e})
         /\ NetOf(L \cup {e}, e.code) = NetOf(L, e.code) + e.amount
         /\ \A code : code # e.code => NetOf(L \cup {e}, code) = NetOf(L, code)
<1>1. EntriesOK(L \cup {e})
  BY FS_AddElement DEF EntriesOK
<1> DEFINE S == {x \in L : x.code = e.code}
<1>2. IsFiniteSet(S) /\ e \notin S /\ \A x \in S : x.amount \in Int
  BY FS_Subset DEF EntriesOK
<1>3. {x \in L \cup {e} : x.code = e.code} = S \cup {e}
  OBVIOUS
<1> HIDE DEF S
<1>4. AmountSum(S \cup {e}) = AmountSum(S) + e.amount
  BY <1>2, AmountAdds
<1>5. NetOf(L \cup {e}, e.code) = NetOf(L, e.code) + e.amount
  BY <1>3, <1>4 DEF NetOf, S
<1>6. ASSUME NEW code, code # e.code PROVE NetOf(L \cup {e}, code) = NetOf(L, code)
  <2>1. {x \in L \cup {e} : x.code = code} = {x \in L : x.code = code}
    BY <1>6
  <2> QED
    BY <2>1 DEF NetOf
<1> QED
  BY <1>1, <1>5, <1>6

\* A posting under a new reference debits one account and credits the other.
LEMMA PostNew ==
  ASSUME NEW L, EntriesOK(L), NEW ref, \A e \in L : e.ref # ref,
         NEW debit, NEW credit, debit # credit, NEW amount \in Int
  PROVE  LET P == Books!Post(L, ref, debit, credit, amount)
         IN /\ EntriesOK(P)
            /\ NetOf(P, debit) = NetOf(L, debit) + amount
            /\ NetOf(P, credit) = NetOf(L, credit) - amount
            /\ \A code : code \notin {debit, credit} => NetOf(P, code) = NetOf(L, code)
<1> DEFINE a == [ref |-> ref, code |-> debit, amount |-> amount]
<1> DEFINE b == [ref |-> ref, code |-> credit, amount |-> -amount]
<1> DEFINE M == L \cup {a}
<1> DEFINE P == M \cup {b}
<1>1. Books!Post(L, ref, debit, credit, amount) = P
  BY DEF Books!Post
<1>2. a.ref = ref /\ b.ref = ref /\ a.code = debit /\ b.code = credit /\ a.amount = amount
      /\ b.amount = -amount
  OBVIOUS
<1>3. a \notin L /\ b \notin M
  BY <1>2
<1> HIDE DEF a, b
<1>4. EntriesOK(M) /\ NetOf(M, debit) = NetOf(L, debit) + amount
      /\ \A code : code # debit => NetOf(M, code) = NetOf(L, code)
  BY <1>2, <1>3, NetAdds
<1> HIDE DEF M
<1>5. EntriesOK(P) /\ NetOf(P, credit) = NetOf(M, credit) + (-amount)
      /\ \A code : code # credit => NetOf(P, code) = NetOf(M, code)
  BY <1>2, <1>3, <1>4, NetAdds
<1> HIDE DEF P
<1>6. NetOf(L, credit) \in Int
  BY NetType
<1>7. NetOf(P, credit) = NetOf(L, credit) - amount
  BY <1>4, <1>5, <1>6
<1> QED
  BY <1>1, <1>4, <1>5, <1>7

\* A posting leaves the other accounts alone.
LEMMA PostOther ==
  ASSUME NEW L, EntriesOK(L), NEW ref, NEW debit, NEW credit, debit # credit, NEW amount \in Int
  PROVE  LET P == Books!Post(L, ref, debit, credit, amount)
         IN /\ EntriesOK(P)
            /\ \A code : code \notin {debit, credit} => NetOf(P, code) = NetOf(L, code)
<1>1. CASE \E e \in L : e.ref = ref
  BY <1>1 DEF Books!Post
<1>2. CASE \A e \in L : e.ref # ref
  BY <1>2, PostNew
<1> QED
  BY <1>1, <1>2

LEMMA PostRefs ==
  ASSUME NEW L, NEW ref, NEW debit, NEW credit, NEW amount
  PROVE  \A e \in Books!Post(L, ref, debit, credit, amount) : e \in L \/ e.ref = ref
BY DEF Books!Post

LEMMA AppliedType ==
  ASSUME NEW I, I \subseteq Row, IsFiniteSet(I), NEW v
  PROVE  /\ IsFiniteSet({f \in I : f.invoice = v})
         /\ \A f \in {f \in I : f.invoice = v} : f.amount \in Int
         /\ AppliedOf(I, v) \in Int
<1>1. IsFiniteSet({f \in I : f.invoice = v}) /\ \A f \in {f \in I : f.invoice = v} : f.amount \in Int
  BY FS_Subset DEF Row
<1> QED
  BY <1>1, AmountType DEF AppliedOf

LEMMA AppliedAdds ==
  ASSUME NEW I, I \subseteq Row, IsFiniteSet(I), NEW f \in Row, f \notin I
  PROVE  /\ I \cup {f} \subseteq Row /\ IsFiniteSet(I \cup {f})
         /\ AppliedOf(I \cup {f}, f.invoice) = AppliedOf(I, f.invoice) + f.amount
         /\ \A v : v # f.invoice => AppliedOf(I \cup {f}, v) = AppliedOf(I, v)
<1>1. I \cup {f} \subseteq Row /\ IsFiniteSet(I \cup {f})
  BY FS_AddElement
<1> DEFINE S == {g \in I : g.invoice = f.invoice}
<1>2. IsFiniteSet(S) /\ (\A g \in S : g.amount \in Int) /\ f \notin S /\ f.amount \in Int
  BY AppliedType DEF Row
<1>3. {g \in I \cup {f} : g.invoice = f.invoice} = S \cup {f}
  OBVIOUS
<1> HIDE DEF S
<1>4. AmountSum(S \cup {f}) = AmountSum(S) + f.amount
  BY <1>2, AmountAdds
<1>5. AppliedOf(I \cup {f}, f.invoice) = AppliedOf(I, f.invoice) + f.amount
  BY <1>3, <1>4 DEF AppliedOf, S
<1>6. ASSUME NEW v, v # f.invoice PROVE AppliedOf(I \cup {f}, v) = AppliedOf(I, v)
  <2>1. {g \in I \cup {f} : g.invoice = v} = {g \in I : g.invoice = v}
    BY <1>6
  <2> QED
    BY <2>1 DEF AppliedOf
<1> QED
  BY <1>1, <1>5, <1>6

LEMMA AppliedMoves ==
  ASSUME NEW I, I \subseteq Row, IsFiniteSet(I), NEW f \in I, f.invoice = None, NEW v \in Invoice,
         [f EXCEPT !.invoice = v] \notin I
  PROVE  LET J == (I \ {f}) \cup {[f EXCEPT !.invoice = v]}
         IN /\ J \subseteq Row /\ IsFiniteSet(J)
            /\ AppliedOf(J, None) = AppliedOf(I, None) - f.amount
            /\ AppliedOf(J, v) = AppliedOf(I, v) + f.amount
            /\ \A u : u \notin {None, v} => AppliedOf(J, u) = AppliedOf(I, u)
<1> DEFINE K == I \ {f}
<1> DEFINE g == [f EXCEPT !.invoice = v]
<1>0. K \subseteq Row /\ IsFiniteSet(K) /\ f \notin K /\ K \cup {f} = I /\ f \in Row
  BY FS_Subset
<1>1. g \in Row /\ g \notin K /\ g.invoice = v /\ g.amount = f.amount /\ v # None /\ f.amount \in Int
  BY TreasuryAssumption DEF Row
<1> HIDE DEF g, K
<1>2. /\ AppliedOf(I, None) = AppliedOf(K, None) + f.amount
      /\ \A u : u # None => AppliedOf(I, u) = AppliedOf(K, u)
  BY <1>0, AppliedAdds
<1>3. /\ K \cup {g} \subseteq Row /\ IsFiniteSet(K \cup {g})
      /\ AppliedOf(K \cup {g}, v) = AppliedOf(K, v) + f.amount
      /\ \A u : u # v => AppliedOf(K \cup {g}, u) = AppliedOf(K, u)
  BY ONLY <1>0, <1>1, AppliedAdds
<1>4. AppliedOf(K, None) \in Int /\ f.amount \in Int
  BY <1>0, <1>1, AppliedType
<1> DEFINE k == AppliedOf(K, None)
<1> DEFINE m == f.amount
<1>6. k \in Int /\ m \in Int /\ AppliedOf(I, None) = k + m /\ AppliedOf(K \cup {g}, None) = k
  BY <1>1, <1>2, <1>3, <1>4
<1> HIDE DEF k, m
<1>5. AppliedOf(K \cup {g}, None) = AppliedOf(I, None) - m
  BY <1>6
<1> QED
  BY <1>1, <1>2, <1>3, <1>5 DEF g, K, m

\* What an invoice owes changes what is owed by as much.
LEMMA OwedChanges ==
  ASSUME NEW inv \in [Invoice -> InvoiceRow], NEW v \in Invoice, NEW x \in InvoiceRow
  PROVE  /\ OwedOf([inv EXCEPT ![v] = x]) = OwedOf(inv) + Owes(x) - Owes(inv[v])
         /\ OwedOf(inv) \in Int /\ Owes(x) \in Int /\ Owes(inv[v]) \in Int
<1> DEFINE w == [u \in Invoice |-> Owes(inv[u])]
<1> DEFINE z == [u \in Invoice |-> Owes([inv EXCEPT ![v] = x][u])]
<1>1. \A y \in InvoiceRow : Owes(y) \in Int
  BY DEF Owes, InvoiceRow
<1>2. \A u \in Invoice : w[u] \in Int /\ z[u] \in Int
  BY <1>1
<1>3. \A u \in Invoice : u # v => w[u] = z[u]
  OBVIOUS
<1>4. w[v] = Owes(inv[v]) /\ z[v] = Owes(x)
  OBVIOUS
<1>5. IsFiniteSet(Invoice)
  BY TreasuryAssumption
<1>7. OwedOf(inv) = SumOver(w, Invoice) /\ OwedOf([inv EXCEPT ![v] = x]) = SumOver(z, Invoice)
  BY DEF OwedOf
<1> HIDE DEF w, z
<1>6. SumOver(z, Invoice) = SumOver(w, Invoice) + z[v] - w[v] /\ SumOver(w, Invoice) \in Int
  BY <1>2, <1>3, <1>5, SumChanges, SumType
<1> QED
  BY <1>1, <1>4, <1>6, <1>7

\* A change of status that neither owes more nor less.
LEMMA InsertFits ==
  ASSUME NEW inv, NEW I, NEW L, BooksFit(inv, I, L), NEW f \in Row, f.invoice = None,
         \A g \in I : ~(g.receipt = f.receipt /\ g.event = f.event)
  PROVE  BooksFit(inv, I \cup {f}, Books!Post(L, <<"in", f.receipt, f.event>>, "cash", "unallocated", f.amount))
<1> DEFINE ref == <<"in", f.receipt, f.event>>
<1> DEFINE P == Books!Post(L, ref, "cash", "unallocated", f.amount)
<1>0. /\ inv \in [Invoice -> InvoiceRow] /\ I \subseteq Row /\ IsFiniteSet(I) /\ EntriesOK(L)
      /\ f.amount \in Int /\ f \notin I
  BY DEF BooksFit, BooksTyped, Row
<1>1. /\ I \cup {f} \subseteq Row /\ IsFiniteSet(I \cup {f})
      /\ AppliedOf(I \cup {f}, None) = AppliedOf(I, None) + f.amount
      /\ \A v : v # None => AppliedOf(I \cup {f}, v) = AppliedOf(I, v)
  BY <1>0, AppliedAdds
<1>2. \A e \in L : e.ref # ref
  <2> SUFFICES ASSUME NEW e \in L, e.ref = ref PROVE FALSE
    OBVIOUS
  <2>1. e.ref[1] = "in" /\ e.ref[2] = f.receipt /\ e.ref[3] = f.event
    OBVIOUS
  <2> QED
    BY <2>1 DEF BooksFit, RefsFit
<1>3. /\ EntriesOK(P)
      /\ NetOf(P, "unallocated") = NetOf(L, "unallocated") - f.amount
      /\ NetOf(P, "receivable") = NetOf(L, "receivable")
  <2> HIDE DEF ref
  <2> QED
    BY <1>0, <1>2, PostNew
<1>4. \A e \in P : e \in L \/ (e.ref[1] = "in" /\ e.ref[2] = f.receipt /\ e.ref[3] = f.event)
  BY PostRefs
<1> HIDE DEF P, ref
<1>5. Keys(I \cup {f})
  BY DEF BooksFit, Keys
<1>6. RefsFit(inv, I \cup {f}, P)
  BY <1>4 DEF BooksFit, RefsFit
<1>7. InvoicesFit(inv, I \cup {f})
  BY <1>1, TreasuryAssumption DEF BooksFit, InvoicesFit
<1>8. NetsFit(inv, I \cup {f}, P)
  <2>1. /\ NetOf(L, "unallocated") = -AppliedOf(I, None) /\ NetOf(L, "receivable") = OwedOf(inv)
        /\ AppliedOf(I, None) \in Int
    BY <1>0, AppliedType DEF BooksFit, NetsFit
  <2>2. NetOf(P, "unallocated") = -AppliedOf(I \cup {f}, None)
    BY <1>0, <1>1, <1>3, <2>1
  <2> QED
    BY <1>3, <2>1, <2>2 DEF NetsFit
<1>9. BooksFit(inv, I \cup {f}, P)
  BY <1>0, <1>1, <1>3, <1>5, <1>6, <1>7, <1>8 DEF BooksFit, BooksTyped
<1> QED
  BY <1>9 DEF P, ref

LEMMA AllocateFits ==
  ASSUME NEW inv, NEW I, NEW L, BooksFit(inv, I, L), NEW f \in I, f.invoice = None,
         NEW v \in Invoice, inv[v].status = "open"
  PROVE  LET total == inv[v].paid + f.amount
         IN BooksFit([inv EXCEPT ![v].paid = total, ![v].status = IF total >= Subtotal THEN "paid" ELSE "open"],
                     (I \ {f}) \cup {[f EXCEPT !.invoice = v]},
                     Books!Post(L, <<"allocated", f.receipt, f.event, v>>, "unallocated", "receivable", f.amount))
<1> DEFINE total == inv[v].paid + f.amount
<1> DEFINE x == [inv[v] EXCEPT !.paid = total, !.status = IF total >= Subtotal THEN "paid" ELSE "open"]
<1> DEFINE jnv == [inv EXCEPT ![v].paid = total, ![v].status = IF total >= Subtotal THEN "paid" ELSE "open"]
<1> DEFINE g == [f EXCEPT !.invoice = v]
<1> DEFINE J == (I \ {f}) \cup {g}
<1> DEFINE ref == <<"allocated", f.receipt, f.event, v>>
<1> DEFINE P == Books!Post(L, ref, "unallocated", "receivable", f.amount)
<1>0. /\ inv \in [Invoice -> InvoiceRow] /\ I \subseteq Row /\ IsFiniteSet(I) /\ EntriesOK(L)
      /\ f \in Row /\ f.amount \in Int /\ v # None
  BY TreasuryAssumption DEF BooksFit, BooksTyped, Row
<1>1. g.receipt = f.receipt /\ g.event = f.event /\ g.invoice = v /\ g.amount = f.amount
  BY <1>0 DEF Row
<1>2. g \notin I
  BY <1>0, <1>1 DEF BooksFit, Keys
<1>3. /\ J \subseteq Row /\ IsFiniteSet(J)
      /\ AppliedOf(J, None) = AppliedOf(I, None) - f.amount
      /\ AppliedOf(J, v) = AppliedOf(I, v) + f.amount
      /\ \A u : u \notin {None, v} => AppliedOf(J, u) = AppliedOf(I, u)
  BY <1>0, <1>2, AppliedMoves
<1>4. jnv = [inv EXCEPT ![v] = x]
  BY <1>0
<1>5. x \in InvoiceRow /\ x.paid = total /\ x.due = inv[v].due
      /\ x.status = IF total >= Subtotal THEN "paid" ELSE "open"
  <2>1. inv[v] \in InvoiceRow /\ total \in Int
    BY <1>0 DEF InvoiceRow
  <2> HIDE DEF total
  <2> QED
    BY <2>1 DEF InvoiceRow
<1>6. inv[v].status = "open" /\ inv[v].paid \in Int /\ inv[v].due \in Int
  BY <1>0 DEF InvoiceRow
<1> HIDE DEF x
<1>7. Owes(x) = Owes(inv[v]) - f.amount
  BY <1>0, <1>5, <1>6 DEF Owes
<1>8. \A e \in L : e.ref # ref
  <2> SUFFICES ASSUME NEW e \in L, e.ref = ref PROVE FALSE
    OBVIOUS
  <2>1. e.ref[1] = "allocated" /\ e.ref[2] = f.receipt /\ e.ref[3] = f.event
    OBVIOUS
  <2>2. PICK h \in I : h.receipt = f.receipt /\ h.event = f.event /\ h.invoice # None
    BY <2>1 DEF BooksFit, RefsFit
  <2> QED
    BY <2>2 DEF BooksFit, Keys
<1>9. /\ EntriesOK(P)
      /\ NetOf(P, "unallocated") = NetOf(L, "unallocated") + f.amount
      /\ NetOf(P, "receivable") = NetOf(L, "receivable") - f.amount
  BY <1>0, <1>8, PostNew
<1>10. \A e \in P : e \in L \/ (e.ref[1] = "allocated" /\ e.ref[2] = f.receipt /\ e.ref[3] = f.event)
  BY PostRefs
<1> HIDE DEF P, ref, g
<1>11. jnv \in [Invoice -> InvoiceRow] /\ jnv[v] = x /\ \A u \in Invoice : u # v => jnv[u] = inv[u]
  BY <1>0, <1>4, <1>5
<1>12. OwedOf(jnv) = OwedOf(inv) - f.amount /\ OwedOf(inv) \in Int
  <2>1. OwedOf(jnv) = OwedOf(inv) + Owes(x) - Owes(inv[v]) /\ OwedOf(inv) \in Int /\ Owes(inv[v]) \in Int
    <3>1. x \in InvoiceRow
      BY <1>5
    <3> HIDE DEF jnv
    <3> QED
      BY <1>0, <1>4, <3>1, OwedChanges
  <2> HIDE DEF jnv
  <2> QED
    BY <1>0, <1>7, <2>1
<1> HIDE DEF jnv
<1>13. Keys(J)
  BY <1>1 DEF BooksFit, Keys
<1>14. \A h \in I : \E j \in J : /\ j.receipt = h.receipt /\ j.event = h.event
                                 /\ h.invoice # None => j.invoice # None
  BY <1>1
<1>15. \E j \in J : j.receipt = f.receipt /\ j.event = f.event /\ j.invoice # None
  BY <1>0, <1>1
<1> HIDE DEF J
<1>16. RefsFit(jnv, J, P)
  <2> SUFFICES ASSUME NEW e \in P PROVE RefsFit(jnv, J, {e})
    BY DEF RefsFit
  <2>1. CASE e.ref[1] = "allocated" /\ e.ref[2] = f.receipt /\ e.ref[3] = f.event
    BY <1>15, <2>1 DEF RefsFit
  <2>2. CASE e \in L
    <3>1. x.status \notin {"none", "draft", "void"}
      BY <1>5
    <3> QED
      BY <1>6, <1>11, <1>14, <2>2, <3>1 DEF BooksFit, RefsFit
  <2> QED
    BY <1>10, <2>1, <2>2
<1>17. InvoicesFit(jnv, J)
  <2>1. inv[v].paid = AppliedOf(I, v)
    BY DEF BooksFit, InvoicesFit
  <2>2. x.paid = AppliedOf(J, v)
    BY <1>3, <1>5, <2>1
  <2>3. x.status = "paid" <=> x.paid >= Subtotal
    BY <1>5
  <2>4. x.status \notin {"none", "draft", "void"}
    BY <1>5
  <2> HIDE DEF total
  <2> QED
    BY <1>0, <1>3, <1>11, <2>2, <2>3, <2>4, TreasuryAssumption DEF BooksFit, InvoicesFit
<1>18. NetsFit(jnv, J, P)
  <2>1. /\ NetOf(L, "unallocated") = -AppliedOf(I, None) /\ NetOf(L, "receivable") = OwedOf(inv)
        /\ AppliedOf(I, None) \in Int
    BY <1>0, AppliedType DEF BooksFit, NetsFit
  <2>2. NetOf(P, "unallocated") = -AppliedOf(J, None)
    BY <1>0, <1>3, <1>9, <2>1
  <2>3. NetOf(P, "receivable") = OwedOf(jnv)
    BY <1>9, <1>12, <2>1
  <2> QED
    BY <2>2, <2>3 DEF NetsFit
<1>19. BooksFit(jnv, J, P)
  BY <1>3, <1>9, <1>11, <1>13, <1>16, <1>17, <1>18 DEF BooksFit, BooksTyped
<1> QED
  BY <1>19 DEF P, ref, g, J, jnv

\* An invoice moves on, and what it owes more or less is posted.
LEMMA InvoiceMoves ==
  ASSUME NEW inv, NEW I, NEW L, BooksFit(inv, I, L), NEW v \in Invoice, NEW x \in InvoiceRow,
         x.paid = inv[v].paid, inv[v].paid = 0, x.status \in {"draft", "open", "void"},
         NEW P, EntriesOK(P),
         NetOf(P, "unallocated") = NetOf(L, "unallocated"),
         NetOf(P, "receivable") = NetOf(L, "receivable") + Owes(x) - Owes(inv[v]),
         RefsFit([inv EXCEPT ![v] = x], I, P)
  PROVE  BooksFit([inv EXCEPT ![v] = x], I, P)
<1> DEFINE jnv == [inv EXCEPT ![v] = x]
<1>1. inv \in [Invoice -> InvoiceRow] /\ I \subseteq Row /\ IsFiniteSet(I)
  BY DEF BooksFit, BooksTyped
<1>2. jnv \in [Invoice -> InvoiceRow] /\ jnv[v] = x /\ \A u \in Invoice : u # v => jnv[u] = inv[u]
  BY <1>1
<1>3. OwedOf(jnv) = OwedOf(inv) + Owes(x) - Owes(inv[v])
  BY <1>1, OwedChanges
<1> HIDE DEF jnv
<1>4. InvoicesFit(jnv, I)
  BY <1>2, TreasuryAssumption DEF BooksFit, InvoicesFit
<1>5. NetsFit(jnv, I, P)
  BY <1>3 DEF BooksFit, NetsFit
<1> QED
  BY <1>1, <1>2, <1>4, <1>5 DEF BooksFit, BooksTyped, jnv

LEMMA CreateFits ==
  ASSUME NEW inv, NEW I, NEW L, BooksFit(inv, I, L), NEW v \in Invoice, inv[v].status = "none", NEW due \in Int
  PROVE  BooksFit([inv EXCEPT ![v] = [status |-> "draft", due |-> due, paid |-> 0]], I, L)
<1> DEFINE x == [status |-> "draft", due |-> due, paid |-> 0]
<1>1. x \in InvoiceRow /\ x.paid = 0 /\ x.status = "draft" /\ Owes(x) = 0 /\ Owes(inv[v]) = 0
  BY DEF InvoiceRow, Owes
<1>2. inv[v].paid = 0
  BY DEF BooksFit, InvoicesFit
<1>3. EntriesOK(L) /\ NetOf(L, "receivable") \in Int
  BY NetType DEF BooksFit, BooksTyped
<1>4. RefsFit([inv EXCEPT ![v] = x], I, L)
  BY DEF BooksFit, BooksTyped, RefsFit
<1> HIDE DEF x
<1>5. NetOf(L, "receivable") = NetOf(L, "receivable") + Owes(x) - Owes(inv[v])
  BY <1>1, <1>3
<1>6. BooksFit([inv EXCEPT ![v] = x], I, L)
  BY <1>1, <1>2, <1>3, <1>4, <1>5, InvoiceMoves
<1> QED
  BY <1>6 DEF x

LEMMA IssueFits ==
  ASSUME NEW inv, NEW I, NEW L, BooksFit(inv, I, L), NEW v \in Invoice, inv[v].status = "draft"
  PROVE  BooksFit([inv EXCEPT ![v].status = "open"], I,
                  Books!Post(L, <<"issued", v>>, "receivable", "revenue", inv[v].due))
<1> DEFINE x == [inv[v] EXCEPT !.status = "open"]
<1> DEFINE ref == <<"issued", v>>
<1> DEFINE P == Books!Post(L, ref, "receivable", "revenue", inv[v].due)
<1>0. inv \in [Invoice -> InvoiceRow] /\ EntriesOK(L) /\ inv[v] \in InvoiceRow /\ inv[v].paid = 0
  BY DEF BooksFit, BooksTyped, InvoicesFit
<1>1. /\ x \in InvoiceRow /\ x.paid = inv[v].paid /\ x.status = "open" /\ inv[v].due \in Int
      /\ Owes(x) = inv[v].due /\ Owes(inv[v]) = 0
  BY <1>0 DEF InvoiceRow, Owes
<1>2. \A e \in L : e.ref # ref
  <2> SUFFICES ASSUME NEW e \in L, e.ref = ref PROVE FALSE
    OBVIOUS
  <2>1. e.ref[1] = "issued" /\ e.ref[2] = v
    OBVIOUS
  <2> QED
    BY <2>1 DEF BooksFit, RefsFit
<1>3. \A e \in P : e \in L \/ (e.ref[1] = "issued" /\ e.ref[2] = v)
  BY PostRefs
<1> HIDE DEF ref
<1>4. /\ EntriesOK(P) /\ NetOf(P, "unallocated") = NetOf(L, "unallocated")
      /\ NetOf(P, "receivable") = NetOf(L, "receivable") + inv[v].due
  BY <1>0, <1>1, <1>2, PostNew
<1>5. NetOf(L, "receivable") \in Int
  BY <1>0, NetType
<1>6. [inv EXCEPT ![v].status = "open"] = [inv EXCEPT ![v] = x]
  BY <1>0
<1> HIDE DEF x, P
<1>7. RefsFit([inv EXCEPT ![v] = x], I, P)
  BY <1>0, <1>1, <1>3 DEF BooksFit, RefsFit
<1>8. NetOf(P, "receivable") = NetOf(L, "receivable") + Owes(x) - Owes(inv[v])
  BY <1>1, <1>4, <1>5
<1>9. BooksFit([inv EXCEPT ![v] = x], I, P)
  BY <1>0, <1>1, <1>4, <1>7, <1>8, InvoiceMoves
<1> QED
  BY <1>6, <1>9 DEF P, ref

LEMMA VoidFits ==
  ASSUME NEW inv, NEW I, NEW L, BooksFit(inv, I, L), NEW v \in Invoice, inv[v].status \in {"draft", "open"},
         inv[v].paid = 0
  PROVE  BooksFit([inv EXCEPT ![v].status = "void"], I,
                  IF inv[v].status = "draft" THEN L
                  ELSE Books!Post(L, <<"void", v>>, "revenue", "receivable", inv[v].due))
<1> DEFINE x == [inv[v] EXCEPT !.status = "void"]
<1> DEFINE ref == <<"void", v>>
<1> DEFINE P == Books!Post(L, ref, "revenue", "receivable", inv[v].due)
<1>0. inv \in [Invoice -> InvoiceRow] /\ EntriesOK(L) /\ inv[v] \in InvoiceRow
  BY DEF BooksFit, BooksTyped
<1>1. /\ x \in InvoiceRow /\ x.paid = inv[v].paid /\ x.status = "void" /\ inv[v].due \in Int
      /\ Owes(x) = 0 /\ Owes(inv[v]) = IF inv[v].status = "draft" THEN 0 ELSE inv[v].due
  BY <1>0 DEF InvoiceRow, Owes
<1>2. \A e \in L : e.ref # ref
  <2> SUFFICES ASSUME NEW e \in L, e.ref = ref PROVE FALSE
    OBVIOUS
  <2>1. e.ref[1] = "void" /\ e.ref[2] = v
    OBVIOUS
  <2> QED
    BY <2>1 DEF BooksFit, RefsFit
<1>3. \A e \in P : e \in L \/ (e.ref[1] = "void" /\ e.ref[2] = v)
  BY PostRefs
<1> HIDE DEF ref
<1>4. /\ EntriesOK(P) /\ NetOf(P, "unallocated") = NetOf(L, "unallocated")
      /\ NetOf(P, "receivable") = NetOf(L, "receivable") - inv[v].due
  BY <1>0, <1>1, <1>2, PostNew
<1>5. NetOf(L, "receivable") \in Int
  BY <1>0, NetType
<1>6. [inv EXCEPT ![v].status = "void"] = [inv EXCEPT ![v] = x]
  BY <1>0
<1> HIDE DEF x, P
<1>7. CASE inv[v].status = "draft"
  <2>1. RefsFit([inv EXCEPT ![v] = x], I, L)
    BY <1>0, <1>1, <1>7 DEF BooksFit, RefsFit
  <2>2. NetOf(L, "receivable") = NetOf(L, "receivable") + Owes(x) - Owes(inv[v])
    BY <1>1, <1>5, <1>7
  <2>3. BooksFit([inv EXCEPT ![v] = x], I, L)
    BY <1>0, <1>1, <2>1, <2>2, InvoiceMoves
  <2> QED
    BY <1>6, <1>7, <2>3
<1>8. CASE inv[v].status = "open"
  <2>1. RefsFit([inv EXCEPT ![v] = x], I, P)
    BY <1>0, <1>1, <1>3, <1>8 DEF BooksFit, RefsFit
  <2>2. NetOf(P, "receivable") = NetOf(L, "receivable") + Owes(x) - Owes(inv[v])
    BY <1>1, <1>4, <1>5, <1>8
  <2>3. BooksFit([inv EXCEPT ![v] = x], I, P)
    BY <1>0, <1>1, <1>4, <2>1, <2>2, InvoiceMoves
  <2> QED
    BY <1>6, <1>8, <2>3 DEF P, ref
<1> QED
  BY <1>7, <1>8

\* Postings of payments and of the opening balance are about other accounts.
LEMMA OtherFits ==
  ASSUME NEW inv, NEW I, NEW L, BooksFit(inv, I, L), NEW ref,
         ref[1] \notin {"in", "allocated", "issued", "void"}, NEW amount \in Int,
         NEW debit, NEW credit, debit # credit,
         debit \notin {"unallocated", "receivable"}, credit \notin {"unallocated", "receivable"}
  PROVE  BooksFit(inv, I, Books!Post(L, ref, debit, credit, amount))
<1> DEFINE P == Books!Post(L, ref, debit, credit, amount)
<1>1. EntriesOK(L)
  BY DEF BooksFit, BooksTyped
<1>2. /\ EntriesOK(P) /\ NetOf(P, "unallocated") = NetOf(L, "unallocated")
      /\ NetOf(P, "receivable") = NetOf(L, "receivable")
  BY <1>1, PostOther
<1>3. \A e \in P : e \in L \/ e.ref = ref
  BY PostRefs
<1> HIDE DEF P
<1>4. RefsFit(inv, I, P)
  BY <1>3 DEF BooksFit, RefsFit
<1>5. BooksFit(inv, I, P)
  BY <1>2, <1>4 DEF BooksFit, BooksTyped, NetsFit
<1> QED
  BY <1>5 DEF P

(***************************************************************************)
(* The recorders.                                                          *)
(***************************************************************************)
InTx == [kind : {"in"}, id : Receipt, receipt : Receipt, amount : Int, ref : Invoice \cup {None}]
OutTx == [kind : {"out"}, id : Payment, payment : Payment, ok : BOOLEAN]

\* What a recorder is about to write, once it has read.
Pending(event) ==
  [at : {"insert"}, transfer : InTx, event : {event}, invoice : Invoice \cup {None}, seen : {{}}]
  \cup [at : {"allocate"}, transfer : InTx, event : {event}, invoice : Invoice, row : Row]

BooksTypes ==
  /\ chain \in Seq(InTx \cup OutTx) /\ safe \in 0 .. Len(chain)
  /\ cursor \in (0 .. safe) \cup {None}
  /\ sync \in {Books!Idle}
       \cup [at : {"open"}, to : 0 .. safe, balance : Int]
       \cup [at : {"scan"}, next : Nat \ {0}, to : 0 .. safe]
       \cup [at : {"record"}, next : Nat \ {0}, to : 0 .. safe, write : Pending("log")]
  /\ api \in {Books!Idle} \cup [at : {"settled"}, transfer : InTx, invoice : Invoice] \cup Pending("x402")

\* What is to be inserted is not there, from this method.
Fresh(w, rows) ==
  w.at = "insert" => \A f \in rows : ~(f.receipt = w.transfer.receipt /\ f.event = w.event)

BooksInv ==
  /\ BooksFit(invoice, inflow, ledger)
  /\ BooksTypes
  /\ raced \/ Once(inflow)
  /\ sync.at = "record" => Fresh(sync.write, inflow)
  /\ Fresh(api, inflow)

\* A recorder ends, or is about to write a row that is not there or to apply one that is.
LEMMA ReadFits ==
  ASSUME inflow \subseteq Row, NEW t \in InTx, NEW event \in {"log", "x402"},
         NEW named \in Invoice \cup {None}, NEW x \in Books!Read(t, event, named)
  PROVE  x = Books!Idle \/ (x \in Pending(event) /\ Fresh(x, inflow))
<1>0. Books!Rows(t.receipt) = {f \in inflow : f.receipt = t.receipt}
  BY DEF Books!Rows
<1>1. CASE \E f \in Books!Rows(t.receipt) : f.event = event
  BY <1>1 DEF Books!Read
<1>2. CASE (\A f \in Books!Rows(t.receipt) : f.event # event) /\ Books!Rows(t.receipt) # {}
  <2>1. PICK f \in Books!Rows(t.receipt) :
          x = IF named # None /\ f.invoice = None
              THEN [at |-> "allocate", transfer |-> t, event |-> event, invoice |-> named, row |-> f]
              ELSE Books!Idle
    BY <1>2 DEF Books!Read
  <2>2. f \in Row
    BY <1>0
  <2>3. CASE named # None /\ f.invoice = None
    <3>1. x = [at |-> "allocate", transfer |-> t, event |-> event, invoice |-> named, row |-> f]
      BY <2>1, <2>3
    <3>2. named \in Invoice
      BY <2>3
    <3>3. x \in Pending(event)
      BY <2>2, <3>1, <3>2 DEF Pending
    <3>4. x.at # "insert"
      BY <3>1
    <3> QED
      BY <3>3, <3>4 DEF Fresh
  <2> QED
    BY <2>1, <2>3
<1>3. CASE Books!Rows(t.receipt) = {}
  <2>1. PICK v \in Invoice \cup {None} :
          x = [at |-> "insert", transfer |-> t, event |-> event, invoice |-> v, seen |-> {}]
    <3>1. Books!Matches(t) \subseteq Invoice
      BY DEF Books!Matches
    <3> QED
      BY <1>3, <3>1 DEF Books!Read
  <2>2. x \in Pending(event)
    BY <2>1 DEF Pending
  <2>3. x.transfer = t /\ x.event = event
    BY <2>1
  <2> QED
    BY <1>0, <1>3, <2>2, <2>3 DEF Fresh
<1> QED
  BY <1>1, <1>2, <1>3

\* AllocateFits, of the step that applies a row.
LEMMA HandFits ==
  ASSUME NEW I, NEW L, BooksFit(invoice, I, L), NEW f \in I, NEW v \in Invoice,
         f.invoice = None, invoice[v].status = "open", Books!Allocate(I, L, f, v)
  PROVE  BooksFit(invoice', inflow', ledger')
<1> DEFINE total == invoice[v].paid + f.amount
<1>1. inflow' = (I \ {f}) \cup {[f EXCEPT !.invoice = v]}
  BY DEF Books!Allocate
<1>2. ledger' = Books!Post(L, <<"allocated", f.receipt, f.event, v>>, "unallocated", "receivable", f.amount)
  BY DEF Books!Allocate
<1>3. invoice' = [invoice EXCEPT ![v].paid = total, ![v].status = IF total >= Subtotal THEN "paid" ELSE "open"]
  BY DEF Books!Allocate
<1>4. BooksFit([invoice EXCEPT ![v].paid = total, ![v].status = IF total >= Subtotal THEN "paid" ELSE "open"],
               (I \ {f}) \cup {[f EXCEPT !.invoice = v]},
               Books!Post(L, <<"allocated", f.receipt, f.event, v>>, "unallocated", "receivable", f.amount))
  BY AllocateFits
<1> HIDE DEF total
<1> QED
  BY <1>1, <1>2, <1>3, <1>4

\* Which methods have written a receipt only grows by the one that writes.
Written(event) ==
  \A f \in inflow' : \/ \E g \in inflow : g.receipt = f.receipt /\ g.event = f.event
                     \/ f.event = event

\* The write of either recorder.
LEMMA WriteFits ==
  ASSUME BooksInv, NEW event \in {"log", "x402"}, NEW w \in Pending(event), Fresh(w, inflow), Books!Write(w)
  PROVE  /\ BooksFit(invoice', inflow', ledger')
         /\ raced' \/ Once(inflow')
         /\ Written(event)
<1>0. BooksFit(invoice, inflow, ledger) /\ inflow \subseteq Row
  BY DEF BooksInv, BooksFit, BooksTyped
<1> DEFINE f == [receipt |-> w.transfer.receipt, event |-> w.event, amount |-> w.transfer.amount, invoice |-> None]
<1> DEFINE J == inflow \cup {f}
<1> DEFINE P == Books!Post(ledger, <<"in", f.receipt, f.event>>, "cash", "unallocated", f.amount)
<1>1. CASE w.at = "insert"
  <2>1. /\ f \in Row /\ f.invoice = None /\ f.receipt = w.transfer.receipt /\ f.event = event
        /\ w.event = event /\ w.seen = {} /\ w.invoice \in Invoice \cup {None}
    BY <1>1 DEF Pending, InTx, Row
  <2>2. \A g \in inflow : ~(g.receipt = f.receipt /\ g.event = f.event)
    BY <1>1, <2>1 DEF Fresh
  <2>3. Books!Rows(f.receipt) = {g \in inflow : g.receipt = f.receipt}
    BY DEF Books!Rows
  <2>4. raced' = (raced \/ Books!Rows(f.receipt) # w.seen)
    BY <1>1 DEF Books!Write
  <2>5. CASE w.invoice = None
    <3>1. inflow' = J /\ ledger' = P /\ invoice' = invoice
      BY <1>1, <2>5 DEF Books!Write
    <3> HIDE DEF f
    <3>2. BooksFit(invoice', inflow', ledger')
      BY <1>0, <2>1, <2>2, <3>1, InsertFits
    <3>3. ASSUME ~raced' PROVE Once(inflow')
      <4>1. Once(inflow) /\ {g \in inflow : g.receipt = f.receipt} = {}
        BY <2>1, <2>3, <2>4, <3>3 DEF BooksInv
      <4> QED
        BY <3>1, <4>1 DEF Once
    <3> QED
      BY <2>1, <3>1, <3>2, <3>3 DEF Written
  <2>6. CASE w.invoice # None
    <3> DEFINE v == w.invoice
    <3> DEFINE g == [f EXCEPT !.invoice = v]
    <3>1. Books!Allocatable(f, v) /\ Books!Allocate(J, P, f, v)
      BY <1>1, <2>6 DEF Books!Write
    <3>2. v \in Invoice /\ invoice[v].status = "open"
      BY <2>1, <2>6, <3>1 DEF Books!Allocatable
    <3>3. inflow' = (J \ {f}) \cup {g}
      BY <3>1 DEF Books!Allocate
    <3>4. g.receipt = f.receipt /\ g.event = f.event
      BY <2>1 DEF Row
    <3>5. BooksFit(invoice, J, P)
      <4> HIDE DEF f
      <4> QED
        BY <1>0, <2>1, <2>2, InsertFits
    <3>6. BooksFit(invoice', inflow', ledger')
      <4>1. f \in J /\ f.invoice = None
        BY <2>1
      <4> HIDE DEF f, J, P
      <4> QED
        BY <3>1, <3>2, <3>5, <4>1, HandFits
    <3> HIDE DEF f, g
    <3>7. ASSUME ~raced' PROVE Once(inflow')
      <4>1. Once(inflow) /\ {h \in inflow : h.receipt = f.receipt} = {}
        BY <2>1, <2>3, <2>4, <3>7 DEF BooksInv
      <4> QED
        BY <3>3, <3>4, <4>1 DEF Once
    <3>8. \A h \in inflow' : h \in inflow \/ h.event = event
      BY <2>1, <3>3, <3>4
    <3> QED
      BY <3>6, <3>7, <3>8 DEF Written
  <2> QED
    BY <2>5, <2>6
<1>2. CASE w.at = "allocate"
  <2> DEFINE v == w.invoice
  <2> DEFINE h == w.row
  <2> DEFINE g == [h EXCEPT !.invoice = v]
  <2>1. w.invoice \in Invoice
    BY <1>2 DEF Pending
  <2>2. h \in inflow /\ Books!Allocatable(h, v) /\ Books!Allocate(inflow, ledger, h, v) /\ raced' = raced
    BY <1>2 DEF Books!Write
  <2>3. h.invoice = None /\ invoice[v].status = "open"
    BY <2>2 DEF Books!Allocatable
  <2>4. inflow' = (inflow \ {h}) \cup {g}
    BY <2>2 DEF Books!Allocate
  <2>5. g.receipt = h.receipt /\ g.event = h.event
    BY <1>0, <2>2 DEF Row
  <2>6. BooksFit(invoice', inflow', ledger')
    BY <1>0, <2>1, <2>2, <2>3, HandFits
  <2> HIDE DEF g, h
  <2>7. raced' \/ Once(inflow')
    BY <2>2, <2>4, <2>5 DEF BooksInv, Once
  <2> QED
    BY <2>2, <2>4, <2>5, <2>6, <2>7 DEF Written
<1> QED
  BY <1>1, <1>2 DEF Pending

\* A step of the tables alone.
LEMMA TablesMove ==
  ASSUME BooksInv, BooksFit(invoice', inflow', ledger'), raced' \/ Once(inflow'),
         \A f \in inflow' : \E g \in inflow : g.receipt = f.receipt /\ g.event = f.event,
         UNCHANGED <<chain, safe, cursor, sync, api>>
  PROVE  BooksInv'
<1>1. BooksFit(invoice, inflow, ledger)'
  OBVIOUS
<1>2. BooksTypes'
  BY DEF BooksInv, BooksTypes, Books!Idle, InTx, OutTx, Pending, Row
<1>3. (raced \/ Once(inflow))'
  OBVIOUS
<1>4. (sync.at = "record" => Fresh(sync.write, inflow))' /\ Fresh(api, inflow)'
  BY DEF BooksInv, Fresh
<1> QED
  BY <1>1, <1>2, <1>3, <1>4 DEF BooksInv

LEMMA BooksInvoices ==
  ASSUME BooksInv, NEW v \in Invoice,
         Books!CreateInvoice(v) \/ Books!IssueInvoice(v) \/ Books!VoidInvoice(v)
  PROVE  BooksInv'
<1>0. BooksFit(invoice, inflow, ledger) /\ invoice \in [Invoice -> InvoiceRow] /\ (raced \/ Once(inflow))
  BY DEF BooksInv, BooksFit, BooksTyped
<1>1. UNCHANGED <<inflow, raced, chain, safe, cursor, sync, api>>
  BY DEF Books!CreateInvoice, Books!IssueInvoice, Books!VoidInvoice, Books!Ghosts
<1>2. BooksFit(invoice', inflow, ledger')
  <2>1. CASE Books!CreateInvoice(v)
    <3>1. PICK tag \in IF evm THEN Tag ELSE {0} :
            invoice' = [invoice EXCEPT ![v] = [status |-> "draft", due |-> Subtotal + tag, paid |-> 0]]
      BY <2>1 DEF Books!CreateInvoice
    <3>2. Subtotal + tag \in Int
      <4>1. tag \in Nat /\ Subtotal \in Nat
        BY TreasuryAssumption
      <4> QED
        BY <4>1
    <3>3. invoice[v].status = "none" /\ ledger' = ledger
      BY <2>1 DEF Books!CreateInvoice
    <3> QED
      BY <1>0, <3>1, <3>2, <3>3, CreateFits
  <2>2. CASE Books!IssueInvoice(v)
    BY <1>0, <2>2, IssueFits DEF Books!IssueInvoice
  <2>3. CASE Books!VoidInvoice(v)
    BY <1>0, <2>3, VoidFits DEF Books!VoidInvoice
  <2> QED
    BY <2>1, <2>2, <2>3
<1> QED
  BY <1>0, <1>1, <1>2, TablesMove

LEMMA BooksByHand ==
  ASSUME BooksInv, NEW v \in Invoice, NEW f \in inflow, Books!AllocateByHand(f, v)
  PROVE  BooksInv'
<1>1. /\ BooksFit(invoice, inflow, ledger) /\ inflow \subseteq Row /\ f.invoice = None
      /\ invoice[v].status = "open" /\ Books!Allocate(inflow, ledger, f, v)
  BY DEF BooksInv, BooksFit, BooksTyped, Books!AllocateByHand, Books!Allocatable
<1>2. BooksFit(invoice', inflow', ledger')
  BY <1>1, HandFits
<1> DEFINE g == [f EXCEPT !.invoice = v]
<1>3. inflow' = (inflow \ {f}) \cup {g}
  BY <1>1 DEF Books!Allocate
<1>4. g.receipt = f.receipt /\ g.event = f.event
  BY <1>1 DEF Row
<1> HIDE DEF g
<1>5. UNCHANGED <<raced, chain, safe, cursor, sync, api>>
  BY DEF Books!AllocateByHand, Books!Ghosts
<1>6. ASSUME ~raced' PROVE Once(inflow')
  BY <1>3, <1>4, <1>5, <1>6 DEF BooksInv, Once
<1>7. \A h \in inflow' : \E j \in inflow : j.receipt = h.receipt /\ j.event = h.event
  BY <1>3, <1>4
<1> QED
  BY <1>2, <1>5, <1>6, <1>7, TablesMove

LEMMA BooksPayments ==
  ASSUME BooksInv, NEW p \in Payment, Books!MarkSubmitted(p) \/ Books!Confirm(p)
  PROVE  BooksInv'
<1>0. BooksFit(invoice, inflow, ledger) /\ (raced \/ Once(inflow))
  BY DEF BooksInv
<1>1. UNCHANGED <<invoice, inflow, raced, chain, safe, cursor, sync, api>>
  BY DEF Books!MarkSubmitted, Books!Confirm, Books!Books, Books!Ghosts, Books!SyncState
<1>2. CASE Books!MarkSubmitted(p)
  <2>1. ledger' = Books!Post(ledger, <<"submitted", p>>, "pending", "cash", 1)
    BY <1>2 DEF Books!MarkSubmitted
  <2>2. <<"submitted", p>>[1] \notin {"in", "allocated", "issued", "void"}
    OBVIOUS
  <2>3. BooksFit(invoice, inflow, Books!Post(ledger, <<"submitted", p>>, "pending", "cash", 1))
    BY <1>0, <2>2, OtherFits
  <2> QED
    BY <1>0, <1>1, <2>1, <2>3, TablesMove
<1>3. CASE Books!Confirm(p)
  <2>1. \/ ledger' = Books!Post(ledger, <<"finalized", p>>, "expense", "pending", 1)
        \/ ledger' = Books!Post(ledger, <<"reversal", p>>, "cash", "pending", 1)
    BY <1>3 DEF Books!Confirm
  <2>2. /\ <<"finalized", p>>[1] \notin {"in", "allocated", "issued", "void"}
        /\ <<"reversal", p>>[1] \notin {"in", "allocated", "issued", "void"}
    OBVIOUS
  <2>3. BooksFit(invoice, inflow, Books!Post(ledger, <<"finalized", p>>, "expense", "pending", 1))
    BY <1>0, <2>2, OtherFits
  <2>4. BooksFit(invoice, inflow, Books!Post(ledger, <<"reversal", p>>, "cash", "pending", 1))
    BY <1>0, <2>2, OtherFits
  <2> QED
    BY <1>0, <1>1, <2>1, <2>3, <2>4, TablesMove
<1> QED
  BY <1>2, <1>3

\* A step that leaves the tables alone.
LEMMA TablesStay ==
  ASSUME BooksInv, BooksTypes', UNCHANGED <<invoice, inflow, ledger, raced>>,
         sync' = sync \/ (sync'.at = "record" => Fresh(sync'.write, inflow)),
         api' = api \/ Fresh(api', inflow)
  PROVE  BooksInv'
<1>1. BooksFit(invoice, inflow, ledger)' /\ (raced \/ Once(inflow))'
  BY DEF BooksInv
<1>2. (sync.at = "record" => Fresh(sync.write, inflow))'
  BY DEF BooksInv
<1>3. Fresh(api, inflow)'
  BY DEF BooksInv
<1> QED
  BY <1>1, <1>2, <1>3 DEF BooksInv

LEMMA BooksChain ==
  ASSUME BooksInv,
         \/ \E r \in Receipt, amount \in Transferred, ref \in IF evm THEN {None} ELSE Invoice \cup {None} :
              Books!Transfer(r, amount, ref)
         \/ \E p \in Payment, ok \in BOOLEAN : Books!PayOut(p, ok)
         \/ \E v \in Invoice, r \in Receipt : Books!SettleX402(v, r)
         \/ Books!Finalize
  PROVE  BooksInv'
<1>0. /\ chain \in Seq(InTx \cup OutTx) /\ safe \in 0 .. Len(chain) /\ Len(chain) \in Nat
      /\ invoice \in [Invoice -> InvoiceRow]
  BY DEF BooksInv, BooksTypes, BooksFit, BooksTyped
<1>1. ASSUME NEW t \in InTx \cup OutTx, chain' = Append(chain, t), safe' = safe
      PROVE  chain' \in Seq(InTx \cup OutTx) /\ safe' \in 0 .. Len(chain')
  BY <1>0, <1>1
<1>2. ASSUME NEW r \in Receipt, NEW amount \in Transferred,
             NEW ref \in IF evm THEN {None} ELSE Invoice \cup {None}, Books!Transfer(r, amount, ref)
      PROVE  BooksInv'
  <2> DEFINE t == [kind |-> "in", id |-> r, receipt |-> r, amount |-> amount, ref |-> ref]
  <2>1. t \in InTx
    <3>1. amount \in Int /\ ref \in Invoice \cup {None}
      BY TreasuryAssumption
    <3> QED
      BY <3>1 DEF InTx
  <2>2. chain' = Append(chain, t) /\ UNCHANGED <<safe, invoice, inflow, ledger, raced, cursor, sync, api>>
    BY <1>2 DEF Books!Transfer, Books!Books, Books!Ghosts, Books!SyncState
  <2> HIDE DEF t
  <2>3. BooksTypes'
    BY <1>1, <2>1, <2>2 DEF BooksInv, BooksTypes, Books!Idle, InTx, OutTx, Pending, Row
  <2> QED
    BY <2>2, <2>3, TablesStay
<1>3. ASSUME NEW p \in Payment, NEW ok \in BOOLEAN, Books!PayOut(p, ok) PROVE BooksInv'
  <2> DEFINE t == [kind |-> "out", id |-> p, payment |-> p, ok |-> ok]
  <2>1. t \in OutTx
    BY DEF OutTx
  <2>2. chain' = Append(chain, t) /\ UNCHANGED <<safe, invoice, inflow, ledger, raced, cursor, sync, api>>
    BY <1>3 DEF Books!PayOut, Books!Books, Books!Ghosts, Books!SyncState
  <2> HIDE DEF t
  <2>3. BooksTypes'
    BY <1>1, <2>1, <2>2 DEF BooksInv, BooksTypes, Books!Idle, InTx, OutTx, Pending, Row
  <2> QED
    BY <2>2, <2>3, TablesStay
<1>4. ASSUME NEW v \in Invoice, NEW r \in Receipt, Books!SettleX402(v, r) PROVE BooksInv'
  <2> DEFINE t == [kind |-> "in", id |-> r, receipt |-> r, amount |-> Subtotal - invoice[v].paid, ref |-> None]
  <2>1. t \in InTx
    <3>1. Subtotal - invoice[v].paid \in Int
      <4>1. invoice[v].paid \in Int /\ Subtotal \in Nat
        BY <1>0, TreasuryAssumption DEF InvoiceRow
      <4> QED
        BY <4>1
    <3> QED
      BY <3>1 DEF InTx
  <2>2. /\ chain' = Append(chain, t) /\ UNCHANGED <<safe, invoice, inflow, ledger, raced, cursor, sync>>
        /\ api' = [at |-> "settled", transfer |-> t, invoice |-> v]
    BY <1>4 DEF Books!SettleX402, Books!Ghosts, Books!SyncState
  <2> HIDE DEF t
  <2>3. BooksTypes'
    <3>1. api' \in [at : {"settled"}, transfer : InTx, invoice : Invoice]
      BY <2>1, <2>2
    <3> QED
      BY <1>1, <2>1, <2>2, <3>1 DEF BooksInv, BooksTypes, Books!Idle
  <2>4. Fresh(api', inflow)
    BY <2>2 DEF Fresh
  <2> QED
    BY <2>2, <2>3, <2>4, TablesStay
<1>5. CASE Books!Finalize
  <2>1. safe < Len(chain) /\ safe' = safe + 1 /\ UNCHANGED <<chain, invoice, inflow, ledger, raced, cursor, sync, api>>
    BY <1>5 DEF Books!Finalize, Books!Books, Books!Ghosts, Books!SyncState
  <2>2. BooksTypes'
    <3>1. safe' \in 0 .. Len(chain') /\ 0 .. safe \subseteq 0 .. safe'
      BY <1>0, <2>1
    <3>2. sync' \in {Books!Idle}
           \cup [at : {"open"}, to : 0 .. safe', balance : Int]
           \cup [at : {"scan"}, next : Nat \ {0}, to : 0 .. safe']
           \cup [at : {"record"}, next : Nat \ {0}, to : 0 .. safe', write : Pending("log")]
      BY <2>1, <3>1 DEF BooksInv, BooksTypes
    <3> QED
      BY <2>1, <3>1, <3>2 DEF BooksInv, BooksTypes, Books!Idle, InTx, OutTx, Pending, Row
  <2> QED
    BY <2>1, <2>2, TablesStay
<1> QED
  BY <1>2, <1>3, <1>4, <1>5

LEMMA BooksX402 ==
  ASSUME BooksInv, Books!ReadX402 \/ Books!WriteX402 \/ Books!AbandonX402
  PROVE  BooksInv'
<1>0. BooksTypes /\ Fresh(api, inflow) /\ inflow \subseteq Row
  BY DEF BooksInv, BooksFit, BooksTyped
<1>1. CASE Books!ReadX402
  <2>1. /\ api.at = "settled" /\ api' \in Books!Read(api.transfer, "x402", api.invoice)
        /\ UNCHANGED <<invoice, inflow, ledger, raced, chain, safe, cursor, sync>>
    BY <1>1 DEF Books!ReadX402, Books!Ghosts, Books!SyncState
  <2>2. api.transfer \in InTx /\ api.invoice \in Invoice
    BY <1>0, <2>1 DEF BooksTypes, Books!Idle, Pending
  <2>3. api' = Books!Idle \/ (api' \in Pending("x402") /\ Fresh(api', inflow))
    BY <1>0, <2>1, <2>2, ReadFits
  <2>4. Fresh(api', inflow)
    BY <2>3 DEF Fresh, Books!Idle
  <2>5. BooksTypes'
    <3>1. api' \in {Books!Idle} \cup [at : {"settled"}, transfer : InTx, invoice : Invoice] \cup Pending("x402")
      BY <2>3
    <3> QED
      BY <1>0, <2>1, <3>1 DEF BooksTypes, Books!Idle, InTx, OutTx, Pending, Row
  <2> QED
    BY <2>1, <2>4, <2>5, TablesStay
<1>2. CASE Books!AbandonX402
  <2>1. api' = Books!Idle /\ UNCHANGED <<invoice, inflow, ledger, raced, chain, safe, cursor, sync>>
    BY <1>2 DEF Books!AbandonX402, Books!Ghosts, Books!SyncState
  <2>2. Fresh(api', inflow)
    BY <2>1 DEF Fresh, Books!Idle
  <2>3. BooksTypes'
    BY <1>0, <2>1 DEF BooksTypes, Books!Idle, InTx, OutTx, Pending, Row
  <2> QED
    BY <2>1, <2>2, <2>3, TablesStay
<1>3. CASE Books!WriteX402
  <2>1. /\ api.at \in {"insert", "allocate"} /\ Books!Write(api) /\ api' = Books!Idle
        /\ UNCHANGED <<chain, safe, cursor, sync>>
    BY <1>3 DEF Books!WriteX402, Books!SyncState
  <2>2. api \in Pending("x402")
    BY <1>0, <2>1 DEF BooksTypes, Books!Idle
  <2>3. BooksFit(invoice', inflow', ledger') /\ (raced' \/ Once(inflow')) /\ Written("x402")
    BY <1>0, <2>1, <2>2, WriteFits
  <2>4. BooksTypes'
    BY <1>0, <2>1 DEF BooksTypes, Books!Idle, InTx, OutTx, Pending, Row
  <2>5. Fresh(api', inflow')
    BY <2>1 DEF Fresh, Books!Idle
  <2>6. ASSUME sync'.at = "record" PROVE Fresh(sync'.write, inflow')
    <3>1. sync.at = "record" /\ sync' = sync /\ Fresh(sync.write, inflow)
      BY <2>1, <2>6 DEF BooksInv
    <3>2. sync.write.event = "log"
      BY <1>0, <3>1 DEF BooksTypes, Books!Idle, Pending
    <3> QED
      BY <2>3, <3>1, <3>2 DEF Fresh, Written
  <2> QED
    BY <2>3, <2>4, <2>5, <2>6 DEF BooksInv
<1> QED
  BY <1>1, <1>2, <1>3

(***************************************************************************)
(* Sums of the library, over the chain and over the invoices.              *)
(***************************************************************************)
MovedBy(n) == [k \in 1 .. n |-> Books!Moved(chain[k])]

LEMMA BalanceIsSum ==
  ASSUME NEW n \in Nat
  PROVE  Books!BalanceAt(n) = SumOver(MovedBy(n), 1 .. n)
<1> DEFINE S == 1 .. n
<1> DEFINE w == MovedBy(n)
<1> DEFINE P(f) == f = [s \in SUBSET S |-> IF s = {} THEN 0 ELSE Books!Moved(chain[Pick(s)]) + f[s \ {Pick(s)}]]
<1> DEFINE g == CHOOSE f : P(f)
<1>0. IsFiniteSet(S)
  BY FS_Interval
<1>1. Books!BalanceAt(n) = g[S]
  BY DEF Books!BalanceAt, Books!MapThenSumSet, Books!MapThenFoldSet, Pick
<1>2. ASSUME NEW f PROVE P(f) <=> Adds(f, w, S)
  <2> DEFINE a == [s \in SUBSET S |-> IF s = {} THEN 0 ELSE Books!Moved(chain[Pick(s)]) + f[s \ {Pick(s)}]]
  <2> DEFINE b == [s \in SUBSET S |-> IF s = {} THEN 0 ELSE w[Pick(s)] + f[s \ {Pick(s)}]]
  <2>1. ASSUME NEW s \in SUBSET S PROVE a[s] = b[s]
    <3>1. CASE s = {}
      BY <3>1
    <3>2. CASE s # {}
      <4>1. Pick(s) \in S
        BY <3>2, PickIsIn
      <4>2. w[Pick(s)] = Books!Moved(chain[Pick(s)])
        BY <4>1 DEF MovedBy
      <4> HIDE DEF w
      <4> QED
        BY <4>2
    <3> QED
      BY <3>1, <3>2
  <2>2. a = b
    BY <2>1
  <2> QED
    BY <2>2 DEF Adds
<1> HIDE DEF w, P, S
<1>3. \E f : P(f)
  BY <1>0, <1>2, AddsExists
<1>4. P(g)
  BY <1>3
<1> HIDE DEF g
<1>5. Adds(g, w, S)
  BY <1>2, <1>4
<1> DEFINE h == CHOOSE f : Adds(f, w, S)
<1>6. Adds(h, w, S)
  BY <1>0, AddsExists
<1> HIDE DEF h
<1>7. g[S] = h[S]
  BY <1>0, <1>5, <1>6, AddsAgree
<1> QED
  BY <1>1, <1>7 DEF SumOver, h, w, S

LEMMA BalanceType ==
  ASSUME BooksTypes, NEW n \in 0 .. Len(chain)
  PROVE  Books!BalanceAt(n) \in Int
<1>1. chain \in Seq(InTx \cup OutTx) /\ n \in Nat
  BY DEF BooksTypes
<1>2. \A k \in 1 .. n : Books!Moved(chain[k]) \in Int
  <2> SUFFICES ASSUME NEW k \in 1 .. n PROVE Books!Moved(chain[k]) \in Int
    OBVIOUS
  <2>1. chain[k] \in InTx \cup OutTx
    BY <1>1
  <2> QED
    BY <2>1 DEF Books!Moved, InTx, OutTx
<1>3. \A k \in 1 .. n : MovedBy(n)[k] \in Int
  BY <1>2 DEF MovedBy
<1>4. IsFiniteSet(1 .. n)
  BY <1>1, FS_Interval
<1>5. SumOver(MovedBy(n), 1 .. n) \in Int
  BY <1>3, <1>4, SumType
<1> QED
  BY <1>1, <1>5, BalanceIsSum

LEMMA OwedIsSum == Books!MapThenSumSet(LAMBDA v : Owes(invoice[v]), Invoice) = OwedOf(invoice)
<1> DEFINE w == [v \in Invoice |-> Owes(invoice[v])]
<1> DEFINE P(f) == f = [s \in SUBSET Invoice |-> IF s = {} THEN 0 ELSE Owes(invoice[Pick(s)]) + f[s \ {Pick(s)}]]
<1> DEFINE g == CHOOSE f : P(f)
<1>0. IsFiniteSet(Invoice)
  BY TreasuryAssumption
<1>1. Books!MapThenSumSet(LAMBDA v : Owes(invoice[v]), Invoice) = g[Invoice]
  BY DEF Books!MapThenSumSet, Books!MapThenFoldSet, Pick
<1>2. ASSUME NEW f PROVE P(f) <=> Adds(f, w, Invoice)
  <2> DEFINE a == [s \in SUBSET Invoice |-> IF s = {} THEN 0 ELSE Owes(invoice[Pick(s)]) + f[s \ {Pick(s)}]]
  <2> DEFINE b == [s \in SUBSET Invoice |-> IF s = {} THEN 0 ELSE w[Pick(s)] + f[s \ {Pick(s)}]]
  <2>1. ASSUME NEW s \in SUBSET Invoice PROVE a[s] = b[s]
    <3>1. CASE s = {}
      BY <3>1
    <3>2. CASE s # {}
      <4>1. Pick(s) \in Invoice
        BY <3>2, PickIsIn
      <4>2. w[Pick(s)] = Owes(invoice[Pick(s)])
        BY <4>1
      <4> HIDE DEF w
      <4> QED
        BY <4>2
    <3> QED
      BY <3>1, <3>2
  <2>2. a = b
    BY <2>1
  <2> QED
    BY <2>2 DEF Adds
<1> HIDE DEF w, P
<1>3. \E f : P(f)
  BY <1>0, <1>2, AddsExists
<1>4. P(g)
  BY <1>3
<1> HIDE DEF g
<1>5. Adds(g, w, Invoice)
  BY <1>2, <1>4
<1> DEFINE h == CHOOSE f : Adds(f, w, Invoice)
<1>6. Adds(h, w, Invoice)
  BY <1>0, AddsExists
<1> HIDE DEF h
<1>7. g[Invoice] = h[Invoice]
  BY <1>0, <1>5, <1>6, AddsAgree
<1> QED
  BY <1>1, <1>7 DEF SumOver, h, w, OwedOf

LEMMA AmountsOf ==
  ASSUME NEW S, IsFiniteSet(S)
  PROVE  Books!MapThenSumSet(LAMBDA e : e.amount, S) = AmountSum(S)
BY AmountsAddUp DEF Books!MapThenSumSet, Books!MapThenFoldSet, MapThenSumSet, MapThenFoldSet

LEMMA NetIs == ASSUME EntriesOK(ledger), NEW code PROVE Books!Net(code) = NetOf(ledger, code)
<1>1. IsFiniteSet({e \in ledger : e.code = code})
  BY FS_Subset DEF EntriesOK
<1> QED
  BY <1>1, AmountsOf DEF Books!Net, NetOf

(***************************************************************************)
(* The sync.                                                               *)
(***************************************************************************)
LEMMA LeastOf == ASSUME NEW S \in SUBSET Nat, S # {} PROVE \E k \in S : \A j \in S : k =< j
<1>1. PICK m \in S : \A k \in S : <<k, m>> \notin OpToRel(<, Nat)
  BY NatLessThanWellFounded, WFMin
<1>2. ASSUME NEW k \in S PROVE m =< k
  <2>1. k \in Nat /\ m \in Nat
    OBVIOUS
  <2>2. ~(k < m)
    BY <1>1, <2>1 DEF OpToRel
  <2> QED
    BY <2>1, <2>2
<1> QED
  BY <1>2

LEMMA FirstIncoming ==
  ASSUME NEW from \in Nat, NEW to \in Nat, Books!Incoming(from, to) # {}
  PROVE  Books!Min(Books!Incoming(from, to)) \in Books!Incoming(from, to)
<1> DEFINE S == Books!Incoming(from, to)
<1>1. S \in SUBSET Nat
  BY DEF Books!Incoming
<1> HIDE DEF S
<1>2. \E k \in S : \A j \in S : k =< j
  BY <1>1, LeastOf DEF S
<1> QED
  BY <1>2 DEF Books!Min, S

LEMMA BooksScan ==
  ASSUME BooksInv, Books!BeginSync \/ Books!AdvanceCursor \/ Books!AbandonSync \/ Books!ScanNext
  PROVE  BooksInv'
<1>0. BooksTypes /\ inflow \subseteq Row /\ chain \in Seq(InTx \cup OutTx) /\ safe \in Nat /\ safe <= Len(chain)
      /\ Len(chain) \in Nat /\ cursor \in (0 .. safe) \cup {None}
  BY DEF BooksInv, BooksTypes, BooksFit, BooksTyped
<1>1. CASE Books!BeginSync
  <2>1. UNCHANGED <<invoice, inflow, ledger, raced, chain, safe, cursor, api>>
    BY <1>1 DEF Books!BeginSync, Books!Ghosts
  <2>2. sync'.at # "record" /\ sync' \in [at : {"open"}, to : 0 .. safe, balance : Int]
                                     \cup [at : {"scan"}, next : Nat \ {0}, to : 0 .. safe]
    <3>1. CASE cursor = None
      <4>1. sync' = [at |-> "open", to |-> safe, balance |-> Books!BalanceAt(safe)]
        BY <1>1, <3>1 DEF Books!BeginSync
      <4>2. Books!BalanceAt(safe) \in Int
        BY <1>0, BalanceType
      <4> QED
        BY <1>0, <4>1, <4>2
    <3>2. CASE cursor # None
      <4>1. PICK to \in safe .. safe \cup cursor .. safe : sync' = [at |-> "scan", next |-> cursor + 1, to |-> to]
        BY <1>1, <3>2 DEF Books!BeginSync
      <4>2. cursor \in Nat /\ to \in 0 .. safe /\ cursor + 1 \in Nat \ {0}
        BY <1>0, <3>2
      <4> QED
        BY <4>1, <4>2
    <3> QED
      BY <3>1, <3>2
  <2>3. BooksTypes'
    BY <1>0, <2>1, <2>2 DEF BooksTypes, Books!Idle, InTx, OutTx, Pending, Row
  <2> QED
    BY <2>1, <2>2, <2>3, TablesStay
<1>2. CASE Books!AbandonSync
  <2>1. sync' = Books!Idle /\ UNCHANGED <<invoice, inflow, ledger, raced, chain, safe, cursor, api>>
    BY <1>2 DEF Books!AbandonSync, Books!Ghosts
  <2>2. sync'.at # "record"
    BY <2>1 DEF Books!Idle
  <2>3. BooksTypes'
    BY <1>0, <2>1 DEF BooksTypes, Books!Idle, InTx, OutTx, Pending, Row
  <2> QED
    BY <2>1, <2>2, <2>3, TablesStay
<1>3. CASE Books!AdvanceCursor
  <2>1. /\ sync.at = "scan" /\ cursor' = sync.to /\ sync' = Books!Idle
        /\ UNCHANGED <<invoice, inflow, ledger, raced, chain, safe, api>>
    BY <1>3 DEF Books!AdvanceCursor, Books!Ghosts
  <2>2. sync'.at # "record"
    BY <2>1 DEF Books!Idle
  <2>3. sync.to \in 0 .. safe
    BY <1>0, <2>1 DEF BooksTypes, Books!Idle
  <2>4. BooksTypes'
    BY <1>0, <2>1, <2>3 DEF BooksTypes, Books!Idle, InTx, OutTx, Pending, Row
  <2> QED
    BY <2>1, <2>2, <2>4, TablesStay
<1>4. CASE Books!ScanNext
  <2> DEFINE k == Books!Min(Books!Incoming(sync.next, sync.to))
  <2>1. PICK w \in Books!Read(chain[k], "log", None) :
          sync' = IF w = Books!Idle THEN [sync EXCEPT !.next = k + 1]
                  ELSE [at |-> "record", next |-> k + 1, to |-> sync.to, write |-> w]
    BY <1>4 DEF Books!ScanNext
  <2>2. /\ sync.at = "scan" /\ Books!Incoming(sync.next, sync.to) # {}
        /\ UNCHANGED <<invoice, inflow, ledger, raced, chain, safe, cursor, api>>
    BY <1>4 DEF Books!ScanNext, Books!Ghosts
  <2>3. sync \in [at : {"scan"}, next : Nat \ {0}, to : 0 .. safe]
    BY <1>0, <2>2 DEF BooksTypes, Books!Idle
  <2>4. sync.next \in Nat \ {0} /\ sync.to \in 0 .. safe /\ sync.to \in Nat
    BY <1>0, <2>3
  <2>5. k \in Books!Incoming(sync.next, sync.to)
    BY <2>2, <2>4, FirstIncoming
  <2> HIDE DEF k
  <2>6. k \in 1 .. Len(chain) /\ chain[k].kind = "in"
    BY <1>0, <2>4, <2>5 DEF Books!Incoming
  <2>7. chain[k] \in InTx
    <3>1. chain[k] \in InTx \cup OutTx
      BY <1>0, <2>6
    <3> QED
      BY <2>6, <3>1 DEF OutTx
  <2>8. w = Books!Idle \/ (w \in Pending("log") /\ Fresh(w, inflow))
    BY <1>0, <2>7, ReadFits
  <2>9. k + 1 \in Nat \ {0}
    BY <2>6
  <2>10. CASE w = Books!Idle
    <3>1. sync' = [sync EXCEPT !.next = k + 1]
      BY <2>1, <2>10
    <3>2. sync' \in [at : {"scan"}, next : Nat \ {0}, to : 0 .. safe] /\ sync'.at # "record"
      BY <2>3, <2>9, <3>1
    <3>3. BooksTypes'
      BY <1>0, <2>2, <3>2 DEF BooksTypes, Books!Idle, InTx, OutTx, Pending, Row
    <3> QED
      BY <2>2, <3>2, <3>3, TablesStay
  <2>11. CASE w # Books!Idle
    <3>1. sync' = [at |-> "record", next |-> k + 1, to |-> sync.to, write |-> w]
      BY <2>1, <2>11
    <3>2. /\ sync' \in [at : {"record"}, next : Nat \ {0}, to : 0 .. safe, write : Pending("log")]
          /\ sync'.write = w
      BY <2>4, <2>8, <2>9, <2>11, <3>1
    <3>3. BooksTypes'
      BY <1>0, <2>2, <3>2 DEF BooksTypes, Books!Idle, InTx, OutTx, Row
    <3>4. Fresh(sync'.write, inflow)
      BY <2>8, <2>11, <3>2
    <3> QED
      BY <2>2, <3>3, <3>4, TablesStay
  <2> QED
    BY <2>10, <2>11
<1> QED
  BY <1>1, <1>2, <1>3, <1>4

LEMMA BooksRecord == ASSUME BooksInv, Books!RecordNext PROVE BooksInv'
<1>0. BooksTypes /\ safe \in Nat
  BY DEF BooksInv, BooksTypes
<1>1. /\ sync.at = "record" /\ Books!Write(sync.write)
      /\ sync' = [at |-> "scan", next |-> sync.next, to |-> sync.to]
      /\ UNCHANGED <<chain, safe, cursor, api>>
  BY DEF Books!RecordNext
<1>2. sync \in [at : {"record"}, next : Nat \ {0}, to : 0 .. safe, write : Pending("log")]
  BY <1>0, <1>1 DEF BooksTypes, Books!Idle
<1>3. Fresh(sync.write, inflow)
  BY <1>1 DEF BooksInv
<1>4. BooksFit(invoice', inflow', ledger') /\ (raced' \/ Once(inflow')) /\ Written("log")
  BY <1>1, <1>2, <1>3, WriteFits
<1>5. BooksTypes'
  <2>1. sync' \in [at : {"scan"}, next : Nat \ {0}, to : 0 .. safe]
    BY <1>1, <1>2
  <2> QED
    BY <1>0, <1>1, <2>1 DEF BooksTypes, Books!Idle, InTx, OutTx, Pending, Row
<1>6. sync'.at # "record"
  BY <1>1
<1>7. Fresh(api', inflow')
  <2> SUFFICES ASSUME api.at = "insert", NEW f \in inflow',
                      f.receipt = api.transfer.receipt, f.event = api.event
               PROVE  FALSE
    BY <1>1 DEF Fresh
  <2>1. api.event = "x402"
    BY <1>0 DEF BooksTypes, Books!Idle, Pending
  <2>2. PICK g \in inflow : g.receipt = f.receipt /\ g.event = f.event
    BY <1>4, <2>1 DEF Written
  <2> QED
    BY <2>2 DEF BooksInv, Fresh
<1> QED
  BY <1>4, <1>5, <1>6, <1>7 DEF BooksInv

LEMMA BooksOpen == ASSUME BooksInv, Books!OpenCursor PROVE BooksInv'
<1>0. BooksTypes /\ safe \in Nat /\ BooksFit(invoice, inflow, ledger) /\ EntriesOK(ledger)
  BY DEF BooksInv, BooksTypes, BooksFit, BooksTyped
<1> DEFINE opening == sync.balance - Books!Booked
<1>1. /\ sync.at = "open" /\ cursor' = sync.to /\ sync' = Books!Idle
      /\ ledger' = IF opening = 0 THEN ledger ELSE Books!Post(ledger, <<"opening">>, "cash", "opening", opening)
      /\ UNCHANGED <<invoice, inflow, raced, chain, safe, api>>
  BY DEF Books!OpenCursor
<1>2. sync.balance \in Int /\ sync.to \in 0 .. safe
  BY <1>0, <1>1 DEF BooksTypes, Books!Idle
<1>3. opening \in Int
  <2>1. Books!Net("cash") \in Int /\ Books!Net("pending") \in Int
    BY <1>0, NetIs, NetType
  <2> QED
    BY <1>2, <2>1 DEF Books!Booked
<1> HIDE DEF opening
<1>4. BooksFit(invoice, inflow, Books!Post(ledger, <<"opening">>, "cash", "opening", opening))
  <2>1. <<"opening">>[1] \notin {"in", "allocated", "issued", "void"}
    OBVIOUS
  <2> QED
    BY <1>0, <1>3, <2>1, OtherFits
<1>5. BooksFit(invoice', inflow', ledger')
  BY <1>0, <1>1, <1>4
<1>6. BooksTypes'
  BY <1>0, <1>1, <1>2 DEF BooksTypes, Books!Idle, InTx, OutTx, Pending, Row
<1>7. sync'.at # "record"
  BY <1>1 DEF Books!Idle
<1> QED
  BY <1>1, <1>5, <1>6, <1>7 DEF BooksInv

LEMMA BooksStep == BooksInv /\ [Books!Next]_(Books!vars) => BooksInv'
<1> SUFFICES ASSUME BooksInv, [Books!Next]_(Books!vars) PROVE BooksInv'
  OBVIOUS
<1>1. CASE UNCHANGED Books!vars
  <2>1. UNCHANGED <<invoice, inflow, ledger, raced, chain, safe, cursor, sync, api>>
    BY <1>1 DEF Books!vars
  <2>2. BooksTypes'
    BY <2>1 DEF BooksInv, BooksTypes, Books!Idle, InTx, OutTx, Pending, Row
  <2> QED
    BY <2>1, <2>2, TablesStay
<1>2. ASSUME NEW v \in Invoice, Books!CreateInvoice(v) \/ Books!IssueInvoice(v) \/ Books!VoidInvoice(v)
      PROVE  BooksInv'
  BY <1>2, BooksInvoices
<1>3. ASSUME NEW v \in Invoice, NEW f \in inflow, Books!AllocateByHand(f, v) PROVE BooksInv'
  BY <1>3, BooksByHand
<1>4. ASSUME NEW v \in Invoice, NEW r \in Receipt, Books!SettleX402(v, r) PROVE BooksInv'
  BY <1>4, BooksChain
<1>5. ASSUME NEW p \in Payment, Books!MarkSubmitted(p) \/ Books!Confirm(p) PROVE BooksInv'
  BY <1>5, BooksPayments
<1>6. ASSUME NEW p \in Payment, NEW ok \in BOOLEAN, Books!PayOut(p, ok) PROVE BooksInv'
  BY <1>6, BooksChain
<1>7. ASSUME NEW r \in Receipt, NEW amount \in Transferred,
             NEW ref \in IF evm THEN {None} ELSE Invoice \cup {None}, Books!Transfer(r, amount, ref)
      PROVE  BooksInv'
  BY <1>7, BooksChain
<1>8. CASE Books!Finalize
  BY <1>8, BooksChain
<1>9. CASE Books!BeginSync \/ Books!ScanNext \/ Books!AdvanceCursor \/ Books!AbandonSync
  BY <1>9, BooksScan
<1>10. CASE Books!RecordNext
  BY <1>10, BooksRecord
<1>11. CASE Books!OpenCursor
  BY <1>11, BooksOpen
<1>12. CASE Books!ReadX402 \/ Books!WriteX402 \/ Books!AbandonX402
  BY <1>12, BooksX402
<1> QED
  BY <1>1, <1>2, <1>3, <1>4, <1>5, <1>6, <1>7, <1>8, <1>9, <1>10, <1>11, <1>12 DEF Books!Next

LEMMA BooksInit == Books!Init => BooksInv
<1> SUFFICES ASSUME Books!Init PROVE BooksInv
  OBVIOUS
<1>1. inflow = {} /\ ledger = {} /\ IsFiniteSet({}) /\ AmountSum({}) = 0
  BY FS_EmptySet, AmountOfNone DEF Books!Init
<1>2. invoice = [v \in Invoice |-> [status |-> "none", due |-> 0, paid |-> 0]]
  BY DEF Books!Init
<1>3. \A code : NetOf(ledger, code) = 0 /\ AppliedOf(inflow, code) = 0
  BY <1>1 DEF NetOf, AppliedOf
<1>4. OwedOf(invoice) = 0
  <2> DEFINE w == [v \in Invoice |-> Owes(invoice[v])]
  <2>1. \A v \in Invoice : w[v] = 0
    BY <1>2 DEF Owes
  <2> HIDE DEF w
  <2>2. SumOver(w, Invoice) = 0
    BY <2>1, SumOfZeros, TreasuryAssumption
  <2> QED
    BY <2>2 DEF OwedOf, w
<1>5. BooksTyped(invoice, inflow, ledger)
  BY <1>1, <1>2 DEF BooksTyped, InvoiceRow, EntriesOK
<1>6. InvoicesFit(invoice, inflow) /\ NetsFit(invoice, inflow, ledger)
  BY <1>2, <1>3, <1>4, TreasuryAssumption DEF InvoicesFit, NetsFit
<1>7. BooksFit(invoice, inflow, ledger)
  BY <1>1, <1>5, <1>6 DEF BooksFit, Keys, RefsFit
<1>8. BooksTypes
  BY DEF Books!Init, BooksTypes
<1> QED
  BY <1>1, <1>7, <1>8 DEF BooksInv, Once, Fresh, Books!Init, Books!Idle

\* An invoice is paid by what is applied to it, and the ledger holds what the tables leave open.
LEMMA BooksAgree == BooksInv => AllocationsAddUp
<1> SUFFICES ASSUME BooksInv PROVE Books!AllocationsAddUp
  BY DEF AllocationsAddUp
<1>1. inflow \subseteq Row /\ IsFiniteSet(inflow) /\ EntriesOK(ledger)
  BY DEF BooksInv, BooksFit, BooksTyped
<1>2. \A v : Books!MapThenSumSet(LAMBDA f : f.amount, {f \in inflow : f.invoice = v}) = AppliedOf(inflow, v)
  BY <1>1, AppliedType, AmountsOf DEF AppliedOf
<1>3. Books!Net("unallocated") = -AppliedOf(inflow, None) /\ Books!Net("receivable") = OwedOf(invoice)
  BY <1>1, NetIs DEF BooksInv, BooksFit, NetsFit
<1>4. \A v \in Invoice : /\ invoice[v].paid = AppliedOf(inflow, v)
                         /\ invoice[v].status = "paid" <=> AppliedOf(inflow, v) >= Subtotal
  BY DEF BooksInv, BooksFit, InvoicesFit
<1>5. raced \/ Books!BookedOnce
  BY DEF BooksInv, Once, Books!BookedOnce
<1>6. Books!MapThenSumSet(LAMBDA v : IF invoice[v].status \in {"open", "paid"} THEN invoice[v].due - invoice[v].paid ELSE 0,
                          Invoice) = OwedOf(invoice)
  BY OwedIsSum DEF Owes
<1> QED
  BY <1>2, <1>3, <1>4, <1>5, <1>6 DEF Books!AllocationsAddUp

\* Receipts, invoices and ledger tell one story, for any invoices, receipts,
\* payments and amounts (recordInflow, syncTreasury, allocateInflow, the invoice
\* routes and the x402 payment): a receipt is booked once unless both recorders
\* read before either wrote, an invoice is paid by exactly what is applied to it,
\* and the ledger's unallocated and receivable accounts are what the tables leave open.
THEOREM BooksAgreeWithTables == Spec => []AllocationsAddUp
<1>1. Init => Books!Init
  BY DEF Init
<1>2. [Next]_<<part, squads, theSafe, x402, books, reading, recurring, others>> => [Books!Next]_(Books!vars)
  BY DEF Next, books, Books!vars
<1> QED
  BY <1>1, <1>2, BooksInit, BooksStep, BooksAgree, PTL DEF Spec

(***************************************************************************)
(* Receivables: cash. From the opening balance on, what the books hold is  *)
(* the sum of what they know of the chain: of each transaction, what it    *)
(* moved if it is booked, final, or in the opening balance, and nothing    *)
(* else.  No step but a booking changes that: Known.                       *)
(***************************************************************************)
PaymentState == {"executing", "submitted", "finalized", "failed"}
Submitted(payments) == {p \in Payment : payments[p] = "submitted"}
Taken(rows) == {f.receipt : f \in rows}

\* A transaction is on the chain once.
IdsFit ==
  /\ \A j, k \in 1 .. Len(chain) : chain[j].id = chain[k].id => j = k
  /\ \A k \in 1 .. Len(chain) :
       chain[k].id = IF chain[k].kind = "in" THEN chain[k].receipt ELSE chain[k].payment
  /\ \A f \in inflow : \E k \in 1 .. Len(chain) : chain[k].id = f.receipt

\* What has ended in the tables has ended on the chain.
PaymentsFit ==
  /\ payment \in [Payment -> PaymentState]
  /\ \A p \in Payment : payment[p] \in {"finalized", "failed"} =>
       \E k \in 1 .. Len(chain) : chain[k].id = p /\ chain[k].ok = (payment[p] = "finalized")

PostedFit(entries, payments, begun) ==
  \A e \in entries :
    /\ e.ref[1] = "submitted" => e.ref[2] \in Payment /\ payments[e.ref[2]] # "executing"
    /\ e.ref[1] \in {"finalized", "reversal"} => e.ref[2] \in Payment /\ payments[e.ref[2]] \in {"finalized", "failed"}
    /\ e.ref[1] = "opening" => begun

PendingFits == NetOf(ledger, "pending") = Cardinality(Submitted(payment))

\* What the recorders have read is on the chain.
UnderWay ==
  /\ sync.at = "open" => cursor = None /\ sync.balance = SumOver(MovedBy(sync.to), 1 .. sync.to)
  /\ sync.at \in {"scan", "record"} => cursor # None /\ cursor < sync.next /\ cursor <= sync.to /\ sync.next - 1 <= sync.to
  /\ sync.at = "record" =>
       /\ cursor < sync.next - 1 /\ sync.next - 1 \in 1 .. Len(chain)
       /\ chain[sync.next - 1] = sync.write.transfer /\ sync.write.at = "insert"
  /\ api.at # "idle" => \E k \in 1 .. Len(chain) : chain[k] = api.transfer

\* What the books know of each transaction, if the first n were there when they were opened.
Known(txs, taken, payments, n) ==
  [k \in 1 .. Len(txs) |->
     IF txs[k].kind = "in" THEN IF k > n /\ txs[k].receipt \notin taken THEN 0 ELSE txs[k].amount
     ELSE IF txs[k].ok /\ payments[txs[k].payment] = "finalized" THEN -1 ELSE 0]
KnownSum(txs, taken, payments, n) == SumOver(Known(txs, taken, payments, n), 1 .. Len(txs))

Unbooked(k) == chain[k].kind = "in" /\ chain[k].receipt \notin Taken(inflow)

\* The receipts of the opening balance are not booked again, and the later ones
\* are, as far as the sync has come.
Progress(n) ==
  /\ \A k \in 1 .. n : Unbooked(k) => ~(api.at # "idle" /\ api.transfer = chain[k])
  /\ \A k \in n + 1 .. cursor : ~Unbooked(k)
  /\ sync.at = "scan" => \A k \in n + 1 .. sync.next - 1 : ~Unbooked(k)
  /\ sync.at = "record" => \A k \in n + 1 .. sync.next - 2 : ~Unbooked(k)

OpenedAt(n) ==
  /\ NetOf(ledger, "cash") + NetOf(ledger, "pending") = KnownSum(chain, Taken(inflow), payment, n)
  /\ Progress(n)

CashFacts ==
  IdsFit /\ PaymentsFit /\ PostedFit(ledger, payment, cursor # None) /\ PendingFits /\ UnderWay
CashInv ==
  /\ BooksInv /\ CashFacts
  /\ cursor # None /\ ~raced /\ ~drifted => \E n \in 0 .. cursor : OpenedAt(n)

-----------------------------------------------------------------------------
\* What is known of a transaction is an amount.
LEMMA KnownType ==
  ASSUME NEW txs \in Seq(InTx \cup OutTx), NEW taken, NEW payments, NEW n \in Int
  PROVE  /\ \A k \in 1 .. Len(txs) : Known(txs, taken, payments, n)[k] \in Int
         /\ IsFiniteSet(1 .. Len(txs)) /\ Len(txs) \in Nat
         /\ KnownSum(txs, taken, payments, n) \in Int
<1>1. ASSUME NEW k \in 1 .. Len(txs) PROVE Known(txs, taken, payments, n)[k] \in Int
  <2>1. txs[k] \in InTx \cup OutTx
    OBVIOUS
  <2> QED
    BY <2>1 DEF Known, InTx, OutTx
<1>2. IsFiniteSet(1 .. Len(txs)) /\ Len(txs) \in Nat
  BY FS_Interval
<1>3. KnownSum(txs, taken, payments, n) \in Int
  BY <1>1, <1>2, SumType DEF KnownSum
<1> QED
  BY <1>1, <1>2, <1>3

\* A transaction that nobody knows of yet adds nothing.
LEMMA KnownAppend ==
  ASSUME NEW txs \in Seq(InTx \cup OutTx), NEW t \in InTx \cup OutTx, NEW taken, NEW payments,
         NEW n \in 0 .. Len(txs),
         t \in InTx => t.receipt \notin taken,
         t \in OutTx => payments[t.payment] # "finalized"
  PROVE  KnownSum(Append(txs, t), taken, payments, n) = KnownSum(txs, taken, payments, n)
<1> DEFINE l == Len(txs)
<1> DEFINE u == Known(Append(txs, t), taken, payments, n)
<1> DEFINE w == Known(txs, taken, payments, n)
<1>1. /\ Append(txs, t) \in Seq(InTx \cup OutTx) /\ Len(Append(txs, t)) = l + 1 /\ l \in Nat /\ n \in Int
      /\ \A k \in 1 .. l : Append(txs, t)[k] = txs[k]
      /\ Append(txs, t)[l + 1] = t
  OBVIOUS
<1>2. /\ \A k \in 1 .. l + 1 : u[k] \in Int
      /\ IsFiniteSet(1 .. l) /\ \A k \in 1 .. l : w[k] \in Int
      /\ SumOver(w, 1 .. l) \in Int
  BY <1>1, KnownType DEF KnownSum
<1>3. \A k \in 1 .. l : u[k] = w[k]
  BY <1>1 DEF Known
<1>4. u[l + 1] = 0
  <2>1. u[l + 1] = IF t.kind = "in" THEN IF l + 1 > n /\ t.receipt \notin taken THEN 0 ELSE t.amount
                   ELSE IF t.ok /\ payments[t.payment] = "finalized" THEN -1 ELSE 0
    BY <1>1 DEF Known
  <2> HIDE DEF u
  <2> QED
    BY <2>1 DEF InTx, OutTx
<1>5. (1 .. l) \cup {l + 1} = 1 .. l + 1 /\ l + 1 \notin 1 .. l
  BY <1>1
<1> HIDE DEF u, w
<1>6. SumOver(u, (1 .. l) \cup {l + 1}) = SumOver(u, 1 .. l) + u[l + 1]
  <2> DEFINE s == 1 .. l
  <2> DEFINE x == l + 1
  <2>1. IsFiniteSet(s) /\ x \notin s /\ \A y \in s \cup {x} : u[y] \in Int
    BY <1>2, <1>5
  <2> HIDE DEF s, x
  <2>2. SumOver(u, s \cup {x}) = SumOver(u, s) + u[x]
    BY ONLY <2>1, SumAdds
  <2> QED
    BY <2>2 DEF s, x
<1>7. SumOver(u, 1 .. l) = SumOver(w, 1 .. l)
  BY <1>2, <1>3, SumSame
<1>8. SumOver(u, 1 .. l + 1) = SumOver(u, 1 .. l) + u[l + 1]
  BY <1>5, <1>6, Zenon
<1>9. SumOver(u, 1 .. l + 1) = SumOver(w, 1 .. l)
  BY <1>2, <1>4, <1>7, <1>8
<1> QED
  BY <1>1, <1>9 DEF KnownSum, u, w

\* A receipt that is booked adds its amount.
LEMMA KnownTakes ==
  ASSUME NEW txs \in Seq(InTx \cup OutTx), NEW taken, NEW payments, NEW n \in Int,
         NEW k \in 1 .. Len(txs), k > n, txs[k] \in InTx, NEW r, txs[k].receipt = r, r \notin taken,
         \A j \in 1 .. Len(txs) : txs[j] \in InTx /\ txs[j].receipt = r => j = k
  PROVE  KnownSum(txs, taken \cup {r}, payments, n) = KnownSum(txs, taken, payments, n) + txs[k].amount
<1> DEFINE S == 1 .. Len(txs)
<1> DEFINE w == Known(txs, taken, payments, n)
<1> DEFINE u == Known(txs, taken \cup {r}, payments, n)
<1>1. /\ IsFiniteSet(S) /\ \A j \in S : w[j] \in Int /\ u[j] \in Int
      /\ SumOver(w, S) \in Int
  BY KnownType DEF KnownSum
<1>2. \A j \in S : j # k => w[j] = u[j]
  <2> SUFFICES ASSUME NEW j \in S, j # k PROVE w[j] = u[j]
    OBVIOUS
  <2>1. txs[j] \in InTx \cup OutTx
    OBVIOUS
  <2>2. txs[j].kind = "in" => txs[j].receipt # r
    BY <2>1 DEF OutTx
  <2> QED
    BY <2>2 DEF Known
<1>3. w[k] = 0 /\ u[k] = txs[k].amount /\ txs[k].amount \in Int
  BY DEF Known, InTx
<1> HIDE DEF S, u, w
<1>4. SumOver(u, S) = SumOver(w, S) + u[k] - w[k]
  <2>1. k \in S
    BY DEF S
  <2> QED
    BY <1>1, <1>2, <2>1, SumChanges
<1>5. SumOver(u, S) = SumOver(w, S) + txs[k].amount
  BY <1>1, <1>3, <1>4
<1> QED
  BY <1>5 DEF KnownSum, S, u, w

\* A payment that ends well, takes one; another change of its status, nothing.
LEMMA KnownPays ==
  ASSUME NEW txs \in Seq(InTx \cup OutTx), NEW taken, NEW payments, NEW n \in Int,
         NEW p \in Payment, payments \in [Payment -> PaymentState], payments[p] # "finalized",
         NEW k \in 1 .. Len(txs), txs[k] \in OutTx, txs[k].payment = p, txs[k].ok = TRUE,
         \A j \in 1 .. Len(txs) : txs[j] \in OutTx /\ txs[j].payment = p => j = k
  PROVE  KnownSum(txs, taken, [payments EXCEPT ![p] = "finalized"], n) = KnownSum(txs, taken, payments, n) - 1
<1> DEFINE S == 1 .. Len(txs)
<1> DEFINE w == Known(txs, taken, payments, n)
<1> DEFINE u == Known(txs, taken, [payments EXCEPT ![p] = "finalized"], n)
<1>1. /\ IsFiniteSet(S) /\ \A j \in S : w[j] \in Int /\ u[j] \in Int
      /\ SumOver(w, S) \in Int
  BY KnownType DEF KnownSum
<1>2. \A j \in S : j # k => w[j] = u[j]
  <2> SUFFICES ASSUME NEW j \in S, j # k PROVE w[j] = u[j]
    OBVIOUS
  <2>1. txs[j] \in InTx \cup OutTx
    OBVIOUS
  <2>2. txs[j].kind # "in" => txs[j].payment \in Payment /\ txs[j].payment # p
    BY <2>1 DEF InTx, OutTx
  <2> QED
    BY <2>2 DEF Known
<1>3. w[k] = 0 /\ u[k] = -1
  BY DEF Known, OutTx
<1> HIDE DEF S, u, w
<1>4. SumOver(u, S) = SumOver(w, S) + u[k] - w[k]
  <2>1. k \in S /\ IsFiniteSet(S)
    BY <1>1 DEF S
  <2>2. \A j \in S : w[j] \in Int /\ u[j] \in Int
    BY <1>1
  <2> QED
    BY ONLY <1>2, <2>1, <2>2, SumChanges
<1>5. SumOver(u, S) = SumOver(w, S) - 1
  BY <1>1, <1>3, <1>4
<1> QED
  BY <1>5 DEF KnownSum, S, u, w

LEMMA KnownStays ==
  ASSUME NEW txs \in Seq(InTx \cup OutTx), NEW taken, NEW payments, NEW n \in Int,
         NEW p \in Payment, NEW state \in PaymentState, payments \in [Payment -> PaymentState],
         payments[p] # "finalized", state # "finalized"
  PROVE  KnownSum(txs, taken, [payments EXCEPT ![p] = state], n) = KnownSum(txs, taken, payments, n)
<1> DEFINE S == 1 .. Len(txs)
<1> DEFINE w == Known(txs, taken, payments, n)
<1> DEFINE u == Known(txs, taken, [payments EXCEPT ![p] = state], n)
<1>1. IsFiniteSet(S)
  BY KnownType
<1>2. \A j \in S : w[j] = u[j]
  <2> SUFFICES ASSUME NEW j \in S PROVE w[j] = u[j]
    OBVIOUS
  <2>1. txs[j] \in InTx \cup OutTx
    OBVIOUS
  <2>2. txs[j].kind # "in" => txs[j].payment \in Payment
    BY <2>1 DEF InTx, OutTx
  <2> QED
    BY <2>2 DEF Known
<1> HIDE DEF S, u, w
<1>3. SumOver(w, S) = SumOver(u, S)
  BY ONLY <1>1, <1>2, SumSame
<1> QED
  BY <1>3 DEF KnownSum, S, u, w

-----------------------------------------------------------------------------
\* An allocation moves no cash and books no receipt.
LEMMA AllocateMoves ==
  ASSUME NEW I, NEW L, EntriesOK(L), I \subseteq Row, NEW f \in I, NEW v \in Invoice, Books!Allocate(I, L, f, v)
  PROVE  /\ NetOf(ledger', "cash") = NetOf(L, "cash") /\ NetOf(ledger', "pending") = NetOf(L, "pending")
         /\ Taken(inflow') = Taken(I)
         /\ \A e \in ledger' : e \in L \/ e.ref[1] = "allocated"
<1> DEFINE ref == <<"allocated", f.receipt, f.event, v>>
<1> DEFINE g == [f EXCEPT !.invoice = v]
<1>1. /\ inflow' = (I \ {f}) \cup {g}
      /\ ledger' = Books!Post(L, ref, "unallocated", "receivable", f.amount)
  BY DEF Books!Allocate
<1>2. f.amount \in Int /\ g.receipt = f.receipt
  BY DEF Row
<1>3. ref[1] = "allocated"
  OBVIOUS
<1> HIDE DEF ref, g
<1>4. NetOf(ledger', "cash") = NetOf(L, "cash") /\ NetOf(ledger', "pending") = NetOf(L, "pending")
  BY <1>1, <1>2, PostOther
<1>5. Taken(inflow') = Taken(I)
  BY <1>1, <1>2 DEF Taken
<1>6. \A e \in ledger' : e \in L \/ e.ref = ref
  BY <1>1, PostRefs
<1> QED
  BY <1>3, <1>4, <1>5, <1>6

\* A write books a receipt, or allocates one that is booked.
LEMMA WriteMoves ==
  ASSUME BooksInv, NEW event \in {"log", "x402"}, NEW w \in Pending(event), Fresh(w, inflow), Books!Write(w)
  PROVE  /\ NetOf(ledger', "pending") = NetOf(ledger, "pending")
         /\ \A e \in ledger' : e \in ledger \/ e.ref[1] \in {"in", "allocated"}
         /\ w.at = "insert" =>
              /\ NetOf(ledger', "cash") = NetOf(ledger, "cash") + w.transfer.amount
              /\ Taken(inflow') = Taken(inflow) \cup {w.transfer.receipt}
              /\ ~raced' => ~raced /\ w.transfer.receipt \notin Taken(inflow)
         /\ w.at = "allocate" =>
              /\ NetOf(ledger', "cash") = NetOf(ledger, "cash")
              /\ Taken(inflow') = Taken(inflow) /\ raced' = raced
<1>0. BooksFit(invoice, inflow, ledger) /\ inflow \subseteq Row /\ EntriesOK(ledger)
  BY DEF BooksInv, BooksFit, BooksTyped
<1> DEFINE f == [receipt |-> w.transfer.receipt, event |-> w.event, amount |-> w.transfer.amount, invoice |-> None]
<1> DEFINE ref == <<"in", f.receipt, f.event>>
<1> DEFINE J == inflow \cup {f}
<1> DEFINE P == Books!Post(ledger, ref, "cash", "unallocated", f.amount)
<1>1. CASE w.at = "insert"
  <2>1. /\ f \in Row /\ f.receipt = w.transfer.receipt /\ f.event = event /\ f.amount = w.transfer.amount
        /\ f.amount \in Int /\ w.event = event /\ w.seen = {} /\ w.invoice \in Invoice \cup {None}
    BY <1>1 DEF Pending, InTx, Row
  <2>2. \A e \in ledger : e.ref # ref
    <3> SUFFICES ASSUME NEW e \in ledger, e.ref = ref PROVE FALSE
      OBVIOUS
    <3>1. e.ref[1] = "in" /\ e.ref[2] = f.receipt /\ e.ref[3] = f.event
      OBVIOUS
    <3>2. \E g \in inflow : g.receipt = f.receipt /\ g.event = f.event
      BY <1>0, <3>1 DEF BooksFit, RefsFit
    <3> QED
      BY <1>1, <2>1, <3>2 DEF Fresh
  <2>3. ref[1] = "in"
    OBVIOUS
  <2>4. raced' = (raced \/ Books!Rows(f.receipt) # {})
    BY <1>1, <2>1 DEF Books!Write
  <2>5. ~raced' => ~raced /\ f.receipt \notin Taken(inflow)
    BY <2>4 DEF Books!Rows, Taken
  <2>6. Taken(J) = Taken(inflow) \cup {f.receipt} /\ J \subseteq Row
    BY <1>0, <2>1 DEF Taken
  <2>7. \/ inflow' = J /\ ledger' = P
        \/ w.invoice \in Invoice /\ Books!Allocate(J, P, f, w.invoice)
    BY <1>1, <2>1 DEF Books!Write
  <2>7a. f \in J
    OBVIOUS
  <2> HIDE DEF f, ref, J
  <2>8. /\ EntriesOK(P) /\ NetOf(P, "cash") = NetOf(ledger, "cash") + f.amount
        /\ NetOf(P, "pending") = NetOf(ledger, "pending")
    BY <1>0, <2>1, <2>2, PostNew
  <2>9. \A e \in P : e \in ledger \/ e.ref = ref
    BY PostRefs
  <2> HIDE DEF P
  <2>10. /\ NetOf(ledger', "cash") = NetOf(P, "cash") /\ NetOf(ledger', "pending") = NetOf(P, "pending")
         /\ Taken(inflow') = Taken(J)
         /\ \A e \in ledger' : e \in P \/ e.ref[1] = "allocated"
    <3>1. CASE inflow' = J /\ ledger' = P
      BY <3>1
    <3>2. CASE w.invoice \in Invoice /\ Books!Allocate(J, P, f, w.invoice)
      BY <2>6, <2>7a, <2>8, <3>2, AllocateMoves
    <3> QED
      BY <2>7, <3>1, <3>2
  <2> QED
    BY <1>1, <2>1, <2>3, <2>5, <2>6, <2>8, <2>9, <2>10
<1>2. CASE w.at = "allocate"
  <2>1. w.row \in inflow /\ Books!Allocate(inflow, ledger, w.row, w.invoice) /\ raced' = raced
    BY <1>2 DEF Books!Write
  <2>2. w.invoice \in Invoice
    BY <1>2 DEF Pending
  <2>3. /\ NetOf(ledger', "cash") = NetOf(ledger, "cash") /\ NetOf(ledger', "pending") = NetOf(ledger, "pending")
        /\ Taken(inflow') = Taken(inflow)
        /\ \A e \in ledger' : e \in ledger \/ e.ref[1] = "allocated"
    BY <1>0, <2>1, <2>2, AllocateMoves
  <2> QED
    BY <1>2, <2>1, <2>3
<1> QED
  BY <1>1, <1>2 DEF Pending

\* The receipts of new rows are on the chain.
LEMMA CashKept ==
  ASSUME CashInv, BooksInv', UnderWay', UNCHANGED <<chain, payment, drifted>>, raced => raced',
         Taken(inflow') = Taken(inflow),
         NetOf(ledger', "cash") = NetOf(ledger, "cash"), NetOf(ledger', "pending") = NetOf(ledger, "pending"),
         \A e \in ledger' : e \in ledger \/ e.ref[1] \in {"in", "allocated", "issued", "void"},
         cursor' = None <=> cursor = None,
         \A n \in 0 .. cursor : Progress(n) => n \in 0 .. cursor' /\ Progress(n)'
  PROVE  CashInv'
<1>1. IdsFit' /\ PaymentsFit'
  <2>1. \A f \in inflow' : \E k \in 1 .. Len(chain) : chain[k].id = f.receipt
    <3> SUFFICES ASSUME NEW f \in inflow' PROVE \E k \in 1 .. Len(chain) : chain[k].id = f.receipt
      OBVIOUS
    <3>1. f.receipt \in Taken(inflow)
      BY DEF Taken
    <3> QED
      BY <3>1 DEF CashInv, CashFacts, IdsFit, Taken
  <2> QED
    BY <2>1 DEF CashInv, CashFacts, IdsFit, PaymentsFit
<1>2. PostedFit(ledger', payment', (cursor # None)')
  BY DEF CashInv, CashFacts, PostedFit
<1>3. PendingFits'
  BY DEF CashInv, CashFacts, PendingFits
<1>4. ASSUME (cursor # None)', ~raced', ~drifted' PROVE (\E n \in 0 .. cursor : OpenedAt(n))'
  <2>1. PICK n \in 0 .. cursor : OpenedAt(n)
    BY <1>4 DEF CashInv
  <2>2. n \in 0 .. cursor' /\ Progress(n)'
    BY <2>1 DEF OpenedAt
  <2>3. OpenedAt(n)'
    BY <2>1, <2>2 DEF OpenedAt
  <2> QED
    BY <2>2, <2>3
<1> QED
  BY <1>1, <1>2, <1>3, <1>4 DEF CashInv, CashFacts

\* A step of the tables that moves no cash.
LEMMA CashTables ==
  ASSUME CashInv, BooksInv', UNCHANGED <<chain, payment, cursor, sync, api, raced, drifted>>,
         Taken(inflow') = Taken(inflow),
         NetOf(ledger', "cash") = NetOf(ledger, "cash"), NetOf(ledger', "pending") = NetOf(ledger, "pending"),
         \A e \in ledger' : e \in ledger \/ e.ref[1] \in {"in", "allocated", "issued", "void"}
  PROVE  CashInv'
<1>1. UnderWay'
  <2>1. MovedBy(sync.to)' = MovedBy(sync.to)
    BY DEF MovedBy, Books!Moved
  <2> QED
    BY <2>1 DEF CashInv, CashFacts, UnderWay
<1>2. ASSUME NEW n, Progress(n) PROVE Progress(n)'
  BY <1>2 DEF Progress, Unbooked
<1> QED
  BY <1>1, <1>2, CashKept

LEMMA CashInvoices ==
  ASSUME CashInv, NEW v \in Invoice,
         Books!CreateInvoice(v) \/ Books!IssueInvoice(v) \/ Books!VoidInvoice(v)
  PROVE  CashInv'
<1>0. EntriesOK(ledger) /\ invoice[v].due \in Int /\ BooksInv
  BY DEF CashInv, BooksInv, BooksFit, BooksTyped, InvoiceRow
<1>1. UNCHANGED <<chain, payment, cursor, sync, api, raced, drifted, inflow>>
  BY DEF Books!CreateInvoice, Books!IssueInvoice, Books!VoidInvoice, Books!Ghosts
<1>2. BooksInv'
  BY <1>0, BooksInvoices
<1>3. \/ ledger' = ledger
      \/ ledger' = Books!Post(ledger, <<"issued", v>>, "receivable", "revenue", invoice[v].due)
      \/ ledger' = Books!Post(ledger, <<"void", v>>, "revenue", "receivable", invoice[v].due)
  BY DEF Books!CreateInvoice, Books!IssueInvoice, Books!VoidInvoice
<1>4. <<"issued", v>>[1] = "issued" /\ <<"void", v>>[1] = "void"
  OBVIOUS
<1>5. NetOf(ledger', "cash") = NetOf(ledger, "cash") /\ NetOf(ledger', "pending") = NetOf(ledger, "pending")
  BY <1>0, <1>3, PostOther
<1>6. \A e \in ledger' : e \in ledger \/ e.ref[1] \in {"in", "allocated", "issued", "void"}
  BY <1>3, <1>4, PostRefs
<1> QED
  BY <1>1, <1>2, <1>5, <1>6, CashTables

LEMMA CashByHand ==
  ASSUME CashInv, NEW v \in Invoice, NEW f \in inflow, Books!AllocateByHand(f, v)
  PROVE  CashInv'
<1>0. EntriesOK(ledger) /\ inflow \subseteq Row /\ BooksInv
  BY DEF CashInv, BooksInv, BooksFit, BooksTyped
<1>1. UNCHANGED <<chain, payment, cursor, sync, api, raced, drifted>> /\ Books!Allocate(inflow, ledger, f, v)
  BY DEF Books!AllocateByHand, Books!Ghosts
<1>2. BooksInv'
  BY <1>0, BooksByHand
<1> QED
  BY <1>0, <1>1, <1>2, AllocateMoves, CashTables

LEMMA FirstIsLeast ==
  ASSUME NEW from \in Nat, NEW to \in Nat, Books!Incoming(from, to) # {}
  PROVE  LET k == Books!Min(Books!Incoming(from, to))
         IN k \in from .. to /\ chain[k].kind = "in" /\ \A j \in from .. k - 1 : chain[j].kind # "in"
<1> DEFINE S == Books!Incoming(from, to)
<1> DEFINE k == Books!Min(S)
<1>1. S \in SUBSET Nat
  BY DEF Books!Incoming
<1>2. k \in S /\ \A j \in S : k <= j
  <2> HIDE DEF S
  <2>1. \E m \in S : \A j \in S : m =< j
    BY <1>1, LeastOf DEF S
  <2> QED
    BY <2>1 DEF Books!Min
<1> HIDE DEF k
<1>3. k \in from .. to /\ chain[k].kind = "in"
  BY <1>2 DEF Books!Incoming
<1>4. ASSUME NEW j \in from .. k - 1 PROVE chain[j].kind # "in"
  <2>1. j \in from .. to /\ ~(k <= j)
    BY <1>3
  <2> QED
    BY <1>2, <2>1 DEF Books!Incoming
<1> QED
  BY <1>3, <1>4 DEF k

\* What the sync has passed is booked.
LEMMA CashScans ==
  ASSUME CashInv, Books!BeginSync \/ Books!AdvanceCursor \/ Books!AbandonSync \/ Books!ScanNext
  PROVE  CashInv'
<1>0. /\ BooksInv /\ UnderWay /\ BooksTypes /\ chain \in Seq(InTx \cup OutTx) /\ safe \in Nat /\ safe <= Len(chain)
      /\ Len(chain) \in Nat /\ cursor \in (0 .. safe) \cup {None}
  BY DEF CashInv, CashFacts, BooksInv, BooksTypes
<1>1. UNCHANGED <<chain, payment, inflow, ledger, raced, drifted, api>>
  BY DEF Books!BeginSync, Books!AdvanceCursor, Books!AbandonSync, Books!ScanNext, Books!Ghosts
<1>2. BooksInv'
  BY <1>0, BooksScan
<1>3. None \notin Nat
  BY TreasuryAssumption
<1>4. api'.at # "idle" => (\E k \in 1 .. Len(chain) : chain[k] = api.transfer)'
  BY <1>0, <1>1 DEF UnderWay
<1>5. Taken(inflow') = Taken(inflow) /\ \A n : MovedBy(n)' = MovedBy(n)
  BY <1>1 DEF MovedBy, Books!Moved
<1>6. \A k : Unbooked(k)' <=> Unbooked(k)
  BY <1>1 DEF Unbooked, Taken
<1>7. CASE Books!BeginSync
  <2>1. cursor' = cursor
    BY <1>7 DEF Books!BeginSync
  <2>2. CASE cursor = None
    <3>1. sync' = [at |-> "open", to |-> safe, balance |-> Books!BalanceAt(safe)]
      BY <1>7, <2>2 DEF Books!BeginSync
    <3>2. UnderWay'
      <4>1. Books!BalanceAt(safe) = SumOver(MovedBy(safe), 1 .. safe)
        BY <1>0, BalanceIsSum
      <4> QED
        BY <1>4, <1>5, <2>1, <2>2, <3>1, <4>1 DEF UnderWay
    <3>3. 0 .. cursor = 0 .. cursor' /\ sync'.at = "open"
      BY <2>1, <3>1
    <3>4. ASSUME NEW n \in 0 .. cursor, Progress(n) PROVE n \in 0 .. cursor' /\ Progress(n)'
      BY <1>1, <1>6, <2>1, <3>3, <3>4 DEF Progress
    <3> QED
      BY <1>1, <1>2, <1>5, <2>1, <3>2, <3>4, CashKept
  <2>3. CASE cursor # None
    <3>1. PICK to \in safe .. safe \cup cursor .. safe : sync' = [at |-> "scan", next |-> cursor + 1, to |-> to]
      BY <1>7, <2>3 DEF Books!BeginSync
    <3>2. cursor \in Nat /\ cursor <= to /\ sync'.at = "scan" /\ sync'.next = cursor + 1 /\ sync'.to = to
          /\ cursor + 1 - 1 <= to
      BY <1>0, <2>3, <3>1
    <3>3. UnderWay'
      BY <1>4, <2>1, <2>3, <3>2 DEF UnderWay
    <3>4. ASSUME NEW n \in 0 .. cursor, Progress(n) PROVE n \in 0 .. cursor' /\ Progress(n)'
      <4>1. cursor + 1 - 1 = cursor
        BY <3>2
      <4> QED
        BY <1>1, <1>6, <2>1, <3>2, <3>4, <4>1 DEF Progress
    <3> QED
      BY <1>1, <1>2, <1>5, <2>1, <3>3, <3>4, CashKept
  <2> QED
    BY <2>2, <2>3
<1>8. CASE Books!AbandonSync
  <2>1. cursor' = cursor /\ sync'.at = "idle"
    BY <1>8 DEF Books!AbandonSync, Books!Idle
  <2>2. UnderWay'
    BY <1>4, <2>1 DEF UnderWay
  <2>3. ASSUME NEW n \in 0 .. cursor, Progress(n) PROVE n \in 0 .. cursor' /\ Progress(n)'
    BY <1>1, <1>6, <2>1, <2>3 DEF Progress
  <2> QED
    BY <1>1, <1>2, <1>5, <2>1, <2>2, <2>3, CashKept
<1>9. CASE Books!AdvanceCursor
  <2>1. sync.at = "scan" /\ Books!Incoming(sync.next, sync.to) = {} /\ cursor' = sync.to /\ sync'.at = "idle"
    BY <1>9 DEF Books!AdvanceCursor, Books!Idle
  <2>2. sync.next \in Nat \ {0} /\ sync.to \in Nat
    BY <1>0, <2>1 DEF BooksTypes, Books!Idle
  <2>3. cursor # None /\ cursor \in Nat /\ cursor < sync.next /\ cursor <= sync.to
    BY <1>0, <2>1 DEF UnderWay
  <2>4. UnderWay'
    BY <1>4, <2>1 DEF UnderWay
  <2>5. ASSUME NEW n \in 0 .. cursor, Progress(n) PROVE n \in 0 .. cursor' /\ Progress(n)'
    <3>1. \A k \in n + 1 .. sync.next - 1 : ~Unbooked(k)
      BY <2>1, <2>5 DEF Progress
    <3>2. \A k \in sync.next .. sync.to : ~Unbooked(k)
      BY <2>1 DEF Books!Incoming, Unbooked
    <3>3. n \in Nat /\ n <= cursor
      BY <2>3, <2>5
    <3>4. \A k \in n + 1 .. sync.to : k \in n + 1 .. sync.next - 1 \/ k \in sync.next .. sync.to
      BY <2>2, <3>3
    <3>5. \A k \in n + 1 .. sync.to : ~Unbooked(k)
      BY <3>1, <3>2, <3>4
    <3>6. n \in 0 .. cursor'
      BY <2>1, <2>2, <2>3, <3>3
    <3> QED
      BY <1>1, <1>6, <2>1, <2>5, <3>5, <3>6 DEF Progress
  <2>6. cursor' # None
    BY <1>3, <2>1, <2>2
  <2> QED
    BY <1>1, <1>2, <1>5, <2>3, <2>4, <2>5, <2>6, CashKept
<1>10. CASE Books!ScanNext
  <2> DEFINE k == Books!Min(Books!Incoming(sync.next, sync.to))
  <2>1. PICK w \in Books!Read(chain[k], "log", None) :
          sync' = IF w = Books!Idle THEN [sync EXCEPT !.next = k + 1]
                  ELSE [at |-> "record", next |-> k + 1, to |-> sync.to, write |-> w]
    BY <1>10 DEF Books!ScanNext
  <2>2. sync.at = "scan" /\ Books!Incoming(sync.next, sync.to) # {} /\ cursor' = cursor
    BY <1>10 DEF Books!ScanNext
  <2>3. sync \in [at : {"scan"}, next : Nat \ {0}, to : 0 .. safe]
    BY <1>0, <2>2 DEF BooksTypes, Books!Idle
  <2>4. sync.next \in Nat \ {0} /\ sync.to \in Nat /\ sync.to <= Len(chain)
    BY <1>0, <2>3
  <2>5. k \in sync.next .. sync.to /\ chain[k].kind = "in" /\ \A j \in sync.next .. k - 1 : chain[j].kind # "in"
    BY <2>2, <2>4, FirstIsLeast
  <2> HIDE DEF k
  <2>6. cursor # None /\ cursor \in Nat /\ cursor < sync.next /\ cursor <= sync.to
    BY <1>0, <2>2 DEF UnderWay
  <2>7. k \in Nat /\ k \in 1 .. Len(chain) /\ sync.next <= k
    BY <2>4, <2>5
  <2>8. ASSUME NEW n \in 0 .. cursor, Progress(n) PROVE \A j \in n + 1 .. k - 1 : ~Unbooked(j)
    <3>1. \A j \in n + 1 .. sync.next - 1 : ~Unbooked(j)
      BY <2>2, <2>8 DEF Progress
    <3>2. \A j \in sync.next .. k - 1 : ~Unbooked(j)
      BY <2>5 DEF Unbooked
    <3>3. n \in Nat
      BY <2>6, <2>8
    <3>4. \A j \in n + 1 .. k - 1 : j \in n + 1 .. sync.next - 1 \/ j \in sync.next .. k - 1
      BY <2>4, <2>7, <3>3
    <3> QED
      BY <3>1, <3>2, <3>4
  <2>9. CASE w = Books!Idle
    <3>1. sync'.at = "scan" /\ sync'.next = k + 1 /\ sync'.to = sync.to
      BY <2>1, <2>3, <2>9
    <3>2. Books!Rows(chain[k].receipt) # {}
      <4> SUFFICES ASSUME Books!Rows(chain[k].receipt) = {} PROVE FALSE
        OBVIOUS
      <4>1. w.at = "insert"
        BY <2>1 DEF Books!Read
      <4> QED
        BY <2>9, <4>1 DEF Books!Idle
    <3>3. ~Unbooked(k)
      BY <3>2 DEF Books!Rows, Unbooked, Taken
    <3>4. UnderWay'
      <4>1. cursor < k + 1 /\ k + 1 - 1 <= sync.to
        BY <2>4, <2>5, <2>6, <2>7
      <4>2. cursor' < sync'.next /\ cursor' <= sync'.to /\ sync'.next - 1 <= sync'.to
        BY <2>2, <2>4, <2>6, <2>7, <3>1, <4>1
      <4> QED
        BY <1>4, <2>2, <2>6, <3>1, <4>2 DEF UnderWay
    <3>5. ASSUME NEW n \in 0 .. cursor, Progress(n) PROVE n \in 0 .. cursor' /\ Progress(n)'
      <4>1. n \in Nat
        BY <2>6, <3>5
      <4>2. \A j \in n + 1 .. (k + 1) - 1 : j \in n + 1 .. k - 1 \/ j = k
        BY <2>7, <4>1
      <4>3. \A j \in n + 1 .. (k + 1) - 1 : ~Unbooked(j)
        BY <2>8, <3>3, <3>5, <4>2
      <4> QED
        BY <1>1, <1>6, <2>2, <3>1, <3>5, <4>3 DEF Progress
    <3> QED
      BY <1>1, <1>2, <1>5, <2>2, <3>4, <3>5, CashKept
  <2>10. CASE w # Books!Idle
    <3>1. sync' = [at |-> "record", next |-> k + 1, to |-> sync.to, write |-> w]
      BY <2>1, <2>10
    <3>2. sync'.at = "record" /\ sync'.next = k + 1 /\ sync'.to = sync.to /\ sync'.write = w
      BY <3>1
    <3>3. w.transfer = chain[k] /\ w.at = "insert"
      BY <2>1, <2>10 DEF Books!Read
    <3>4. (k + 1) - 1 = k /\ (k + 1) - 2 = k - 1 /\ cursor < k /\ cursor < k + 1
          /\ (k + 1) - 1 <= sync.to
      BY <2>4, <2>5, <2>6, <2>7
    <3>5. UnderWay'
      BY <1>1, <1>4, <2>2, <2>6, <2>7, <3>2, <3>3, <3>4 DEF UnderWay
    <3>6. ASSUME NEW n \in 0 .. cursor, Progress(n) PROVE n \in 0 .. cursor' /\ Progress(n)'
      BY <1>1, <1>6, <2>2, <2>8, <3>2, <3>4, <3>6 DEF Progress
    <3> QED
      BY <1>1, <1>2, <1>5, <2>2, <3>5, <3>6, CashKept
  <2> QED
    BY <2>9, <2>10
<1> QED
  BY <1>7, <1>8, <1>9, <1>10

\* The transfer that a recorder books is on the chain after the opening balance.
LEMMA CashBooks ==
  ASSUME CashInv, BooksInv', UnderWay', NEW event \in {"log", "x402"}, NEW w \in Pending(event),
         Fresh(w, inflow), Books!Write(w), UNCHANGED <<chain, payment, drifted, cursor>>,
         \A n \in 0 .. cursor : Progress(n) => Progress(n)',
         w.at = "insert" =>
           \E k \in 1 .. Len(chain) :
             chain[k] = w.transfer /\ \A n \in 0 .. cursor : Progress(n) /\ Unbooked(k) => n < k
  PROVE  CashInv'
<1>0. BooksInv /\ CashFacts /\ EntriesOK(ledger) /\ chain \in Seq(InTx \cup OutTx) /\ raced \in {raced}
  BY DEF CashInv, BooksInv, BooksFit, BooksTyped, BooksTypes
<1>1. /\ NetOf(ledger', "pending") = NetOf(ledger, "pending")
      /\ \A e \in ledger' : e \in ledger \/ e.ref[1] \in {"in", "allocated"}
  BY <1>0, WriteMoves
<1>2. CASE w.at = "allocate"
  <2>1. NetOf(ledger', "cash") = NetOf(ledger, "cash") /\ Taken(inflow') = Taken(inflow) /\ raced' = raced
    BY <1>0, <1>2, WriteMoves
  <2> QED
    BY <1>1, <2>1, CashKept
<1>3. CASE w.at = "insert"
  <2> DEFINE r == w.transfer.receipt
  <2>1. /\ NetOf(ledger', "cash") = NetOf(ledger, "cash") + w.transfer.amount
        /\ Taken(inflow') = Taken(inflow) \cup {r}
        /\ ~raced' => ~raced /\ r \notin Taken(inflow)
    BY <1>0, <1>3, WriteMoves
  <2>2. PICK k \in 1 .. Len(chain) :
          chain[k] = w.transfer /\ \A n \in 0 .. cursor : Progress(n) /\ Unbooked(k) => n < k
    BY <1>3
  <2>3. w.transfer \in InTx /\ chain[k] \in InTx /\ chain[k].kind = "in" /\ chain[k].receipt = r
        /\ chain[k].id = r
    <3>1. w.transfer \in InTx
      BY DEF Pending
    <3> QED
      BY <1>0, <2>2, <3>1 DEF InTx, CashFacts, IdsFit
  <2>4. IdsFit'
    <3>1. \A f \in inflow' : \E j \in 1 .. Len(chain) : chain[j].id = f.receipt
      <4> SUFFICES ASSUME NEW f \in inflow' PROVE \E j \in 1 .. Len(chain) : chain[j].id = f.receipt
        OBVIOUS
      <4>1. f.receipt \in Taken(inflow) \/ f.receipt = r
        <5>1. f.receipt \in Taken(inflow')
          BY DEF Taken
        <5> QED
          BY <2>1, <5>1
      <4> QED
        BY <1>0, <2>3, <4>1 DEF CashFacts, IdsFit, Taken
    <3> QED
      BY <1>0, <3>1 DEF CashFacts, IdsFit
  <2>5. PaymentsFit' /\ PendingFits' /\ PostedFit(ledger', payment', (cursor # None)')
    BY <1>0, <1>1 DEF CashFacts, PaymentsFit, PendingFits, PostedFit
  <2>6. ASSUME (cursor # None)', ~raced', ~drifted' PROVE (\E n \in 0 .. cursor : OpenedAt(n))'
    <3>1. PICK n \in 0 .. cursor : OpenedAt(n)
      BY <2>1, <2>6 DEF CashInv
    <3>2. Progress(n) /\ Progress(n)'
      BY <3>1 DEF OpenedAt
    <3>3. r \notin Taken(inflow) /\ Unbooked(k)
      BY <2>1, <2>3, <2>6 DEF Unbooked
    <3>4. n < k /\ n \in Int
      BY <2>2, <2>6, <3>1, <3>2, <3>3, TreasuryAssumption
    <3>5. \A j \in 1 .. Len(chain) : chain[j] \in InTx /\ chain[j].receipt = r => j = k
      BY <1>0, <2>3 DEF CashFacts, IdsFit, InTx
    <3>6. KnownSum(chain, Taken(inflow) \cup {r}, payment, n) = KnownSum(chain, Taken(inflow), payment, n) + chain[k].amount
      <4> HIDE DEF r
      <4> QED
        BY <1>0, <2>3, <3>3, <3>4, <3>5, KnownTakes
    <3>7. /\ NetOf(ledger, "cash") \in Int /\ NetOf(ledger, "pending") \in Int /\ w.transfer.amount \in Int
          /\ NetOf(ledger, "cash") + NetOf(ledger, "pending") = KnownSum(chain, Taken(inflow), payment, n)
      BY <1>0, <2>3, <3>1, NetType DEF OpenedAt, InTx
    <3>8. NetOf(ledger', "cash") + NetOf(ledger', "pending") = KnownSum(chain, Taken(inflow'), payment, n)
      BY <1>1, <2>1, <2>2, <3>6, <3>7
    <3>9. OpenedAt(n)'
      BY <3>2, <3>8 DEF OpenedAt
    <3> QED
      BY <3>1, <3>9
  <2> QED
    BY <2>4, <2>5, <2>6 DEF CashInv, CashFacts
<1> QED
  BY <1>2, <1>3 DEF Pending

LEMMA CashRecords == ASSUME CashInv, Books!RecordNext PROVE CashInv'
<1>0. BooksInv /\ UnderWay /\ BooksTypes /\ Len(chain) \in Nat /\ cursor \in (0 .. safe) \cup {None} /\ safe \in Nat
  BY DEF CashInv, CashFacts, BooksInv, BooksTypes
<1>1. /\ sync.at = "record" /\ Books!Write(sync.write)
      /\ sync' = [at |-> "scan", next |-> sync.next, to |-> sync.to]
      /\ UNCHANGED <<chain, cursor, api, payment, drifted>>
  BY DEF Books!RecordNext
<1>2. sync'.at = "scan" /\ sync'.next = sync.next /\ sync'.to = sync.to
  BY <1>1
<1>3. sync.write \in Pending("log") /\ Fresh(sync.write, inflow) /\ sync.next \in Nat
  BY <1>0, <1>1 DEF BooksTypes, BooksInv, Books!Idle
<1> DEFINE k == sync.next - 1
<1>4. /\ cursor # None /\ cursor \in Nat /\ cursor < k /\ cursor <= sync.to /\ k \in 1 .. Len(chain)
      /\ chain[k] = sync.write.transfer /\ sync.write.at = "insert" /\ cursor < sync.next
  BY <1>0, <1>1 DEF UnderWay
<1>5. UnderWay'
  BY <1>0, <1>1, <1>2, <1>4 DEF UnderWay
<1>6. Taken(inflow') = Taken(inflow) \cup {chain[k].receipt}
  BY <1>0, <1>1, <1>3, <1>4, WriteMoves
<1>7. ASSUME NEW n \in 0 .. cursor, Progress(n) PROVE Progress(n)'
  <2>1. \A j : Unbooked(j)' => Unbooked(j) /\ j # k
    BY <1>1, <1>6 DEF Unbooked
  <2>2. \A j \in n + 1 .. sync.next - 2 : ~Unbooked(j)
    BY <1>1, <1>7 DEF Progress
  <2>3. n \in Nat
    BY <1>4, <1>7
  <2>4. \A j \in n + 1 .. sync.next - 1 : j \in n + 1 .. sync.next - 2 \/ j = k
    BY <1>3, <2>3
  <2> HIDE DEF k
  <2> QED
    BY <1>1, <1>2, <1>7, <2>1, <2>2, <2>4 DEF Progress
<1>8. \A n \in 0 .. cursor : n < k
  BY <1>4
<1>9. BooksInv'
  BY <1>0, BooksRecord
<1> HIDE DEF k
<1> QED
  BY <1>1, <1>3, <1>4, <1>5, <1>7, <1>8, <1>9, CashBooks

LEMMA CashX402 ==
  ASSUME CashInv, Books!ReadX402 \/ Books!WriteX402 \/ Books!AbandonX402
  PROVE  CashInv'
<1>0. BooksInv /\ UnderWay /\ BooksTypes /\ BooksInv'
  BY BooksX402 DEF CashInv, CashFacts, BooksInv
<1>1. UNCHANGED <<chain, cursor, sync, payment, drifted>> /\ (\A n : MovedBy(n)' = MovedBy(n))
  <2>1. UNCHANGED <<chain, cursor, sync, payment, drifted>>
    BY DEF Books!ReadX402, Books!WriteX402, Books!AbandonX402, Books!Ghosts, Books!SyncState
  <2> QED
    BY <2>1 DEF MovedBy, Books!Moved
<1>2. CASE Books!ReadX402 \/ Books!AbandonX402
  <2>1. UNCHANGED <<inflow, ledger, raced>>
    BY <1>2 DEF Books!ReadX402, Books!AbandonX402, Books!Ghosts
  <2>2. api'.at # "idle" => api.at # "idle" /\ api'.transfer = api.transfer
    <3>1. CASE Books!AbandonX402
      BY <3>1 DEF Books!AbandonX402, Books!Idle
    <3>2. CASE Books!ReadX402
      <4>1. api.at = "settled" /\ api' \in Books!Read(api.transfer, "x402", api.invoice)
        BY <3>2 DEF Books!ReadX402
      <4>2. api' = Books!Idle \/ api'.transfer = api.transfer
        BY <4>1 DEF Books!Read
      <4> QED
        BY <4>1, <4>2 DEF Books!Idle
    <3> QED
      BY <1>2, <3>1, <3>2
  <2>3. UnderWay'
    BY <1>0, <1>1, <2>2 DEF UnderWay
  <2>4. ASSUME NEW n \in 0 .. cursor, Progress(n) PROVE n \in 0 .. cursor' /\ Progress(n)'
    BY <1>1, <2>1, <2>2, <2>4 DEF Progress, Unbooked, Taken
  <2> QED
    BY <1>0, <1>1, <2>1, <2>3, <2>4, CashKept
<1>3. CASE Books!WriteX402
  <2>1. api.at \in {"insert", "allocate"} /\ Books!Write(api) /\ api'.at = "idle"
    BY <1>3 DEF Books!WriteX402, Books!Idle
  <2>2. api \in Pending("x402") /\ Fresh(api, inflow)
    BY <1>0, <2>1 DEF BooksTypes, BooksInv, Books!Idle
  <2>3. UnderWay'
    BY <1>0, <1>1, <2>1 DEF UnderWay
  <2>4. Taken(inflow) \subseteq Taken(inflow')
    <3>1. api.at = "insert" => Taken(inflow') = Taken(inflow) \cup {api.transfer.receipt}
      BY <1>0, <2>1, <2>2, WriteMoves
    <3>2. api.at = "allocate" => Taken(inflow') = Taken(inflow)
      BY <1>0, <2>1, <2>2, WriteMoves
    <3> QED
      BY <2>1, <3>1, <3>2
  <2>5. ASSUME NEW n \in 0 .. cursor, Progress(n) PROVE Progress(n)'
    <3>1. \A k : Unbooked(k)' => Unbooked(k)
      BY <1>1, <2>4 DEF Unbooked
    <3> QED
      BY <1>1, <2>1, <2>5, <3>1 DEF Progress
  <2>6. PICK k \in 1 .. Len(chain) : chain[k] = api.transfer
    BY <1>0, <2>1 DEF UnderWay
  <2>7. ASSUME NEW n \in 0 .. cursor, Progress(n), Unbooked(k) PROVE n < k
    <3>1. api.at # "idle"
      BY <2>1
    <3>2. k \notin 1 .. n
      BY <2>6, <2>7, <3>1 DEF Progress
    <3> QED
      BY <2>7, <3>2
  <2> QED
    BY <1>0, <1>1, <2>1, <2>2, <2>3, <2>5, <2>6, <2>7, CashBooks
<1> QED
  BY <1>2, <1>3

\* A transaction that lands is new to the books.
LEMMA CashLands ==
  ASSUME CashInv, BooksInv', NEW t \in InTx \cup OutTx, ~Books!Landed(t.id),
         t.id = IF t.kind = "in" THEN t.receipt ELSE t.payment,
         chain' = Append(chain, t), UNCHANGED <<cursor, sync, inflow, ledger, payment, raced, drifted>>,
         api' = api \/ api'.transfer = t
  PROVE  CashInv'
<1>0. /\ BooksInv /\ CashFacts /\ chain \in Seq(InTx \cup OutTx) /\ Len(chain) \in Nat
      /\ safe \in Nat /\ safe <= Len(chain) /\ cursor \in (0 .. safe) \cup {None}
      /\ None \notin Nat /\ BooksTypes
  BY TreasuryAssumption DEF CashInv, BooksInv, BooksTypes
<1> DEFINE l == Len(chain)
<1>1. /\ chain' \in Seq(InTx \cup OutTx) /\ Len(chain') = l + 1
      /\ \A k \in 1 .. l : chain'[k] = chain[k] /\ k \in 1 .. l + 1
      /\ chain'[l + 1] = t
      /\ \A k \in 1 .. l + 1 : k \in 1 .. l \/ k = l + 1
  BY <1>0
<1>2. \A k \in 1 .. l : chain[k].id # t.id
  BY <1>0 DEF Books!Landed
<1>3. IdsFit'
  <2>1. \A f \in inflow' : \E k \in 1 .. Len(chain') : chain'[k].id = f.receipt
    BY <1>0, <1>1 DEF CashFacts, IdsFit
  <2>2. \A j, k \in 1 .. Len(chain') : chain'[j].id = chain'[k].id => j = k
    <3> SUFFICES ASSUME NEW j \in 1 .. l + 1, NEW k \in 1 .. l + 1, chain'[j].id = chain'[k].id PROVE j = k
      BY <1>1
    <3>1. CASE j \in 1 .. l /\ k \in 1 .. l
      BY <1>0, <1>1, <3>1 DEF CashFacts, IdsFit
    <3>2. CASE j = l + 1 \/ k = l + 1
      BY <1>1, <1>2, <3>2
    <3> QED
      BY <1>1, <3>1, <3>2
  <2>3. \A k \in 1 .. Len(chain') : chain'[k].id = IF chain'[k].kind = "in" THEN chain'[k].receipt ELSE chain'[k].payment
    BY <1>0, <1>1 DEF CashFacts, IdsFit
  <2> QED
    BY <2>1, <2>2, <2>3 DEF IdsFit
<1>4. PaymentsFit'
  BY <1>0, <1>1 DEF CashFacts, PaymentsFit
<1>5. PostedFit(ledger', payment', (cursor # None)') /\ PendingFits'
  BY <1>0 DEF CashFacts, PostedFit, PendingFits
<1>6. sync.at = "open" => MovedBy(sync.to)' = MovedBy(sync.to)
  <2>1. sync.at = "open" => \A k \in 1 .. sync.to : k \in 1 .. l
    BY <1>0 DEF BooksTypes, Books!Idle
  <2> QED
    BY <1>1, <2>1 DEF MovedBy, Books!Moved
<1>7. UnderWay'
  <2>1. (api.at # "idle" => \E k \in 1 .. Len(chain) : chain[k] = api.transfer)'
    BY <1>0, <1>1 DEF CashFacts, UnderWay
  <2>2. sync.at = "record" => sync.next - 1 \in 1 .. l
    BY <1>0 DEF CashFacts, UnderWay
  <2> QED
    BY <1>0, <1>1, <1>6, <2>1, <2>2 DEF CashFacts, UnderWay
<1>8. \A k \in 1 .. l : Unbooked(k)' <=> Unbooked(k)
  BY <1>1 DEF Unbooked, Taken
<1>9. ASSUME (cursor # None)', ~raced', ~drifted' PROVE (\E n \in 0 .. cursor : OpenedAt(n))'
  <2>1. PICK n \in 0 .. cursor : OpenedAt(n)
    BY <1>9 DEF CashInv
  <2>2. cursor \in Nat /\ cursor <= l /\ n \in Nat /\ n <= l /\ n \in 0 .. Len(chain)
    BY <1>0, <1>9, <2>1
  <2>3. Progress(n)'
    <3>1. Progress(n)
      BY <2>1 DEF OpenedAt
    <3>2. ASSUME NEW k \in 1 .. n, Unbooked(k)' PROVE ~(api.at # "idle" /\ api.transfer = chain[k])'
      <4>1. k \in 1 .. l
        BY <2>2
      <4>2. Unbooked(k) /\ chain'[k] = chain[k] /\ chain[k] # t
        BY <1>1, <1>2, <1>8, <3>2, <4>1
      <4> QED
        BY <3>1, <4>2 DEF Progress
    <3>3. \A k \in n + 1 .. cursor : k \in 1 .. l
      BY <2>2
    <3>4. sync.at = "scan" => sync.next \in Nat /\ \A k \in n + 1 .. sync.next - 1 : k \in 1 .. l
      <4>1. sync.at = "scan" => sync.next \in Nat /\ sync.to \in Nat /\ sync.to <= l /\ sync.next - 1 <= sync.to
        BY <1>0 DEF BooksTypes, Books!Idle, CashFacts, UnderWay
      <4> QED
        BY <2>2, <4>1
    <3>5. sync.at = "record" => sync.next \in Nat /\ \A k \in n + 1 .. sync.next - 2 : k \in 1 .. l
      <4>1. sync.at = "record" => sync.next \in Nat /\ sync.to \in Nat /\ sync.to <= l /\ sync.next - 1 <= sync.to
        BY <1>0 DEF BooksTypes, Books!Idle, CashFacts, UnderWay
      <4> QED
        BY <2>2, <4>1
    <3> QED
      BY <1>8, <3>1, <3>2, <3>3, <3>4, <3>5 DEF Progress
  <2>4. KnownSum(Append(chain, t), Taken(inflow), payment, n) = KnownSum(chain, Taken(inflow), payment, n)
    <3>1. t \in InTx => t.receipt \notin Taken(inflow)
      <4> SUFFICES ASSUME t \in InTx, t.receipt \in Taken(inflow) PROVE FALSE
        OBVIOUS
      <4>1. t.id = t.receipt
        BY DEF InTx
      <4> QED
        BY <1>0, <1>2, <4>1 DEF Taken, CashFacts, IdsFit
    <3>2. t \in OutTx => payment[t.payment] # "finalized"
      <4> SUFFICES ASSUME t \in OutTx, payment[t.payment] = "finalized" PROVE FALSE
        OBVIOUS
      <4>1. t.id = t.payment /\ t.payment \in Payment
        BY DEF OutTx
      <4> QED
        BY <1>0, <1>2, <4>1 DEF CashFacts, PaymentsFit
    <3> QED
      BY <1>0, <2>2, <3>1, <3>2, KnownAppend
  <2>5. OpenedAt(n)'
    BY <2>1, <2>3, <2>4 DEF OpenedAt
  <2> QED
    BY <2>1, <2>5
<1> QED
  BY <1>3, <1>4, <1>5, <1>7, <1>9 DEF CashInv, CashFacts

LEMMA CashChain ==
  ASSUME CashInv,
         \/ \E r \in Receipt, amount \in Transferred, ref \in IF evm THEN {None} ELSE Invoice \cup {None} :
              Books!Transfer(r, amount, ref)
         \/ \E p \in Payment, ok \in BOOLEAN : Books!PayOut(p, ok)
         \/ \E v \in Invoice, r \in Receipt : Books!SettleX402(v, r)
  PROVE  CashInv'
<1>0. BooksInv /\ BooksInv' /\ invoice \in [Invoice -> InvoiceRow]
  BY BooksChain DEF CashInv, BooksInv, BooksFit, BooksTyped
<1>1. ASSUME NEW r \in Receipt, NEW amount \in Transferred,
             NEW ref \in IF evm THEN {None} ELSE Invoice \cup {None}, Books!Transfer(r, amount, ref)
      PROVE  CashInv'
  <2> DEFINE t == [kind |-> "in", id |-> r, receipt |-> r, amount |-> amount, ref |-> ref]
  <2>1. t \in InTx /\ t.id = r /\ t.kind = "in" /\ t.receipt = r
    <3>1. amount \in Int /\ ref \in Invoice \cup {None}
      BY TreasuryAssumption
    <3> QED
      BY <3>1 DEF InTx
  <2>2. /\ chain' = Append(chain, t) /\ ~Books!Landed(r)
        /\ UNCHANGED <<cursor, sync, inflow, ledger, payment, raced, drifted, api>>
    BY <1>1 DEF Books!Transfer, Books!Books, Books!Ghosts, Books!SyncState
  <2> HIDE DEF t
  <2> QED
    BY <1>0, <2>1, <2>2, CashLands
<1>2. ASSUME NEW p \in Payment, NEW ok \in BOOLEAN, Books!PayOut(p, ok) PROVE CashInv'
  <2> DEFINE t == [kind |-> "out", id |-> p, payment |-> p, ok |-> ok]
  <2>1. t \in OutTx /\ t.id = p /\ t.kind = "out" /\ t.payment = p
    BY DEF OutTx
  <2>2. /\ chain' = Append(chain, t) /\ ~Books!Landed(p)
        /\ UNCHANGED <<cursor, sync, inflow, ledger, payment, raced, drifted, api>>
    BY <1>2 DEF Books!PayOut, Books!Books, Books!Ghosts, Books!SyncState
  <2> HIDE DEF t
  <2> QED
    BY <1>0, <2>1, <2>2, CashLands
<1>3. ASSUME NEW v \in Invoice, NEW r \in Receipt, Books!SettleX402(v, r) PROVE CashInv'
  <2> DEFINE t == [kind |-> "in", id |-> r, receipt |-> r, amount |-> Subtotal - invoice[v].paid, ref |-> None]
  <2>1. t \in InTx /\ t.id = r /\ t.kind = "in" /\ t.receipt = r
    <3>1. Subtotal - invoice[v].paid \in Int
      <4>1. invoice[v].paid \in Int /\ Subtotal \in Nat
        BY <1>0, TreasuryAssumption DEF InvoiceRow
      <4> QED
        BY <4>1
    <3> QED
      BY <3>1 DEF InTx
  <2>2. /\ chain' = Append(chain, t) /\ ~Books!Landed(r)
        /\ UNCHANGED <<cursor, sync, inflow, ledger, payment, raced, drifted>>
        /\ api' = [at |-> "settled", transfer |-> t, invoice |-> v]
    BY <1>3 DEF Books!SettleX402, Books!Ghosts, Books!SyncState
  <2> HIDE DEF t
  <2>3. api'.transfer = t
    BY <2>2
  <2> QED
    BY <1>0, <2>1, <2>2, <2>3, CashLands
<1> QED
  BY <1>1, <1>2, <1>3

LEMMA CashFinalizes == ASSUME CashInv, Books!Finalize PROVE CashInv'
<1>1. UNCHANGED <<chain, payment, cursor, sync, api, raced, drifted, inflow, ledger>>
  BY DEF Books!Finalize, Books!Books, Books!Ghosts, Books!SyncState
<1>2. BooksInv'
  BY BooksChain DEF CashInv
<1> QED
  BY <1>1, <1>2, CashTables

\* A payment moves on, and the books with it.
LEMMA CashPays ==
  ASSUME CashInv, BooksInv', NEW p \in Payment, NEW state \in PaymentState,
         payment' = [payment EXCEPT ![p] = state],
         UNCHANGED <<chain, cursor, sync, api, inflow, raced, drifted>>,
         PaymentsFit', PostedFit(ledger', payment', cursor # None), PendingFits',
         \A n \in Nat : NetOf(ledger', "cash") + NetOf(ledger', "pending") - KnownSum(chain, Taken(inflow), payment', n)
                        = NetOf(ledger, "cash") + NetOf(ledger, "pending") - KnownSum(chain, Taken(inflow), payment, n)
  PROVE  CashInv'
<1>0. /\ BooksInv /\ CashFacts /\ EntriesOK(ledger) /\ EntriesOK(ledger)' /\ chain \in Seq(InTx \cup OutTx)
  BY DEF CashInv, BooksInv, BooksFit, BooksTyped, BooksTypes
<1>1. IdsFit'
  BY <1>0 DEF CashFacts, IdsFit
<1>2. UnderWay'
  <2>1. MovedBy(sync.to)' = MovedBy(sync.to)
    BY DEF MovedBy, Books!Moved
  <2> QED
    BY <1>0, <2>1 DEF CashFacts, UnderWay
<1>3. ASSUME (cursor # None)', ~raced', ~drifted' PROVE (\E n \in 0 .. cursor : OpenedAt(n))'
  <2>1. PICK n \in 0 .. cursor : OpenedAt(n)
    BY <1>3 DEF CashInv
  <2>2. n \in Nat
    BY <2>1
  <2>3. Progress(n)'
    BY <2>1 DEF OpenedAt, Progress, Unbooked, Taken
  <2>4. EntriesOK(ledger')
    BY <1>0 DEF EntriesOK
  <2>5. /\ NetOf(ledger, "cash") \in Int /\ NetOf(ledger, "pending") \in Int
        /\ NetOf(ledger', "cash") \in Int /\ NetOf(ledger', "pending") \in Int
    BY <1>0, <2>4, NetType
  <2>6. /\ KnownSum(chain, Taken(inflow), payment, n) \in Int
        /\ KnownSum(chain, Taken(inflow), payment', n) \in Int
    BY <1>0, <2>2, KnownType
  <2>7. NetOf(ledger, "cash") + NetOf(ledger, "pending") = KnownSum(chain, Taken(inflow), payment, n)
    BY <2>1 DEF OpenedAt
  <2>8. NetOf(ledger', "cash") + NetOf(ledger', "pending") = KnownSum(chain, Taken(inflow), payment', n)
    <3> DEFINE a == NetOf(ledger', "cash")
    <3> DEFINE b == NetOf(ledger', "pending")
    <3> DEFINE c == KnownSum(chain, Taken(inflow), payment', n)
    <3> DEFINE x == NetOf(ledger, "cash")
    <3> DEFINE y == NetOf(ledger, "pending")
    <3> DEFINE z == KnownSum(chain, Taken(inflow), payment, n)
    <3>1. a + b - c = x + y - z
      BY <2>2
    <3>2. a \in Int /\ b \in Int /\ c \in Int /\ x \in Int /\ y \in Int /\ z \in Int /\ x + y = z
      BY <2>5, <2>6, <2>7
    <3> HIDE DEF a, b, c, x, y, z
    <3>3. a + b = c
      BY <3>1, <3>2
    <3> QED
      BY <3>3 DEF a, b, c
  <2>9. OpenedAt(n)'
    BY <2>3, <2>8 DEF OpenedAt
  <2> QED
    BY <2>1, <2>9
<1> QED
  BY <1>1, <1>2, <1>3 DEF CashInv, CashFacts

LEMMA SubmittedType ==
  ASSUME NEW payments
  PROVE  IsFiniteSet(Submitted(payments)) /\ Cardinality(Submitted(payments)) \in Nat
<1>1. Submitted(payments) \subseteq Payment
  BY DEF Submitted
<1> QED
  BY <1>1, FS_Subset, FS_CardinalityType, TreasuryAssumption

LEMMA CashSubmits == ASSUME CashInv, NEW p \in Payment, Books!MarkSubmitted(p) PROVE CashInv'
<1>0. /\ BooksInv /\ CashFacts /\ EntriesOK(ledger) /\ payment \in [Payment -> PaymentState]
      /\ chain \in Seq(InTx \cup OutTx)
  BY DEF CashInv, BooksInv, BooksFit, BooksTyped, BooksTypes, CashFacts, PaymentsFit
<1> DEFINE ref == <<"submitted", p>>
<1>1. /\ payment[p] = "executing" /\ payment' = [payment EXCEPT ![p] = "submitted"]
      /\ ledger' = Books!Post(ledger, ref, "pending", "cash", 1)
      /\ UNCHANGED <<chain, cursor, sync, api, inflow, raced, drifted>>
  BY DEF Books!MarkSubmitted, Books!Books, Books!Ghosts, Books!SyncState
<1>2. BooksInv'
  BY <1>0, BooksPayments
<1>3. ref[1] = "submitted" /\ ref[2] = p
  OBVIOUS
<1> HIDE DEF ref
<1>4. \A e \in ledger : e.ref # ref
  BY <1>0, <1>1, <1>3 DEF CashFacts, PostedFit
<1>5. /\ NetOf(ledger', "pending") = NetOf(ledger, "pending") + 1
      /\ NetOf(ledger', "cash") = NetOf(ledger, "cash") - 1
      /\ NetOf(ledger, "cash") \in Int /\ NetOf(ledger, "pending") \in Int
  BY <1>0, <1>1, <1>4, PostNew, NetType
<1>6. \A q \in Payment : payment'[q] = IF q = p THEN "submitted" ELSE payment[q]
  BY <1>0, <1>1
<1>7. PaymentsFit'
  <2>1. payment' \in [Payment -> PaymentState]
    BY <1>0, <1>1 DEF PaymentState
  <2> QED
    BY <1>0, <1>1, <1>6, <2>1 DEF CashFacts, PaymentsFit
<1>8. PostedFit(ledger', payment', cursor # None)
  <2>1. \A e \in ledger' : e \in ledger \/ e.ref = ref
    BY <1>1, PostRefs
  <2> QED
    BY <1>0, <1>1, <1>3, <1>6, <2>1 DEF CashFacts, PostedFit
<1>9. PendingFits'
  <2>1. Submitted(payment') = Submitted(payment) \cup {p} /\ p \notin Submitted(payment)
    BY <1>1, <1>6 DEF Submitted
  <2>2. Cardinality(Submitted(payment) \cup {p}) = Cardinality(Submitted(payment)) + 1
    BY <2>1, SubmittedType, FS_AddElement
  <2>3. NetOf(ledger, "pending") = Cardinality(Submitted(payment))
    BY <1>0 DEF CashFacts, PendingFits
  <2>4. Cardinality(Submitted(payment')) = Cardinality(Submitted(payment)) + 1
    BY <2>1, <2>2, Zenon
  <2> QED
    BY <1>5, <2>3, <2>4 DEF PendingFits
<1>10. ASSUME NEW n \in Nat
       PROVE  NetOf(ledger', "cash") + NetOf(ledger', "pending") - KnownSum(chain, Taken(inflow), payment', n)
              = NetOf(ledger, "cash") + NetOf(ledger, "pending") - KnownSum(chain, Taken(inflow), payment, n)
  <2>1. KnownSum(chain, Taken(inflow), [payment EXCEPT ![p] = "submitted"], n) = KnownSum(chain, Taken(inflow), payment, n)
    <3>1. n \in Int /\ "submitted" \in PaymentState /\ payment[p] # "finalized" /\ "submitted" # "finalized"
      BY <1>1 DEF PaymentState
    <3> QED
      BY <1>0, <3>1, KnownStays
  <2>2. KnownSum(chain, Taken(inflow), payment, n) \in Int
    BY <1>0, KnownType
  <2> QED
    BY <1>1, <1>5, <2>1, <2>2
<1>11. "submitted" \in PaymentState
  BY DEF PaymentState
<1> QED
  BY <1>1, <1>2, <1>7, <1>8, <1>9, <1>10, <1>11, CashPays

LEMMA CashConfirms == ASSUME CashInv, NEW p \in Payment, Books!Confirm(p) PROVE CashInv'
<1>0. /\ BooksInv /\ CashFacts /\ EntriesOK(ledger) /\ payment \in [Payment -> PaymentState]
      /\ chain \in Seq(InTx \cup OutTx) /\ safe \in Nat /\ safe <= Len(chain)
  BY DEF CashInv, BooksInv, BooksFit, BooksTyped, BooksTypes, CashFacts, PaymentsFit
<1> DEFINE good == <<"finalized", p>>
<1> DEFINE bad == <<"reversal", p>>
<1>1. /\ payment[p] = "submitted"
      /\ UNCHANGED <<chain, cursor, sync, api, inflow, raced, drifted>>
  BY DEF Books!Confirm, Books!Books, Books!Ghosts, Books!SyncState
<1>2. PICK k \in 1 .. safe :
        /\ chain[k].id = p
        /\ payment' = [payment EXCEPT ![p] = IF chain[k].ok THEN "finalized" ELSE "failed"]
        /\ ledger' = IF chain[k].ok THEN Books!Post(ledger, good, "expense", "pending", 1)
                     ELSE Books!Post(ledger, bad, "cash", "pending", 1)
  BY DEF Books!Confirm
<1>3. BooksInv'
  BY <1>0, BooksPayments
<1>4. k \in 1 .. Len(chain) /\ chain[k] \in OutTx /\ chain[k].payment = p /\ chain[k].ok \in BOOLEAN
  <2>1. k \in 1 .. Len(chain)
    BY <1>0
  <2>2. chain[k] \in InTx \cup OutTx
    BY <1>0, <2>1
  <2>3. chain[k] \notin InTx
    BY <1>2, TreasuryAssumption DEF InTx
  <2>4. chain[k].payment = p
    BY <1>0, <1>2, <2>1, <2>2, <2>3 DEF OutTx, CashFacts, IdsFit
  <2> QED
    BY <2>1, <2>2, <2>3, <2>4 DEF OutTx
<1>5. good[1] = "finalized" /\ good[2] = p /\ bad[1] = "reversal" /\ bad[2] = p
  OBVIOUS
<1> HIDE DEF good, bad
<1>6. \A e \in ledger : e.ref # good /\ e.ref # bad
  BY <1>0, <1>1, <1>5 DEF CashFacts, PostedFit
<1> DEFINE state == IF chain[k].ok THEN "finalized" ELSE "failed"
<1>7. /\ state \in PaymentState /\ payment' = [payment EXCEPT ![p] = state]
      /\ state \in {"finalized", "failed"} /\ chain[k].ok = (state = "finalized")
  BY <1>2, <1>4 DEF PaymentState
<1>8. /\ NetOf(ledger', "pending") = NetOf(ledger, "pending") - 1
      /\ NetOf(ledger', "cash") = NetOf(ledger, "cash") + IF state = "finalized" THEN 0 ELSE 1
      /\ NetOf(ledger, "cash") \in Int /\ NetOf(ledger, "pending") \in Int
  <2>1. NetOf(ledger, "cash") \in Int /\ NetOf(ledger, "pending") \in Int
    BY <1>0, NetType
  <2>2. CASE chain[k].ok
    <3>1. ledger' = Books!Post(ledger, good, "expense", "pending", 1) /\ state = "finalized"
      BY <1>2, <2>2
    <3>2. NetOf(ledger', "pending") = NetOf(ledger, "pending") - 1 /\ NetOf(ledger', "cash") = NetOf(ledger, "cash")
      BY <1>0, <1>6, <3>1, PostNew
    <3> QED
      BY <2>1, <3>1, <3>2
  <2>3. CASE ~chain[k].ok
    <3>1. ledger' = Books!Post(ledger, bad, "cash", "pending", 1) /\ state # "finalized"
      BY <1>2, <2>3
    <3>2. NetOf(ledger', "pending") = NetOf(ledger, "pending") - 1 /\ NetOf(ledger', "cash") = NetOf(ledger, "cash") + 1
      BY <1>0, <1>6, <3>1, PostNew
    <3> QED
      BY <2>1, <3>1, <3>2
  <2> QED
    BY <2>2, <2>3
<1>9. \A e \in ledger' : e \in ledger \/ e.ref \in {good, bad}
  BY <1>2, PostRefs
<1> HIDE DEF state
<1>10. \A q \in Payment : payment'[q] = IF q = p THEN state ELSE payment[q]
  BY <1>0, <1>7
<1>11. PaymentsFit'
  <2>1. payment' \in [Payment -> PaymentState]
    BY <1>0, <1>7
  <2>2. ASSUME NEW q \in Payment, payment'[q] \in {"finalized", "failed"}
        PROVE  \E j \in 1 .. Len(chain) : chain[j].id = q /\ chain[j].ok = (payment'[q] = "finalized")
    <3>1. CASE q = p
      BY <1>2, <1>4, <1>7, <1>10, <3>1
    <3>2. CASE q # p
      BY <1>0, <1>10, <2>2, <3>2 DEF CashFacts, PaymentsFit
    <3> QED
      BY <3>1, <3>2
  <2> QED
    BY <1>1, <2>1, <2>2 DEF PaymentsFit
<1>12. PostedFit(ledger', payment', cursor # None)
  <2> SUFFICES ASSUME NEW e \in ledger' PROVE PostedFit({e}, payment', cursor # None)
    BY DEF PostedFit
  <2>1. CASE e \in ledger
    BY <1>0, <1>7, <1>10, <2>1 DEF CashFacts, PostedFit
  <2>2. CASE e.ref \in {good, bad}
    BY <1>5, <1>7, <1>10, <2>2 DEF PostedFit
  <2> QED
    BY <1>9, <2>1, <2>2
<1>13. PendingFits'
  <2>1. Submitted(payment') = Submitted(payment) \ {p} /\ p \in Submitted(payment)
    BY <1>1, <1>7, <1>10 DEF Submitted
  <2>2. Cardinality(Submitted(payment) \ {p}) = Cardinality(Submitted(payment)) - 1
    BY <2>1, SubmittedType, FS_RemoveElement
  <2>3. NetOf(ledger, "pending") = Cardinality(Submitted(payment))
    BY <1>0 DEF CashFacts, PendingFits
  <2>4. Cardinality(Submitted(payment')) = Cardinality(Submitted(payment)) - 1
    BY <2>1, <2>2, Zenon
  <2> QED
    BY <1>8, <2>3, <2>4 DEF PendingFits
<1>14. ASSUME NEW n \in Nat
       PROVE  NetOf(ledger', "cash") + NetOf(ledger', "pending") - KnownSum(chain, Taken(inflow), payment', n)
              = NetOf(ledger, "cash") + NetOf(ledger, "pending") - KnownSum(chain, Taken(inflow), payment, n)
  <2>1. KnownSum(chain, Taken(inflow), payment, n) \in Int /\ n \in Int /\ payment[p] # "finalized"
    BY <1>0, <1>1, KnownType
  <2>2. CASE state = "finalized"
    <3>1. \A j \in 1 .. Len(chain) : chain[j] \in OutTx /\ chain[j].payment = p => j = k
      <4> SUFFICES ASSUME NEW j \in 1 .. Len(chain), chain[j] \in OutTx, chain[j].payment = p PROVE j = k
        OBVIOUS
      <4>1. chain[j].id = p
        BY <1>0 DEF CashFacts, IdsFit, OutTx
      <4> QED
        BY <1>0, <1>2, <1>4, <4>1 DEF CashFacts, IdsFit
    <3>2. chain[k].ok = TRUE
      BY <1>4, <1>7, <2>2
    <3>3. KnownSum(chain, Taken(inflow), [payment EXCEPT ![p] = "finalized"], n)
            = KnownSum(chain, Taken(inflow), payment, n) - 1
      <4>1. /\ chain \in Seq(InTx \cup OutTx) /\ payment \in [Payment -> PaymentState] /\ p \in Payment
            /\ k \in 1 .. Len(chain) /\ chain[k] \in OutTx /\ chain[k].payment = p
        BY <1>0, <1>4 DEF CashFacts
      <4> QED
        BY ONLY <2>1, <3>1, <3>2, <4>1, KnownPays, ZenonT(40)
    <3>4. payment' = [payment EXCEPT ![p] = "finalized"]
      BY <1>7, <2>2
    <3> QED
      BY <1>8, <2>1, <2>2, <3>3, <3>4
  <2>3. CASE state # "finalized"
    <3>1. KnownSum(chain, Taken(inflow), [payment EXCEPT ![p] = state], n) = KnownSum(chain, Taken(inflow), payment, n)
      BY <1>0, <1>7, <2>1, <2>3, KnownStays
    <3> QED
      BY <1>7, <1>8, <2>1, <2>3, <3>1
  <2> QED
    BY <2>2, <2>3
<1> QED
  BY <1>1, <1>3, <1>7, <1>11, <1>12, <1>13, <1>14, CashPays

\* The opening balance is what the first transactions moved.
LEMMA KnownOpens ==
  ASSUME BooksTypes, NEW n \in 0 .. Len(chain), Books!BooksEndAt(n)
  PROVE  KnownSum(chain, Taken(inflow), payment, n) = SumOver(MovedBy(n), 1 .. n)
<1> DEFINE S == 1 .. Len(chain)
<1> DEFINE T == 1 .. n
<1> DEFINE w == Known(chain, Taken(inflow), payment, n)
<1> DEFINE u == MovedBy(n)
<1>0. chain \in Seq(InTx \cup OutTx) /\ Len(chain) \in Nat /\ n \in Nat /\ n \in Int
  BY DEF BooksTypes
<1>1. IsFiniteSet(S) /\ \A k \in S : w[k] \in Int
  BY <1>0, KnownType
<1>2. T \subseteq S /\ IsFiniteSet(T)
  BY <1>0, FS_Interval
<1>3. DOMAIN chain = S
  BY <1>0
<1>4. ASSUME NEW k \in S PROVE w[k] = IF k \in T THEN u[k] ELSE 0
  <2>1. chain[k] \in InTx \cup OutTx
    BY <1>0
  <2>2. k \in T <=> k <= n
    BY <1>0
  <2>3. /\ chain[k].kind = "in" /\ k > n => chain[k].receipt \notin Taken(inflow)
        /\ chain[k].kind # "in" /\ chain[k].ok => (k <= n <=> payment[chain[k].payment] = "finalized")
    BY <1>3 DEF Books!BooksEndAt, Books!Rows, Taken
  <2>4. k \in T => u[k] = Books!Moved(chain[k])
    BY DEF MovedBy
  <2>5. w[k] = IF chain[k].kind = "in" THEN IF k > n /\ chain[k].receipt \notin Taken(inflow) THEN 0 ELSE chain[k].amount
               ELSE IF chain[k].ok /\ payment[chain[k].payment] = "finalized" THEN -1 ELSE 0
    BY DEF Known
  <2>6. k > n <=> ~(k <= n)
    BY <1>0
  <2> HIDE DEF w, u, T
  <2> QED
    BY <2>1, <2>2, <2>3, <2>4, <2>5, <2>6 DEF Books!Moved, InTx, OutTx
<1> HIDE DEF S, T, w, u
<1>5. SumOver(w, S) = SumOver(w, T)
  BY <1>1, <1>2, <1>4, SumLeavesZeros
<1>6. SumOver(w, T) = SumOver(u, T)
  BY <1>2, <1>4, SumSame
<1> QED
  BY <1>5, <1>6 DEF KnownSum, S, T, w, u

LEMMA CashOpens == ASSUME CashInv, Books!OpenCursor PROVE CashInv'
<1>0. /\ BooksInv /\ CashFacts /\ BooksTypes /\ safe \in Nat /\ safe <= Len(chain) /\ EntriesOK(ledger)
      /\ None \notin Nat
  BY TreasuryAssumption DEF CashInv, BooksInv, BooksTypes, BooksFit, BooksTyped
<1> DEFINE opening == sync.balance - Books!Booked
<1> DEFINE ref == <<"opening">>
<1>1. /\ sync.at = "open" /\ cursor' = sync.to /\ sync'.at = "idle" /\ drifted' = ~Books!BooksEndAt(sync.to)
      /\ ledger' = IF opening = 0 THEN ledger ELSE Books!Post(ledger, ref, "cash", "opening", opening)
      /\ UNCHANGED <<inflow, raced, chain, api, payment>>
  BY DEF Books!OpenCursor, Books!Idle
<1>2. sync.balance \in Int /\ sync.to \in 0 .. Len(chain) /\ sync.to \in Nat
  BY <1>0, <1>1 DEF BooksTypes, Books!Idle
<1>3. cursor = None /\ sync.balance = SumOver(MovedBy(sync.to), 1 .. sync.to)
  BY <1>0, <1>1 DEF CashFacts, UnderWay
<1>4. /\ NetOf(ledger, "cash") \in Int /\ NetOf(ledger, "pending") \in Int
      /\ opening = sync.balance - (NetOf(ledger, "cash") + NetOf(ledger, "pending")) /\ opening \in Int
  <2>1. NetOf(ledger, "cash") \in Int /\ NetOf(ledger, "pending") \in Int
    BY <1>0, NetType
  <2>2. opening = sync.balance - (NetOf(ledger, "cash") + NetOf(ledger, "pending"))
    BY <1>0, NetIs DEF Books!Booked
  <2> HIDE DEF opening
  <2> QED
    BY <1>2, <2>1, <2>2
<1>5. ref[1] = "opening"
  OBVIOUS
<1> HIDE DEF opening, ref
<1>6. \A e \in ledger : e.ref # ref
  BY <1>0, <1>3, <1>5 DEF CashFacts, PostedFit
<1>7. /\ NetOf(ledger', "cash") = NetOf(ledger, "cash") + opening
      /\ NetOf(ledger', "pending") = NetOf(ledger, "pending")
  <2>1. CASE opening = 0
    BY <1>1, <1>4, <2>1
  <2>2. CASE opening # 0
    BY <1>0, <1>1, <1>4, <1>6, <2>2, PostNew
  <2> QED
    BY <2>1, <2>2
<1>8. \A e \in ledger' : e \in ledger \/ e.ref = ref
  BY <1>1, PostRefs
<1>9. IdsFit' /\ PaymentsFit'
  BY <1>0, <1>1 DEF CashFacts, IdsFit, PaymentsFit
<1>10. PendingFits'
  BY <1>0, <1>1, <1>7 DEF CashFacts, PendingFits
<1>11. cursor' # None
  BY <1>0, <1>1, <1>2
<1>12. PostedFit(ledger', payment', (cursor # None)')
  BY <1>0, <1>1, <1>5, <1>8, <1>11 DEF CashFacts, PostedFit
<1>13. UnderWay'
  BY <1>0, <1>1 DEF CashFacts, UnderWay
<1>14. ASSUME ~drifted' PROVE (\E n \in 0 .. cursor : OpenedAt(n))'
  <2> PICK n : n = sync.to
    OBVIOUS
  <2>0. n \in 0 .. cursor' /\ n \in Nat /\ n = cursor' /\ n \in 0 .. Len(chain)
    BY <1>1, <1>2
  <2>1. Books!BooksEndAt(n)
    BY <1>1, <1>14
  <2>2. KnownSum(chain, Taken(inflow), payment, n) = sync.balance
    BY <1>0, <1>3, <2>0, <2>1, KnownOpens
  <2>3. ASSUME NEW k \in 1 .. n, Unbooked(k) PROVE ~(api.at # "idle" /\ api.transfer = chain[k])
    <3>1. k \in DOMAIN chain
      BY <1>0, <1>2 DEF BooksTypes
    <3>2. Books!Rows(chain[k].receipt) = {} /\ chain[k].kind = "in" /\ ~(k > n)
      BY <2>0, <2>3 DEF Unbooked, Taken, Books!Rows
    <3>3. api = Books!Idle \/ api.transfer # chain[k]
      BY <2>1, <3>1, <3>2 DEF Books!BooksEndAt
    <3> QED
      BY <3>3 DEF Books!Idle
  <2>4. \A k : Unbooked(k)' <=> Unbooked(k)
    BY <1>1 DEF Unbooked, Taken
  <2>5. \A k \in n + 1 .. n : FALSE
    BY <2>0
  <2>6. Progress(n)'
    BY <1>1, <2>0, <2>3, <2>4, <2>5 DEF Progress
  <2>7. NetOf(ledger', "cash") + NetOf(ledger', "pending") = KnownSum(chain, Taken(inflow), payment, n)
    BY <1>2, <1>4, <1>7, <2>2
  <2>8. OpenedAt(n)'
    BY <1>1, <2>6, <2>7 DEF OpenedAt
  <2> QED
    BY <2>0, <2>8
<1>15. BooksInv'
  BY <1>0, BooksOpen
<1> QED
  BY <1>9, <1>10, <1>12, <1>13, <1>14, <1>15 DEF CashInv, CashFacts

LEMMA CashInit == Books!Init => CashInv
<1> SUFFICES ASSUME Books!Init PROVE CashInv
  OBVIOUS
<1>1. /\ chain = <<>> /\ inflow = {} /\ ledger = {} /\ cursor = None /\ sync.at = "idle" /\ api.at = "idle"
      /\ payment = [p \in Payment |-> "executing"]
  BY DEF Books!Init, Books!Idle
<1>2. IdsFit
  BY <1>1 DEF IdsFit
<1>3. PaymentsFit
  BY <1>1 DEF PaymentsFit, PaymentState
<1>4. PendingFits
  <2>1. Submitted(payment) = {}
    BY <1>1 DEF Submitted
  <2>2. Cardinality(Submitted(payment)) = 0
    BY <2>1, FS_EmptySet, Zenon
  <2>3. {e \in ledger : e.code = "pending"} = {}
    BY <1>1
  <2>4. NetOf(ledger, "pending") = 0
    BY <2>3, AmountOfNone, Zenon DEF NetOf
  <2> QED
    BY <2>2, <2>4 DEF PendingFits
<1>5. PostedFit(ledger, payment, cursor # None) /\ UnderWay
  BY <1>1 DEF PostedFit, UnderWay
<1> QED
  BY <1>1, <1>2, <1>3, <1>4, <1>5, BooksInit DEF CashInv, CashFacts

LEMMA CashStep == CashInv /\ [Books!Next]_(Books!vars) => CashInv'
<1> SUFFICES ASSUME CashInv, [Books!Next]_(Books!vars) PROVE CashInv'
  OBVIOUS
<1>1. CASE UNCHANGED Books!vars
  <2>1. UNCHANGED <<chain, payment, cursor, sync, api, raced, drifted, inflow, ledger>>
    BY <1>1 DEF Books!vars
  <2>2. BooksInv'
    BY BooksStep DEF CashInv
  <2> QED
    BY <2>1, <2>2, CashTables
<1>2. ASSUME NEW v \in Invoice, Books!CreateInvoice(v) \/ Books!IssueInvoice(v) \/ Books!VoidInvoice(v)
      PROVE  CashInv'
  BY <1>2, CashInvoices
<1>3. ASSUME NEW v \in Invoice, NEW f \in inflow, Books!AllocateByHand(f, v) PROVE CashInv'
  BY <1>3, CashByHand
<1>4. ASSUME NEW v \in Invoice, NEW r \in Receipt, Books!SettleX402(v, r) PROVE CashInv'
  BY <1>4, CashChain
<1>5. ASSUME NEW p \in Payment, Books!MarkSubmitted(p) PROVE CashInv'
  BY <1>5, CashSubmits
<1>6. ASSUME NEW p \in Payment, Books!Confirm(p) PROVE CashInv'
  BY <1>6, CashConfirms
<1>7. ASSUME NEW p \in Payment, NEW ok \in BOOLEAN, Books!PayOut(p, ok) PROVE CashInv'
  BY <1>7, CashChain
<1>8. ASSUME NEW r \in Receipt, NEW amount \in Transferred,
             NEW ref \in IF evm THEN {None} ELSE Invoice \cup {None}, Books!Transfer(r, amount, ref)
      PROVE  CashInv'
  BY <1>8, CashChain
<1>9. CASE Books!BeginSync \/ Books!ScanNext \/ Books!AdvanceCursor \/ Books!AbandonSync
  BY <1>9, CashScans
<1>10. CASE Books!ReadX402 \/ Books!WriteX402 \/ Books!AbandonX402
  BY <1>10, CashX402
<1> QED
  BY <1>1, <1>2, <1>3, <1>4, <1>5, <1>6, <1>7, <1>8, <1>9, <1>10, CashFinalizes, CashRecords, CashOpens
    DEF Books!Next

-----------------------------------------------------------------------------
\* The sum over transactions of the library.
LEMMA TransfersAddUp ==
  ASSUME NEW S, IsFiniteSet(S)
  PROVE  Books!MapThenSumSet(LAMBDA k : chain[k].amount, S) = SumOver([k \in S |-> chain[k].amount], S)
<1> DEFINE w == [k \in S |-> chain[k].amount]
<1> DEFINE P(f) == f = [s \in SUBSET S |-> IF s = {} THEN 0 ELSE chain[Pick(s)].amount + f[s \ {Pick(s)}]]
<1> DEFINE g == CHOOSE f : P(f)
<1>1. Books!MapThenSumSet(LAMBDA k : chain[k].amount, S) = g[S]
  BY DEF Books!MapThenSumSet, Books!MapThenFoldSet, Pick
<1>2. ASSUME NEW f PROVE P(f) <=> Adds(f, w, S)
  <2> DEFINE a == [s \in SUBSET S |-> IF s = {} THEN 0 ELSE chain[Pick(s)].amount + f[s \ {Pick(s)}]]
  <2> DEFINE b == [s \in SUBSET S |-> IF s = {} THEN 0 ELSE w[Pick(s)] + f[s \ {Pick(s)}]]
  <2>1. ASSUME NEW s \in SUBSET S PROVE a[s] = b[s]
    <3>1. CASE s = {}
      BY <3>1
    <3>2. CASE s # {}
      <4>1. Pick(s) \in S
        BY <3>2, PickIsIn
      <4>2. w[Pick(s)] = chain[Pick(s)].amount
        BY <4>1
      <4> HIDE DEF w
      <4> QED
        BY <4>2
    <3> QED
      BY <3>1, <3>2
  <2>2. a = b
    BY <2>1
  <2> QED
    BY <2>2 DEF Adds
<1> HIDE DEF w, P
<1>3. \E f : P(f)
  BY <1>2, AddsExists
<1>4. P(g)
  BY <1>3
<1> HIDE DEF g
<1>5. Adds(g, w, S)
  BY <1>2, <1>4
<1> DEFINE h == CHOOSE f : Adds(f, w, S)
<1>6. Adds(h, w, S)
  BY AddsExists
<1> HIDE DEF h
<1>7. g[S] = h[S]
  BY <1>5, <1>6, AddsAgree
<1> QED
  BY <1>1, <1>7 DEF SumOver, h, w

(***************************************************************************)
(* What the books know is what the chain moved, less the receipts that are  *)
(* not booked and the payments under way.                                   *)
(***************************************************************************)
OutAt(k) == chain[k].kind = "out" /\ chain[k].ok
Missing == {k \in cursor + 1 .. Len(chain) : chain[k].kind = "in" /\ Books!Rows(chain[k].receipt) = {}}
Out(state) == {k \in 1 .. Len(chain) : OutAt(k) /\ payment[chain[k].payment] = state}

\* What the books know and what they miss of a transaction is what it moved and
\* what of it is under way.
LEMMA KnownIsMoved ==
  ASSUME CashInv, cursor # None, NEW n \in 0 .. cursor, Progress(n), NEW k \in 1 .. Len(chain)
  PROVE  /\ Known(chain, Taken(inflow), payment, n)[k] \in Int /\ Books!Moved(chain[k]) \in Int
         /\ k \in Missing => chain[k].amount \in Int
         /\ Known(chain, Taken(inflow), payment, n)[k] + (IF k \in Missing THEN chain[k].amount ELSE 0)
              = Books!Moved(chain[k])
                + ((IF k \in Out("executing") THEN 1 ELSE 0) + (IF k \in Out("submitted") THEN 1 ELSE 0))
<1> DEFINE w == Known(chain, Taken(inflow), payment, n)[k]
<1>0. /\ chain \in Seq(InTx \cup OutTx) /\ Len(chain) \in Nat /\ cursor \in Nat /\ n \in Nat /\ k \in Nat
      /\ chain[k] \in InTx \cup OutTx
  BY DEF CashInv, BooksInv, BooksTypes
<1>1. w = IF chain[k].kind = "in" THEN IF k > n /\ chain[k].receipt \notin Taken(inflow) THEN 0 ELSE chain[k].amount
          ELSE IF chain[k].ok /\ payment[chain[k].payment] = "finalized" THEN -1 ELSE 0
  BY DEF Known
<1> HIDE DEF w
<1>2. CASE chain[k] \in InTx
  <2>1. chain[k].kind = "in" /\ chain[k].amount \in Int
    BY <1>2 DEF InTx
  <2>2. Books!Rows(chain[k].receipt) = {} <=> chain[k].receipt \notin Taken(inflow)
    BY DEF Books!Rows, Taken
  <2>3. k \in Missing <=> k > cursor /\ chain[k].receipt \notin Taken(inflow)
    BY <1>0, <2>1, <2>2 DEF Missing
  <2>4. k \in n + 1 .. cursor => chain[k].receipt \in Taken(inflow)
    BY <2>1 DEF Progress, Unbooked
  <2>5. (k > n /\ chain[k].receipt \notin Taken(inflow)) <=> k \in Missing
    BY <1>0, <2>3, <2>4
  <2>6. k \notin Out("executing") /\ k \notin Out("submitted")
    BY <2>1 DEF Out, OutAt
  <2>7. Books!Moved(chain[k]) = chain[k].amount
    BY <2>1 DEF Books!Moved
  <2>8. w = IF k \in Missing THEN 0 ELSE chain[k].amount
    BY <1>1, <2>1, <2>5
  <2> QED
    BY <2>1, <2>6, <2>7, <2>8 DEF w
<1>3. CASE chain[k] \in OutTx
  <2>1. chain[k].kind = "out" /\ chain[k].payment \in Payment /\ chain[k].ok \in BOOLEAN
    BY <1>3 DEF OutTx
  <2>2. k \notin Missing
    BY <2>1 DEF Missing
  <2>3. payment[chain[k].payment] \in PaymentState
    BY <2>1 DEF CashInv, CashFacts, PaymentsFit
  <2>4. chain[k].ok => payment[chain[k].payment] # "failed"
    <3> SUFFICES ASSUME chain[k].ok, payment[chain[k].payment] = "failed" PROVE FALSE
      OBVIOUS
    <3>1. PICK j \in 1 .. Len(chain) : chain[j].id = chain[k].payment
                                       /\ chain[j].ok = (payment[chain[k].payment] = "finalized")
      BY <2>1 DEF CashInv, CashFacts, PaymentsFit
    <3>2. chain[k].id = chain[k].payment
      BY <2>1 DEF CashInv, CashFacts, IdsFit
    <3>3. j = k
      BY <3>1, <3>2 DEF CashInv, CashFacts, IdsFit
    <3> QED
      BY <3>1, <3>3
  <2>5. w = IF chain[k].ok /\ payment[chain[k].payment] = "finalized" THEN -1 ELSE 0
    BY <1>1, <2>1
  <2>6. Books!Moved(chain[k]) = IF chain[k].ok THEN -1 ELSE 0
    BY <2>1 DEF Books!Moved
  <2>7. \A state : k \in Out(state) <=> chain[k].ok /\ payment[chain[k].payment] = state
    BY <2>1 DEF Out, OutAt
  <2>8. w \in Int /\ Books!Moved(chain[k]) \in Int
    BY <2>5, <2>6
  <2>9. w = Books!Moved(chain[k]) + ((IF k \in Out("executing") THEN 1 ELSE 0) + (IF k \in Out("submitted") THEN 1 ELSE 0))
    BY <2>1, <2>3, <2>4, <2>5, <2>6, <2>7 DEF PaymentState
  <2>10. w + 0 = w
    BY <2>8
  <2> QED
    BY <2>2, <2>8, <2>9, <2>10 DEF w
<1> QED
  BY <1>0, <1>2, <1>3

\* So it is of all of them.
LEMMA KnownAddsUp ==
  ASSUME CashInv, cursor # None, NEW n \in 0 .. cursor, Progress(n)
  PROVE  /\ KnownSum(chain, Taken(inflow), payment, n) \in Int
         /\ SumOver(MovedBy(Len(chain)), 1 .. Len(chain)) \in Int
         /\ SumOver([k \in Missing |-> chain[k].amount], Missing) \in Int
         /\ IsFiniteSet(Missing)
         /\ \A state : IsFiniteSet(Out(state)) /\ Cardinality(Out(state)) \in Nat
         /\ KnownSum(chain, Taken(inflow), payment, n) + SumOver([k \in Missing |-> chain[k].amount], Missing)
              = SumOver(MovedBy(Len(chain)), 1 .. Len(chain))
                + (Cardinality(Out("executing")) + Cardinality(Out("submitted")))
<1> DEFINE S == 1 .. Len(chain)
<1> DEFINE w == Known(chain, Taken(inflow), payment, n)
<1> DEFINE m == MovedBy(Len(chain))
<1> DEFINE a == [k \in S |-> IF k \in Missing THEN chain[k].amount ELSE 0]
<1> DEFINE r == [k \in Missing |-> chain[k].amount]
<1> DEFINE b1 == [k \in S |-> IF k \in Out("executing") THEN 1 ELSE 0]
<1> DEFINE b2 == [k \in S |-> IF k \in Out("submitted") THEN 1 ELSE 0]
<1> DEFINE b == [k \in S |-> b1[k] + b2[k]]
<1> DEFINE u == [k \in S |-> w[k] + a[k]]
<1>0. chain \in Seq(InTx \cup OutTx) /\ Len(chain) \in Nat /\ cursor \in Nat /\ n \in Nat
  BY DEF CashInv, BooksInv, BooksTypes
<1>1. IsFiniteSet(S)
  BY <1>0, FS_Interval
<1>2. Missing \in SUBSET S /\ \A state : Out(state) \in SUBSET S
  BY <1>0 DEF Missing, Out
<1>3. IsFiniteSet(Missing) /\ \A state : IsFiniteSet(Out(state)) /\ Cardinality(Out(state)) \in Nat
  BY <1>1, <1>2, FS_Subset, FS_CardinalityType
<1>4. \A k \in S :
        /\ w[k] \in Int /\ m[k] \in Int /\ a[k] \in Int /\ b1[k] \in Int /\ b2[k] \in Int
        /\ b[k] = b1[k] + b2[k] /\ u[k] = w[k] + a[k] /\ u[k] = m[k] + b[k]
        /\ k \in Missing => r[k] = a[k]
        /\ k \notin Missing => a[k] = 0
        /\ b1[k] = IF k \in Out("executing") THEN 1 ELSE 0
        /\ b2[k] = IF k \in Out("submitted") THEN 1 ELSE 0
  <2> SUFFICES ASSUME NEW k \in S
               PROVE  /\ w[k] \in Int /\ m[k] \in Int /\ a[k] \in Int /\ b1[k] \in Int /\ b2[k] \in Int
                      /\ b[k] = b1[k] + b2[k] /\ u[k] = w[k] + a[k] /\ u[k] = m[k] + b[k]
                      /\ k \in Missing => r[k] = a[k]
                      /\ k \notin Missing => a[k] = 0
                      /\ b1[k] = IF k \in Out("executing") THEN 1 ELSE 0
                      /\ b2[k] = IF k \in Out("submitted") THEN 1 ELSE 0
    BY Zenon
  <2>1. /\ w[k] \in Int /\ Books!Moved(chain[k]) \in Int
        /\ k \in Missing => chain[k].amount \in Int
        /\ w[k] + (IF k \in Missing THEN chain[k].amount ELSE 0)
             = Books!Moved(chain[k])
               + ((IF k \in Out("executing") THEN 1 ELSE 0) + (IF k \in Out("submitted") THEN 1 ELSE 0))
    BY KnownIsMoved
  <2>2. m[k] = Books!Moved(chain[k])
    BY DEF MovedBy
  <2>3. a[k] = IF k \in Missing THEN chain[k].amount ELSE 0
    OBVIOUS
  <2>4. b1[k] = (IF k \in Out("executing") THEN 1 ELSE 0) /\ b2[k] = (IF k \in Out("submitted") THEN 1 ELSE 0)
    OBVIOUS
  <2>5. b[k] = b1[k] + b2[k] /\ u[k] = w[k] + a[k] /\ (k \in Missing => r[k] = chain[k].amount)
    OBVIOUS
  <2> HIDE DEF w, m, a, b1, b2, b, u, r
  <2> QED
    BY <2>1, <2>2, <2>3, <2>4, <2>5
<1> HIDE DEF w, m, a, b1, b2, b, u, r, S
<1>5. SumOver(u, S) = SumOver(w, S) + SumOver(a, S)
  BY <1>1, <1>4, SumPlus
<1>6. SumOver(b, S) = SumOver(b1, S) + SumOver(b2, S)
  BY <1>1, <1>4, SumPlus
<1>7. \A k \in S : m[k] \in Int /\ b[k] \in Int /\ u[k] = m[k] + b[k]
  BY <1>4
<1>8. SumOver(u, S) = SumOver(m, S) + SumOver(b, S)
  BY <1>1, <1>7, SumPlus
<1>9. SumOver(b1, S) = Cardinality(Out("executing")) /\ SumOver(b2, S) = Cardinality(Out("submitted"))
  BY <1>1, <1>2, <1>4, CountIsSum
<1>10. SumOver(a, S) = SumOver(a, Missing)
  BY <1>1, <1>2, <1>4, SumLeavesZeros
<1>11. SumOver(a, Missing) = SumOver(r, Missing)
  BY <1>2, <1>3, <1>4, SumSame
<1>12. SumOver(w, S) \in Int /\ SumOver(m, S) \in Int /\ SumOver(a, S) \in Int
  BY <1>1, <1>4, SumType
<1>13. SumOver(w, S) + SumOver(r, Missing) = SumOver(m, S) + (Cardinality(Out("executing")) + Cardinality(Out("submitted")))
  BY <1>5, <1>6, <1>8, <1>9, <1>10, <1>11
<1> QED
  BY <1>3, <1>10, <1>11, <1>12, <1>13 DEF KnownSum, w, m, r, S

\* Payments that wait for their transaction, and those whose transaction is there.
LEMMA SubmittedSplit ==
  ASSUME CashInv
  PROVE  LET Ahead == {p \in Payment : payment[p] = "submitted" /\ ~\E k \in 1 .. Len(chain) : chain[k].id = p /\ OutAt(k)}
         IN /\ IsFiniteSet(Ahead) /\ Cardinality(Ahead) \in Nat
            /\ Cardinality(Submitted(payment)) = Cardinality(Ahead) + Cardinality(Out("submitted"))
<1> DEFINE Ahead == {p \in Payment : payment[p] = "submitted" /\ ~\E k \in 1 .. Len(chain) : chain[k].id = p /\ OutAt(k)}
<1> DEFINE U == Submitted(payment)
<1> DEFINE There == U \ Ahead
<1> DEFINE O == Out("submitted")
<1> DEFINE f == [k \in O |-> chain[k].payment]
<1>0. chain \in Seq(InTx \cup OutTx) /\ Len(chain) \in Nat
  BY DEF CashInv, BooksInv, BooksTypes
<1>1. IsFiniteSet(U) /\ Cardinality(U) \in Nat
  BY SubmittedType
<1>2. Ahead \subseteq U
  BY DEF Submitted
<1>3. IsFiniteSet(Ahead) /\ Cardinality(Ahead) \in Nat
  BY <1>1, <1>2, FS_Subset, FS_CardinalityType
<1>4. IsFiniteSet(O)
  <2>1. O \subseteq 1 .. Len(chain) /\ IsFiniteSet(1 .. Len(chain))
    BY <1>0, FS_Interval DEF Out
  <2> QED
    BY <2>1, FS_Subset
<1>5. \A k \in O : k \in 1 .. Len(chain) /\ OutAt(k) /\ chain[k].payment \in Payment /\ chain[k].id = chain[k].payment
                   /\ payment[chain[k].payment] = "submitted"
  <2> SUFFICES ASSUME NEW k \in O
               PROVE  k \in 1 .. Len(chain) /\ OutAt(k) /\ chain[k].payment \in Payment /\ chain[k].id = chain[k].payment
                      /\ payment[chain[k].payment] = "submitted"
    OBVIOUS
  <2>1. k \in 1 .. Len(chain) /\ OutAt(k) /\ payment[chain[k].payment] = "submitted"
    BY DEF Out
  <2>2. chain[k] \in InTx \cup OutTx /\ chain[k].kind = "out"
    BY <1>0, <2>1 DEF OutAt
  <2>3. chain[k].payment \in Payment
    BY <2>2 DEF InTx, OutTx
  <2>4. chain[k].id = chain[k].payment
    BY <2>1, <2>2 DEF CashInv, CashFacts, IdsFit
  <2> QED
    BY <2>1, <2>3, <2>4
<1>6. f \in [O -> There]
  <2>1. \A k \in O : chain[k].payment \in U /\ chain[k].payment \notin Ahead
    BY <1>5 DEF Submitted
  <2> QED
    BY <2>1
<1>7. \A j, k \in O : f[j] = f[k] => j = k
  BY <1>5 DEF CashInv, CashFacts, IdsFit
<1>8. \A p \in There : \E k \in O : f[k] = p
  <2> SUFFICES ASSUME NEW p \in There PROVE \E k \in O : f[k] = p
    OBVIOUS
  <2>1. p \in Payment /\ payment[p] = "submitted"
    BY DEF Submitted
  <2>2. PICK k \in 1 .. Len(chain) : chain[k].id = p /\ OutAt(k)
    BY <2>1
  <2>3. chain[k].id = chain[k].payment
    BY <1>0, <2>2 DEF OutAt, CashInv, CashFacts, IdsFit
  <2>4. k \in O
    BY <2>1, <2>2, <2>3 DEF Out
  <2> QED
    BY <2>2, <2>3, <2>4
<1>9. Cardinality(There) = Cardinality(O)
  <2> HIDE DEF There, O, f
  <2>1. f \in Bijection(O, There)
    BY <1>6, <1>7, <1>8 DEF Bijection, Injection, Surjection, IsInjective
  <2>2. ExistsBijection(O, There)
    BY <2>1 DEF ExistsBijection
  <2> QED
    BY <1>4, <2>2, FS_Bijection
<1>10. Cardinality(There) = Cardinality(U) - Cardinality(U \cap Ahead)
  <2> HIDE DEF U, Ahead
  <2> QED
    BY <1>1, FS_Difference
<1>11. U \cap Ahead = Ahead
  BY <1>2
<1>12. Cardinality(U \cap Ahead) = Cardinality(Ahead)
  BY <1>11, Zenon
<1>13. Cardinality(O) = Cardinality(U) - Cardinality(Ahead)
  BY <1>9, <1>10, <1>12
<1>14. Cardinality(O) \in Nat
  BY <1>4, FS_CardinalityType
<1> HIDE DEF U, O, There, f
<1>15. Cardinality(U) = Cardinality(Ahead) + Cardinality(O)
  <2> HIDE DEF Ahead
  <2> QED
    BY <1>1, <1>3, <1>13, <1>14
<1> QED
  BY <1>3, <1>15 DEF U, O

LEMMA CashAgrees == CashInv => Books!LedgerAccountsForChain
<1> SUFFICES ASSUME CashInv, cursor # None, ~raced, ~drifted
             PROVE  LET Ahead == {p \in Payment : payment[p] = "submitted" /\ ~\E k \in DOMAIN chain : chain[k].id = p /\ OutAt(k)}
                        Behind == {k \in DOMAIN chain : OutAt(k) /\ payment[chain[k].payment] = "executing"}
                    IN Books!Net("cash") = Books!BalanceAt(Len(chain)) - Books!MapThenSumSet(LAMBDA k : chain[k].amount, Missing)
                                           - Books!Cardinality(Ahead) + Books!Cardinality(Behind)
  BY Zenon DEF Books!LedgerAccountsForChain, OutAt, Missing
<1> DEFINE Ahead == {p \in Payment : payment[p] = "submitted" /\ ~\E k \in DOMAIN chain : chain[k].id = p /\ OutAt(k)}
<1> DEFINE Behind == {k \in DOMAIN chain : OutAt(k) /\ payment[chain[k].payment] = "executing"}
<1> DEFINE l == Len(chain)
<1> DEFINE m == SumOver(MovedBy(l), 1 .. l)
<1> DEFINE uncounted == SumOver([k \in Missing |-> chain[k].amount], Missing)
<1> DEFINE cash == NetOf(ledger, "cash")
<1> DEFINE pending == NetOf(ledger, "pending")
<1>0. chain \in Seq(InTx \cup OutTx) /\ l \in Nat /\ DOMAIN chain = 1 .. l /\ EntriesOK(ledger)
  BY DEF CashInv, BooksInv, BooksTypes, BooksFit, BooksTyped
<1>1. PICK n \in 0 .. cursor : OpenedAt(n)
  BY DEF CashInv
<1> DEFINE known == KnownSum(chain, Taken(inflow), payment, n)
<1>2. cash + pending = known
  BY <1>1 DEF OpenedAt
<1>3. /\ known \in Int /\ m \in Int /\ uncounted \in Int /\ IsFiniteSet(Missing)
      /\ \A state : IsFiniteSet(Out(state)) /\ Cardinality(Out(state)) \in Nat
      /\ known + uncounted = m + (Cardinality(Out("executing")) + Cardinality(Out("submitted")))
  BY <1>1, KnownAddsUp DEF OpenedAt
<1>4. /\ Cardinality(Ahead) \in Nat
      /\ Cardinality(Submitted(payment)) = Cardinality(Ahead) + Cardinality(Out("submitted"))
  BY <1>0, SubmittedSplit
<1>5. pending = Cardinality(Submitted(payment))
  BY DEF CashInv, CashFacts, PendingFits
<1>6. cash \in Int
  BY <1>0, NetType
<1>7. Behind = Out("executing")
  BY <1>0 DEF Out
<1>8. Books!Cardinality(Ahead) = Cardinality(Ahead) /\ Books!Cardinality(Behind) = Cardinality(Out("executing"))
  <2>1. \A T : Books!Cardinality(T) = Cardinality(T)
    BY DEF Books!Cardinality, Cardinality
  <2> QED
    BY <1>7, <2>1, Zenon
<1>9. Books!Net("cash") = cash
  BY <1>0, NetIs
<1>10. Books!BalanceAt(l) = m
  BY <1>0, BalanceIsSum
<1>11. Books!MapThenSumSet(LAMBDA k : chain[k].amount, Missing) = uncounted
  BY <1>3, TransfersAddUp
<1> HIDE DEF Ahead, Behind, m, uncounted, cash, pending, known
<1> DEFINE executing == Cardinality(Out("executing"))
<1> DEFINE submitted == Cardinality(Out("submitted"))
<1>12. executing \in Nat /\ submitted \in Nat
  BY <1>3
<1>13. /\ cash + pending = known /\ known + uncounted = m + (executing + submitted)
       /\ pending = Cardinality(Ahead) + submitted
  BY <1>2, <1>3, <1>4, <1>5
<1> HIDE DEF executing, submitted
<1>14. cash = m - uncounted - Cardinality(Ahead) + executing
  BY <1>3, <1>4, <1>6, <1>12, <1>13
<1>15. Books!Net("cash") = Books!BalanceAt(l) - Books!MapThenSumSet(LAMBDA k : chain[k].amount, Missing)
                           - Books!Cardinality(Ahead) + Books!Cardinality(Behind)
  BY <1>8, <1>9, <1>10, <1>11, <1>14 DEF executing
<1> QED
  BY <1>15 DEF Ahead, Behind, l

\* From the opening balance on, the ledger's cash is the chain's balance but for
\* receipts that are not booked and payments under way, for any receipts,
\* payments and amounts (openCursor, recordInflow, markSubmitted, confirm):
\* unless two recorders raced for a receipt, or the opening balance was booked
\* beside other bookings.
THEOREM CashIsTheChain == Spec => []Books!LedgerAccountsForChain
<1>1. Init => Books!Init
  BY DEF Init
<1>2. [Next]_<<part, squads, theSafe, x402, books, reading, recurring, others>> => [Books!Next]_(Books!vars)
  BY DEF Next, books, Books!vars
<1> QED
  BY <1>1, <1>2, CashInit, CashStep, CashAgrees, PTL DEF Spec

(***************************************************************************)
(* Statements. What the books of the native asset owe the chain is due to   *)
(* payments under way and receipts not booked, and each posting keeps that: *)
(* Money. What a transaction began with stays so until it commits, because   *)
(* others only add to it: Work. Cash has a counterpart that names it.        *)
(***************************************************************************)
NativeOf(x) == IF x.kind = "native" THEN NativeAmount ELSE 0
SpentOf(x, pays) ==
  IF x.result = None \/ x.kind = "x402" THEN 0
  ELSE (IF pays THEN Fee ELSE 0) + (IF x.rent THEN Rent ELSE 0) + (IF x.result = "ok" THEN NativeOf(x) ELSE 0)
Going(x) == x.status \in {"executing", "submitted"}

\* What payments under way have taken, what the books hold back for them, and
\* what those have taken that were not on the chain before.
DueOf(payments, pays) == [p \in Payment |-> IF Going(payments[p]) THEN SpentOf(payments[p], pays) ELSE 0]
WaitingOf(payments) == [p \in Payment |-> IF payments[p].status = "submitted" THEN NativeOf(payments[p]) ELSE 0]
SinceOf(payments, pays, before) == [p \in Payment |-> IF p \in before THEN 0 ELSE SpentOf(payments[p], pays)]
Landed(receipts) == {r \in Inbound : receipts[r] = "landed"}
Beyond(receipts, within) == {r \in Inbound \ within : receipts[r] # "none"}

RowsOf(lines, code) == {l \in lines : l.who = "treasury" /\ l.code = code}
CashOf(entries) == RowsOf(entries, "treasury_asset")
PendingOf(entries) == RowsOf(entries, "pending_outbound")
Before(entries, m) == {e \in CashOf(entries) : e.at < m}

\* A posting has the accounts of its kind, and cash the counterpart that it is named by.
CodesOf(kind) ==
  CASE kind = "submitted" -> {"pending_outbound", "treasury_asset"}
    [] kind = "finalized" -> {"settled_expense", "pending_outbound"}
    [] kind = "reversal" -> {"treasury_asset", "pending_outbound"}
    [] kind = "fee" -> {"fee_expense", "executor_fee_expense", "treasury_asset"}
    [] kind = "in" -> {"treasury_asset", "inbound_unallocated"}
    [] kind = "opening" -> {"treasury_asset", "opening_balance"}
CounterOf(kind) ==
  CASE kind = "fee" -> "fee_expense"
    [] kind = "in" -> "inbound_unallocated"
    [] kind = "opening" -> "opening_balance"
    [] OTHER -> "pending_outbound"
Kinds == {"submitted", "finalized", "reversal", "fee", "in", "opening"}
Countered(l, kind, lines) ==
  /\ l.code \in CodesOf(kind)
  /\ l.who = "treasury" /\ l.code = "treasury_asset" =>
       /\ kind = "in" => l.amount > 0
       /\ kind = "opening" => l.amount # 0
       /\ \E m \in lines : m.code = CounterOf(kind) /\ (kind = "opening" => m.amount = -l.amount)
Postings(entries) ==
  \A e \in entries :
    /\ e.ref[1] \in Kinds
    /\ Countered(e, e.ref[1], {f \in entries : f.ref = e.ref /\ f.at = e.at})

EntriesTyped(entries) == IsFiniteSet(entries) /\ \A e \in entries : e.at \in Nat /\ e.amount \in Int

\* What has been posted has happened in the tables.
EntriesFit(entries, payments, receipts, begun) ==
  \A e \in entries :
    /\ \A p \in Payment :
         /\ e.ref[1] = "submitted" /\ e.ref[2] = p => payments[p].status # "executing"
         /\ e.ref[1] \in {"finalized", "reversal", "fee"} /\ e.ref[2] = p => ~Going(payments[p])
    /\ \A r \in Inbound : e.ref[1] = "in" /\ e.ref[2] = r => receipts[r] = "booked"
    /\ e.ref[1] = "opening" => begun

Paid == [kind : {"native", "token", "x402"}, status : {"executing", "submitted", "finalized", "failed"},
         result : {None, "ok", "reverted"}, rent : BOOLEAN]
MonthlyTyped ==
  /\ svm \in BOOLEAN /\ direct \in BOOLEAN /\ month \in Nat /\ balance \in Int
  /\ paying \in [Payment -> Paid]
  /\ \A p \in Payment : paying[p].rent => svm /\ paying[p].result = "ok"
  /\ income \in [Inbound -> {"none", "landed", "booked", "counted"}]

Owed == balance + SumOver(DueOf(paying, direct), Payment) - Cardinality(Landed(income))
Money ==
  /\ AmountSum(PendingOf(journal)) = SumOver(WaitingOf(paying), Payment)
  /\ started /\ ~askew /\ unseen = {} => AmountSum(CashOf(journal)) + AmountSum(PendingOf(journal)) = Owed
  /\ ~started => \A r \in Inbound : income[r] # "counted"

WorkFits(work) ==
  /\ work.of = "submit" => work.payment \in Payment /\ paying[work.payment].status = "executing"
  /\ work.of = "confirm" =>
       /\ work.payment \in Payment /\ paying[work.payment].status = "submitted"
       /\ paying[work.payment].result # None /\ (work.seen \/ svm) /\ work.seen \in BOOLEAN
  /\ work.of = "book" => work.receipt \in Inbound /\ income[work.receipt] = "landed"
  /\ work.of = "open" =>
       /\ ~started
       /\ work.within \subseteq Inbound /\ \A r \in work.within : income[r] # "none"
       /\ work.paid \subseteq Payment /\ \A p \in work.paid : paying[p].result # None
       /\ work.balance = balance + SumOver(SinceOf(paying, direct, work.paid), Payment)
                                 - Cardinality(Beyond(income, work.within))
Work == posting # None => posting.at \in Nat /\ WorkFits(posting.work)

\* What is over stays over: m is past, and nothing that is about to commit belongs to it.
Over(m) == m < month /\ (posting # None => m < posting.at)
Told ==
  /\ answer # None =>
       /\ answer.month \in Nat /\ answer.opening \in Int
       /\ answer.calm => Over(answer.month) /\ answer.opening = AmountSum(Before(journal, answer.month))
  /\ issued # None =>
       /\ issued.month \in Nat
       /\ \/ issued.closing = issued.opening + issued.inflows - issued.outflows - issued.fees
          \/ \E e \in journal : e.code = "opening_balance" /\ e.amount > 0 /\ e.at = issued.month
       /\ issued.calm =>
            /\ Over(issued.month) /\ issued.opening = AmountSum(Before(journal, issued.month))
            /\ issued.closing = AmountSum(Before(journal, issued.month + 1))

MonthlyInv ==
  /\ MonthlyTyped /\ EntriesTyped(journal) /\ Postings(journal)
  /\ EntriesFit(journal, paying, income, started)
  /\ Money /\ Work /\ Told

-----------------------------------------------------------------------------
\* The operators of Statements in these terms.
LEMMA MonthlyConstants ==
  /\ IsFiniteSet(Payment) /\ IsFiniteSet(Inbound)
  /\ NativeAmount \in Nat /\ Fee \in Nat /\ Rent \in Nat /\ Funds \subseteq Nat /\ MaxMonth \in Nat
  /\ None # "ok" /\ None # "reverted"
BY TreasuryAssumption

LEMMA SpentType ==
  ASSUME NEW x \in Paid, NEW d \in BOOLEAN
  PROVE  SpentOf(x, d) \in Nat /\ NativeOf(x) \in Nat
BY MonthlyConstants DEF SpentOf, NativeOf, Paid

LEMMA WeightsTyped ==
  ASSUME NEW pays \in [Payment -> Paid], NEW d \in BOOLEAN
  PROVE  /\ \A p \in Payment : DueOf(pays, d)[p] \in Int /\ WaitingOf(pays)[p] \in Int
         /\ \A before : \A p \in Payment : SinceOf(pays, d, before)[p] \in Int
<1>1. \A p \in Payment : pays[p] \in Paid
  OBVIOUS
<1>2. \A p \in Payment : SpentOf(pays[p], d) \in Nat /\ NativeOf(pays[p]) \in Nat
  BY <1>1, SpentType
<1> QED
  BY <1>2 DEF DueOf, WaitingOf, SinceOf

LEMMA OwesWhole ==
  ASSUME MonthlyTyped
  PROVE  /\ SumOver(DueOf(paying, direct), Payment) \in Int
         /\ SumOver(WaitingOf(paying), Payment) \in Int
         /\ \A before : SumOver(SinceOf(paying, direct, before), Payment) \in Int
         /\ IsFiniteSet(Landed(income)) /\ Cardinality(Landed(income)) \in Nat
         /\ \A within : IsFiniteSet(Beyond(income, within)) /\ Cardinality(Beyond(income, within)) \in Nat
<1>1. /\ \A p \in Payment : DueOf(paying, direct)[p] \in Int /\ WaitingOf(paying)[p] \in Int
      /\ \A before : \A p \in Payment : SinceOf(paying, direct, before)[p] \in Int
  BY WeightsTyped DEF MonthlyTyped
<1>2. /\ IsFiniteSet(Landed(income))
      /\ \A within : IsFiniteSet(Beyond(income, within))
  BY MonthlyConstants, FS_Subset DEF Landed, Beyond
<1>3. Cardinality(Landed(income)) \in Nat
  BY <1>2, FS_CardinalityType
<1>4. \A within : Cardinality(Beyond(income, within)) \in Nat
  BY <1>2, FS_CardinalityType
<1>5. SumOver(DueOf(paying, direct), Payment) \in Int /\ SumOver(WaitingOf(paying), Payment) \in Int
  BY <1>1, MonthlyConstants, SumType
<1>6. ASSUME NEW before PROVE SumOver(SinceOf(paying, direct, before), Payment) \in Int
  BY <1>1, MonthlyConstants, SumType
<1> QED
  BY <1>2, <1>3, <1>4, <1>5, <1>6

\* What Statements calls them.
LEMMA MonthlyNames ==
  ASSUME MonthlyTyped, NEW p \in Payment
  PROVE  /\ Monthly!Spent(p) = SpentOf(paying[p], direct)
         /\ Monthly!Native(p) = NativeOf(paying[p])
         /\ \A result \in {"ok", "reverted"}, rent \in BOOLEAN :
              Monthly!Cost(p, result, rent) = SpentOf([paying[p] EXCEPT !.result = result, !.rent = rent], direct)
<1>1. paying[p] \in Paid
  BY DEF MonthlyTyped
<1>2. Monthly!Native(p) = NativeOf(paying[p])
  BY DEF Monthly!Native, NativeOf
<1>3. ASSUME NEW result \in {"ok", "reverted"}, NEW rent \in BOOLEAN
      PROVE  Monthly!Cost(p, result, rent) = SpentOf([paying[p] EXCEPT !.result = result, !.rent = rent], direct)
  <2>1. [paying[p] EXCEPT !.result = result, !.rent = rent].kind = paying[p].kind
    BY <1>1 DEF Paid
  <2>2. /\ [paying[p] EXCEPT !.result = result, !.rent = rent].result = result
        /\ [paying[p] EXCEPT !.result = result, !.rent = rent].rent = rent
    BY <1>1 DEF Paid
  <2>3. NativeOf([paying[p] EXCEPT !.result = result, !.rent = rent]) = NativeOf(paying[p])
    BY <2>1 DEF NativeOf
  <2>4. result # None
    BY MonthlyConstants
  <2> QED
    BY <2>1, <2>2, <2>3, <2>4, <1>2 DEF Monthly!Cost, SpentOf
<1>4. Monthly!Spent(p) = SpentOf(paying[p], direct)
  BY <1>2 DEF Monthly!Spent, Monthly!Cost, SpentOf
<1> QED
  BY <1>2, <1>3, <1>4

-----------------------------------------------------------------------------
(* Postings: what one adds up to, per account.                              *)
EntryOf(ref, date, l) == [ref |-> ref, at |-> date, who |-> l.who, code |-> l.code, amount |-> l.amount]
Posted(entries, ref, date, lines) == entries \cup {EntryOf(ref, date, l) : l \in lines}
Unposted(entries, ref) == \A e \in entries : e.ref # ref
LinesTyped(lines) == IsFiniteSet(lines) /\ \A l \in lines : l.amount \in Int
LinesFit(lines, kind) == LinesTyped(lines) /\ \A l \in lines : Countered(l, kind, lines)
Moves(lines, code, n) ==
  \/ RowsOf(lines, code) = {} /\ n = 0
  \/ \E x \in lines : RowsOf(lines, code) = {x} /\ x.amount = n

LEMMA PostIs ==
  ASSUME NEW entries, NEW ref, NEW lines, Unposted(entries, ref)
  PROVE  Monthly!Post(entries, ref, lines) = Posted(entries, ref, posting.at, lines)
BY DEF Monthly!Post, Posted, EntryOf, Unposted

LEMMA PostedTyped ==
  ASSUME NEW entries, EntriesTyped(entries), NEW ref, NEW date \in Nat, NEW lines, LinesTyped(lines)
  PROVE  EntriesTyped(Posted(entries, ref, date, lines))
<1> DEFINE rows == {EntryOf(ref, date, l) : l \in lines}
<1>1. IsFiniteSet(rows)
  <2> DEFINE f == [l \in lines |-> EntryOf(ref, date, l)]
  <2>1. f \in Surjection(lines, rows)
    <3>1. DOMAIN f = lines /\ \A l \in lines : f[l] = EntryOf(ref, date, l)
      OBVIOUS
    <3>2. f \in [lines -> rows]
      OBVIOUS
    <3>3. \A e \in rows : \E l \in lines : f[l] = e
      BY <3>1
    <3> QED
      BY <3>2, <3>3 DEF Surjection
  <2> QED
    BY <2>1, FS_Surjection DEF LinesTyped
<1>2. IsFiniteSet(entries \cup rows)
  BY <1>1, FS_Union DEF EntriesTyped
<1>3. \A e \in rows : e.at \in Nat /\ e.amount \in Int
  BY DEF LinesTyped, EntryOf
<1> QED
  BY <1>2, <1>3 DEF EntriesTyped, Posted

LEMMA RowsTyped ==
  ASSUME NEW entries, EntriesTyped(entries), NEW code
  PROVE  /\ IsFiniteSet(RowsOf(entries, code)) /\ \A e \in RowsOf(entries, code) : e.amount \in Int
         /\ AmountSum(RowsOf(entries, code)) \in Int
<1>1. IsFiniteSet(RowsOf(entries, code)) /\ \A e \in RowsOf(entries, code) : e.amount \in Int
  BY FS_Subset DEF EntriesTyped, RowsOf
<1> QED
  BY <1>1, AmountType

LEMMA PostedSum ==
  ASSUME NEW entries, EntriesTyped(entries), NEW ref, Unposted(entries, ref), NEW date \in Nat,
         NEW lines, LinesTyped(lines), NEW code, NEW n \in Int, Moves(lines, code, n)
  PROVE  AmountSum(RowsOf(Posted(entries, ref, date, lines), code)) = AmountSum(RowsOf(entries, code)) + n
<1> DEFINE old == RowsOf(entries, code)
<1> DEFINE new == RowsOf(Posted(entries, ref, date, lines), code)
<1>1. IsFiniteSet(old) /\ (\A e \in old : e.amount \in Int) /\ AmountSum(old) \in Int
  BY RowsTyped
<1>2. CASE RowsOf(lines, code) = {} /\ n = 0
  <2>1. \A l \in lines : ~(l.who = "treasury" /\ l.code = code)
    BY <1>2 DEF RowsOf
  <2>2. new = old
    <3>1. \A l : EntryOf(ref, date, l).who = l.who /\ EntryOf(ref, date, l).code = l.code
      BY DEF EntryOf
    <3>2. \A e \in new : e \in old
      BY <2>1, <3>1 DEF RowsOf, Posted
    <3>3. \A e \in old : e \in new
      BY DEF RowsOf, Posted
    <3> QED
      BY <3>2, <3>3, Zenon
  <2>3. AmountSum(new) = AmountSum(old)
    BY <2>2, Zenon
  <2> HIDE DEF old, new
  <2> QED
    BY <1>1, <1>2, <2>3 DEF old, new
<1>3. ASSUME NEW x \in lines, RowsOf(lines, code) = {x}, x.amount = n
      PROVE  AmountSum(new) = AmountSum(old) + n
  <2> DEFINE r == EntryOf(ref, date, x)
  <2>1. \A l \in lines : l.who = "treasury" /\ l.code = code <=> l = x
    BY <1>3, Zenon DEF RowsOf
  <2>2. r.who = x.who /\ r.code = x.code /\ r.amount = x.amount /\ r.ref = ref
    BY DEF EntryOf
  <2>3. r \notin old
    BY <2>2 DEF RowsOf, Unposted
  <2>4. new = old \cup {r}
    <3>1. \A l : EntryOf(ref, date, l).who = l.who /\ EntryOf(ref, date, l).code = l.code
      BY DEF EntryOf
    <3> HIDE DEF r
    <3>2. ASSUME NEW e \in new PROVE e \in old \cup {r}
      <4>1. e.who = "treasury" /\ e.code = code /\ (e \in entries \/ \E l \in lines : e = EntryOf(ref, date, l))
        BY DEF RowsOf, Posted
      <4>2. CASE e \in entries
        BY <4>1, <4>2 DEF RowsOf
      <4>3. ASSUME NEW l \in lines, e = EntryOf(ref, date, l) PROVE e = r
        <5>1. l.who = "treasury" /\ l.code = code
          BY <3>1, <4>1, <4>3
        <5> QED
          BY <2>1, <4>3, <5>1 DEF r
      <4> QED
        BY <4>1, <4>2, <4>3
    <3>3. ASSUME NEW e \in old \cup {r} PROVE e \in new
      <4>1. CASE e \in old
        BY <4>1 DEF RowsOf, Posted
      <4>2. CASE e = r
        <5>1. e \in Posted(entries, ref, date, lines)
          BY <4>2 DEF Posted, r
        <5>2. e.who = "treasury" /\ e.code = code
          BY <2>1, <2>2, <4>2
        <5> QED
          BY <5>1, <5>2 DEF RowsOf
      <4> QED
        BY <4>1, <4>2
    <3> QED
      BY <3>2, <3>3, Zenon
  <2>5. r.amount = n /\ r.amount \in Int
    BY <1>3, <2>2
  <2> HIDE DEF r, old, new
  <2>6. AmountSum(old \cup {r}) = AmountSum(old) + r.amount
    BY <1>1, <2>3, <2>5, AmountAdds
  <2>7. AmountSum(new) = AmountSum(old \cup {r})
    BY <2>4, Zenon
  <2> QED
    BY <2>5, <2>6, <2>7
<1> QED
  BY <1>2, <1>3 DEF Moves

LEMMA PostedPostings ==
  ASSUME NEW entries, Postings(entries), NEW ref, ref[1] \in Kinds, NEW date, NEW lines, LinesFit(lines, ref[1])
  PROVE  Postings(Posted(entries, ref, date, lines))
<1> DEFINE all == Posted(entries, ref, date, lines)
<1> DEFINE Of(e) == {f \in all : f.ref = e.ref /\ f.at = e.at}
<1>1. ASSUME NEW e \in entries PROVE e.ref[1] \in Kinds /\ Countered(e, e.ref[1], Of(e))
  <2>1. e.ref[1] \in Kinds /\ Countered(e, e.ref[1], {f \in entries : f.ref = e.ref /\ f.at = e.at})
    BY DEF Postings
  <2>2. {f \in entries : f.ref = e.ref /\ f.at = e.at} \subseteq Of(e)
    BY DEF Posted
  <2> HIDE DEF Of
  <2> QED
    BY <2>1, <2>2 DEF Countered
<1>2. ASSUME NEW l \in lines PROVE LET e == EntryOf(ref, date, l) IN e.ref[1] \in Kinds /\ Countered(e, e.ref[1], Of(e))
  <2> DEFINE e == EntryOf(ref, date, l)
  <2>1. e.ref = ref /\ e.who = l.who /\ e.code = l.code /\ e.amount = l.amount
    BY DEF EntryOf
  <2>2. \A m \in lines : EntryOf(ref, date, m) \in Of(e) /\ EntryOf(ref, date, m).code = m.code /\ EntryOf(ref, date, m).amount = m.amount
    BY DEF EntryOf, Posted
  <2>3. Countered(l, ref[1], lines)
    BY DEF LinesFit
  <2> HIDE DEF e, Of
  <2>4. Countered(e, ref[1], Of(e))
    BY <2>1, <2>2, <2>3 DEF Countered
  <2> QED
    BY <2>1, <2>4 DEF e
<1> HIDE DEF Of
<1>3. \A e \in all : e.ref[1] \in Kinds /\ Countered(e, e.ref[1], Of(e))
  BY <1>1, <1>2 DEF Posted
<1> QED
  BY <1>3 DEF Postings, Of

LEMMA PostedBefore ==
  ASSUME NEW entries, NEW ref, NEW date \in Int, NEW lines, NEW m \in Int, m <= date
  PROVE  Before(Posted(entries, ref, date, lines), m) = Before(entries, m)
<1>1. \A l : EntryOf(ref, date, l).at = date
  BY DEF EntryOf
<1>2. \A l : ~(EntryOf(ref, date, l).at < m)
  BY <1>1
<1> QED
  BY <1>2, Zenon DEF Before, CashOf, RowsOf, Posted

-----------------------------------------------------------------------------
(* The lines of each posting.                                               *)
LEMMA LineIs ==
  ASSUME NEW who, NEW code, NEW n
  PROVE  LET l == Monthly!Line(who, code, n) IN l.who = who /\ l.code = code /\ l.amount = n
BY DEF Monthly!Line

LEMMA PairLines ==
  ASSUME NEW who, NEW debit, NEW credit, NEW n \in Int
  PROVE  LET lines == Monthly!Pair(who, debit, credit, n)
             d == Monthly!Line(who, debit, n)
             c == Monthly!Line(who, credit, -n)
         IN  /\ n > 0 => lines = {d, c}
             /\ ~(n > 0) => lines = {}
             /\ LinesTyped(lines)
<1> DEFINE lines == Monthly!Pair(who, debit, credit, n)
<1> DEFINE d == Monthly!Line(who, debit, n)
<1> DEFINE c == Monthly!Line(who, credit, -n)
<1>1. d.amount = n /\ c.amount = -n
  BY LineIs
<1>2. (n > 0 => lines = {d, c}) /\ (~(n > 0) => lines = {})
  BY Zenon DEF Monthly!Pair
<1> HIDE DEF d, c, lines
<1>3. IsFiniteSet(lines)
  <2>1. IsFiniteSet({d, c}) /\ IsFiniteSet({})
    <3>1. IsFiniteSet({d}) /\ IsFiniteSet({})
      BY FS_EmptySet, FS_Singleton
    <3>2. IsFiniteSet({d} \cup {c}) /\ {d} \cup {c} = {d, c}
      BY <3>1, FS_AddElement
    <3> QED
      BY <3>1, <3>2
  <2> QED
    BY <1>2, <2>1
<1>4. \A l \in lines : l.amount \in Int
  BY <1>1, <1>2
<1> QED
  BY <1>2, <1>3, <1>4 DEF LinesTyped, lines, d, c

LEMMA PairMoves ==
  ASSUME NEW debit, NEW credit, debit # credit, NEW n \in Nat
  PROVE  LET lines == Monthly!Pair("treasury", debit, credit, n)
         IN  /\ LinesTyped(lines)
             /\ Moves(lines, debit, n) /\ Moves(lines, credit, -n)
             /\ \A code : code # debit /\ code # credit => Moves(lines, code, 0)
<1> DEFINE lines == Monthly!Pair("treasury", debit, credit, n)
<1> DEFINE d == Monthly!Line("treasury", debit, n)
<1> DEFINE c == Monthly!Line("treasury", credit, -n)
<1>1. /\ n > 0 => lines = {d, c}
      /\ ~(n > 0) => lines = {}
      /\ LinesTyped(lines)
  BY PairLines
<1>2. d.who = "treasury" /\ d.code = debit /\ d.amount = n /\ c.who = "treasury" /\ c.code = credit /\ c.amount = -n
  BY LineIs
<1> HIDE DEF lines, d, c
<1>3. CASE ~(n > 0)
  <2>1. n = 0 /\ -n = 0
    BY <1>3
  <2>2. \A code : RowsOf(lines, code) = {}
    BY <1>1, <1>3 DEF RowsOf
  <2> QED
    BY <1>1, <2>1, <2>2 DEF Moves, lines
<1>4. CASE n > 0
  <2>1. d \in lines /\ c \in lines /\ \A l \in lines : l = d \/ l = c
    BY <1>1, <1>4
  <2>2. RowsOf(lines, debit) = {d} /\ RowsOf(lines, credit) = {c}
    BY <2>1, <1>2 DEF RowsOf
  <2>3. \A code : code # debit /\ code # credit => RowsOf(lines, code) = {}
    BY <2>1, <1>2 DEF RowsOf
  <2> QED
    BY <1>1, <1>2, <2>1, <2>2, <2>3 DEF Moves, lines
<1> QED
  BY <1>3, <1>4

\* Lines of somebody else's account move none of the treasury's.
LEMMA OthersMoveNothing ==
  ASSUME NEW who, who # "treasury", NEW debit, NEW credit, NEW n \in Int, NEW code
  PROVE  RowsOf(Monthly!Pair(who, debit, credit, n), code) = {}
<1>1. \A l \in Monthly!Pair(who, debit, credit, n) : l.who = who
  BY PairLines, LineIs
<1> QED
  BY <1>1 DEF RowsOf

LEMMA JoinMoves ==
  ASSUME NEW a, NEW b, NEW code, NEW n, Moves(a, code, n), RowsOf(b, code) = {}
  PROVE  Moves(a \cup b, code, n) /\ Moves(b \cup a, code, n)
<1>1. RowsOf(a \cup b, code) = RowsOf(a, code) /\ RowsOf(b \cup a, code) = RowsOf(a, code)
  BY DEF RowsOf
<1> QED
  BY <1>1 DEF Moves

LEMMA JoinTyped ==
  ASSUME NEW a, NEW b, LinesTyped(a), LinesTyped(b)
  PROVE  LinesTyped(a \cup b)
BY FS_Union DEF LinesTyped

LEMMA PairFits ==
  ASSUME NEW kind, NEW debit, NEW credit, NEW n \in Int,
         debit \in CodesOf(kind), credit \in CodesOf(kind),
         debit = "treasury_asset" => credit = CounterOf(kind),
         credit = "treasury_asset" => debit = CounterOf(kind) /\ kind # "in"
  PROVE  LinesFit(Monthly!Pair("treasury", debit, credit, n), kind)
<1> DEFINE lines == Monthly!Pair("treasury", debit, credit, n)
<1> DEFINE d == Monthly!Line("treasury", debit, n)
<1> DEFINE c == Monthly!Line("treasury", credit, -n)
<1>1. (n > 0 => lines = {d, c}) /\ (~(n > 0) => lines = {}) /\ LinesTyped(lines)
  BY PairLines
<1>2. d.code = debit /\ d.amount = n /\ c.code = credit /\ c.amount = -n
  BY LineIs
<1> HIDE DEF lines, d, c
<1>3. ASSUME n > 0 PROVE Countered(d, kind, lines) /\ Countered(c, kind, lines)
  <2>1. d \in lines /\ c \in lines /\ n = -(-n)
    BY <1>1, <1>3
  <2> QED
    BY <1>2, <1>3, <2>1 DEF Countered
<1> QED
  BY <1>1, <1>3 DEF LinesFit, lines

LEMMA JoinFits ==
  ASSUME NEW kind, NEW a, NEW b, LinesFit(a, kind), LinesFit(b, kind)
  PROVE  LinesFit(a \cup b, kind)
<1>1. LinesTyped(a \cup b)
  BY JoinTyped DEF LinesFit
<1>2. \A l \in a \cup b : Countered(l, kind, a) \/ Countered(l, kind, b)
  BY DEF LinesFit
<1> QED
  BY <1>1, <1>2 DEF LinesFit, Countered

LEMMA OpeningLines ==
  ASSUME NEW n \in Int
  PROVE  LET lines == Monthly!Pair("treasury", "treasury_asset", "opening_balance", n)
                      \cup Monthly!Pair("treasury", "opening_balance", "treasury_asset", -n)
         IN  /\ LinesFit(lines, "opening")
             /\ Moves(lines, "treasury_asset", n) /\ Moves(lines, "pending_outbound", 0)
<1> DEFINE a == Monthly!Pair("treasury", "treasury_asset", "opening_balance", n)
<1> DEFINE b == Monthly!Pair("treasury", "opening_balance", "treasury_asset", -n)
<1>0. -n \in Int /\ -(-n) = n
  OBVIOUS
<1>1. LinesFit(a, "opening") /\ LinesFit(b, "opening")
  BY <1>0, PairFits DEF CodesOf, CounterOf
<1>2. (~(n > 0) => a = {}) /\ (~(-n > 0) => b = {})
  BY <1>0, PairLines
<1>3. CASE n > 0
  <2>1. n \in Nat /\ ~(-n > 0)
    BY <1>3
  <2>2. Moves(a, "treasury_asset", n) /\ Moves(a, "pending_outbound", 0)
    BY <2>1, PairMoves
  <2>3. \A code : RowsOf(b, code) = {}
    BY <1>2, <2>1 DEF RowsOf
  <2> HIDE DEF a, b
  <2>4. Moves(a \cup b, "treasury_asset", n) /\ Moves(a \cup b, "pending_outbound", 0)
    BY <2>2, <2>3, JoinMoves
  <2> QED
    BY <1>1, <2>4, JoinFits DEF a, b
<1>4. CASE ~(n > 0)
  <2>1. -n \in Nat
    BY <1>4
  <2>2. Moves(b, "treasury_asset", -(-n)) /\ Moves(b, "pending_outbound", 0)
    BY <2>1, PairMoves
  <2>3. \A code : RowsOf(a, code) = {}
    BY <1>2, <1>4 DEF RowsOf
  <2> HIDE DEF a, b
  <2>4. Moves(a \cup b, "treasury_asset", n) /\ Moves(a \cup b, "pending_outbound", 0)
    BY <1>0, <2>2, <2>3, JoinMoves
  <2> QED
    BY <1>1, <2>4, JoinFits DEF a, b
<1> QED
  BY <1>3, <1>4

\* What a posting of costs takes is what the payment spent besides its amount, if
\* the node had the transaction.
LEMMA CostsLines ==
  ASSUME MonthlyTyped, NEW p \in Payment, NEW seen \in BOOLEAN, seen \/ svm, paying[p].result # None
  PROVE  LET lines == Monthly!CostLines(p, seen)
             moved == IF paying[p].result = "ok" THEN NativeOf(paying[p]) ELSE 0
         IN  /\ LinesFit(lines, "fee") /\ Moves(lines, "pending_outbound", 0)
             /\ \E t \in Nat : /\ Moves(lines, "treasury_asset", 0 - t)
                               /\ seen => t = SpentOf(paying[p], direct) - moved
<1> DEFINE lines == Monthly!CostLines(p, seen)
<1> DEFINE ok == paying[p].result = "ok"
<1> DEFINE n == NativeOf(paying[p])
<1> DEFINE s == SpentOf(paying[p], direct)
<1> DEFINE moved == IF ok THEN n ELSE 0
<1> DEFINE Ours(k) == Monthly!Pair("treasury", "fee_expense", "treasury_asset", k)
<1> DEFINE Theirs(k) == Monthly!Pair("float", "executor_fee_expense", "treasury_asset", k)
<1> DEFINE fee == IF seen THEN Fee ELSE 0
<1>1. /\ paying[p] \in Paid /\ direct \in BOOLEAN /\ svm \in BOOLEAN
      /\ paying[p].rent => svm /\ ok
      /\ Monthly!Spent(p) = s /\ Monthly!Native(p) = n
  BY MonthlyNames DEF MonthlyTyped
<1>2. s \in Nat /\ n \in Nat /\ fee \in Nat /\ moved \in Nat
  BY <1>1, SpentType, MonthlyConstants
<1>3. /\ paying[p].kind = "x402" => lines = {}
      /\ paying[p].kind # "x402" /\ svm /\ ok /\ seen =>
           lines = Ours(s - n) \cup (IF direct THEN {} ELSE Theirs(fee))
      /\ paying[p].kind # "x402" /\ ~(svm /\ ok /\ seen) =>
           lines = IF direct THEN Ours(fee) ELSE Theirs(fee)
  BY <1>1, Zenon DEF Monthly!CostLines
<1>7. \A k \in Nat : -k = 0 - k
  OBVIOUS
<1>4. ASSUME NEW k \in Nat
      PROVE  /\ LinesFit(Ours(k), "fee")
             /\ Moves(Ours(k), "treasury_asset", 0 - k) /\ Moves(Ours(k), "pending_outbound", 0)
  <2>1. Moves(Ours(k), "treasury_asset", -k) /\ Moves(Ours(k), "pending_outbound", 0)
    BY PairMoves
  <2>2. LinesFit(Ours(k), "fee")
    BY PairFits DEF CodesOf, CounterOf
  <2> HIDE DEF Ours
  <2> QED
    BY <2>1, <2>2, <1>7
<1>5. ASSUME NEW k \in Nat
      PROVE  LinesFit(Theirs(k), "fee") /\ \A code : RowsOf(Theirs(k), code) = {}
  <2>1. \A code : RowsOf(Theirs(k), code) = {}
    BY OthersMoveNothing
  <2>2. LinesTyped(Theirs(k)) /\ \A l \in Theirs(k) : l.who = "float" /\ l.code \in {"executor_fee_expense", "treasury_asset"}
    BY PairLines, LineIs
  <2> HIDE DEF Theirs
  <2>3. \A l \in Theirs(k) : Countered(l, "fee", Theirs(k))
    BY <2>2 DEF Countered, CodesOf
  <2> QED
    BY <2>1, <2>2, <2>3 DEF LinesFit
<1>6. /\ LinesFit({}, "fee") /\ \A code : RowsOf({}, code) = {}
      /\ \A code : Moves({}, code, 0)
  BY FS_EmptySet DEF LinesFit, LinesTyped, RowsOf, Moves
<1>8. CASE paying[p].kind = "x402"
  <2>1. s = 0 /\ n = 0
    BY <1>8 DEF SpentOf, NativeOf
  <2>2. lines = {} /\ 0 = s - moved
    BY <1>3, <1>8, <2>1
  <2> HIDE DEF lines, s, n, moved
  <2>3. LinesFit(lines, "fee") /\ Moves(lines, "pending_outbound", 0) /\ Moves(lines, "treasury_asset", 0 - 0)
    BY <1>6, <1>7, <2>2
  <2> QED
    BY <1>7, <2>2, <2>3 DEF lines, s, n, moved, ok
<1>9. CASE paying[p].kind # "x402" /\ svm /\ ok /\ seen
  <2>1. s - n \in Nat /\ moved = n
    BY <1>1, <1>9, <1>2, MonthlyConstants DEF SpentOf, Paid
  <2>2. lines = Ours(s - n) \cup (IF direct THEN {} ELSE Theirs(fee))
    BY <1>3, <1>9
  <2> DEFINE t == s - n
  <2> DEFINE rest == IF direct THEN {} ELSE Theirs(fee)
  <2>3. LinesFit(rest, "fee") /\ \A code : RowsOf(rest, code) = {}
    BY <1>2, <1>5, <1>6
  <2>4. t \in Nat /\ LinesFit(Ours(t), "fee") /\ Moves(Ours(t), "treasury_asset", 0 - t)
        /\ Moves(Ours(t), "pending_outbound", 0)
    BY <1>4, <2>1
  <2>5. lines = Ours(t) \cup rest
    BY <2>2
  <2>6. t = s - moved
    BY <2>1
  <2> HIDE DEF lines, s, n, moved, t, rest, Ours
  <2>7. LinesFit(lines, "fee") /\ Moves(lines, "treasury_asset", 0 - t) /\ Moves(lines, "pending_outbound", 0)
    BY <2>3, <2>4, <2>5, JoinFits, JoinMoves
  <2> QED
    BY <2>4, <2>6, <2>7 DEF lines, s, n, moved, ok
<1>10. CASE paying[p].kind # "x402" /\ ~(svm /\ ok /\ seen) /\ direct
  <2>1. lines = Ours(fee)
    BY <1>3, <1>10
  <2>2. seen => fee = s - moved
    <3>1. SUFFICES ASSUME seen PROVE fee = s - moved
      OBVIOUS
    <3>2. ~paying[p].rent /\ fee = Fee
      BY <1>1, <1>10, <3>1
    <3> QED
      BY <1>1, <1>2, <1>10, <3>2, MonthlyConstants DEF SpentOf, Paid
  <2>3. LinesFit(Ours(fee), "fee") /\ Moves(Ours(fee), "treasury_asset", 0 - fee)
        /\ Moves(Ours(fee), "pending_outbound", 0)
    BY <1>2, <1>4
  <2> HIDE DEF lines, s, n, moved, fee, Ours
  <2> QED
    BY <1>2, <2>1, <2>2, <2>3 DEF lines, s, n, moved, ok
<1>11. CASE paying[p].kind # "x402" /\ ~(svm /\ ok /\ seen) /\ ~direct
  <2>1. lines = Theirs(fee)
    BY <1>3, <1>11
  <2>2. seen => 0 = s - moved
    <3>1. SUFFICES ASSUME seen PROVE 0 = s - moved
      OBVIOUS
    <3>2. ~paying[p].rent
      BY <1>1, <1>11, <3>1
    <3> QED
      BY <1>1, <1>2, <1>11, <3>2, MonthlyConstants DEF SpentOf, Paid
  <2>3. LinesFit(Theirs(fee), "fee") /\ \A code : RowsOf(Theirs(fee), code) = {}
    BY <1>2, <1>5
  <2> HIDE DEF lines, s, n, moved, fee, Theirs
  <2>4. \A code : Moves(lines, code, 0) /\ Moves(lines, code, 0 - 0)
    BY <1>7, <2>1, <2>3 DEF Moves
  <2> QED
    BY <1>7, <2>1, <2>2, <2>3, <2>4 DEF lines, s, n, moved, ok
<1> QED
  BY <1>8, <1>9, <1>10, <1>11

-----------------------------------------------------------------------------
(* The steps.                                                               *)
LEMMA MonthlyInit == Monthly!Init => MonthlyInv
<1> SUFFICES ASSUME Monthly!Init PROVE MonthlyInv
  OBVIOUS
<1>1. /\ journal = {} /\ started = FALSE /\ posting = None /\ answer = None /\ issued = None
      /\ month = 1 /\ balance \in Funds /\ income = [r \in Inbound |-> "none"]
      /\ svm \in BOOLEAN /\ direct \in BOOLEAN
      /\ paying \in [Payment -> [kind : {"native", "token", "x402"}, status : {"executing"},
                                 result : {None}, rent : {FALSE}]]
  BY DEF Monthly!Init
<1>2. MonthlyTyped
  <2>1. \A p \in Payment : paying[p] \in Paid /\ ~paying[p].rent
    BY <1>1 DEF Paid
  <2> QED
    BY <1>1, <2>1, MonthlyConstants DEF MonthlyTyped
<1>3. EntriesTyped(journal) /\ Postings(journal) /\ EntriesFit(journal, paying, income, started)
  BY <1>1, FS_EmptySet DEF EntriesTyped, Postings, EntriesFit
<1>4. Money
  <2>1. PendingOf(journal) = {}
    BY <1>1 DEF PendingOf, RowsOf
  <2>2. AmountSum(PendingOf(journal)) = 0
    BY <2>1, AmountOfNone
  <2>3. \A p \in Payment : WaitingOf(paying)[p] = 0
    BY <1>1 DEF WaitingOf
  <2>4. SumOver(WaitingOf(paying), Payment) = 0
    BY <2>3, SumOfZeros, MonthlyConstants
  <2>5. \A r \in Inbound : income[r] # "counted"
    BY <1>1
  <2> QED
    BY <1>1, <2>2, <2>4, <2>5 DEF Money
<1>5. Work /\ Told
  BY <1>1 DEF Work, Told
<1> QED
  BY <1>2, <1>3, <1>4, <1>5 DEF MonthlyInv

\* A statement given out stays right, if what is posted is not of a month that is over.
LEMMA ToldKept ==
  ASSUME Told, month \in Nat, UNCHANGED <<answer, issued>>, month' \in Nat, month <= month',
         posting' # None => posting' = posting \/ posting'.at = month,
         journal \subseteq journal',
         \A m \in Nat : Over(m) => /\ Before(journal', m) = Before(journal, m)
                                   /\ Before(journal', m + 1) = Before(journal, m + 1)
  PROVE  Told'
<1>1. \A m \in Nat : Over(m) => Over(m)'
  BY DEF Over
<1>2. \A m \in Nat : Over(m) => /\ AmountSum(Before(journal', m)) = AmountSum(Before(journal, m))
                                /\ AmountSum(Before(journal', m + 1)) = AmountSum(Before(journal, m + 1))
  BY Zenon
<1> QED
  BY <1>1, <1>2 DEF Told

LEMMA MonthlyBegins ==
  ASSUME MonthlyInv, NEW work, WorkFits(work), Monthly!Begin(work)
  PROVE  MonthlyInv'
<1>1. /\ posting = None /\ posting' = [work |-> work, at |-> month]
      /\ UNCHANGED <<svm, direct, month, balance, paying, income, journal, started, unseen, askew, answer, issued>>
  BY DEF Monthly!Begin, Monthly!Treasury, Monthly!Chain, Monthly!Books, Monthly!Statement
<1>2. MonthlyTyped' /\ EntriesTyped(journal)' /\ Postings(journal)' /\ EntriesFit(journal, paying, income, started)'
  BY <1>1 DEF MonthlyInv, MonthlyTyped
<1>3. Money'
  BY <1>1 DEF MonthlyInv, Money, Owed
<1>4. Work'
  <2>1. posting'.at \in Nat /\ posting'.work = work
    BY <1>1 DEF MonthlyInv, MonthlyTyped
  <2>2. WorkFits(work)'
    BY <1>1 DEF WorkFits
  <2> QED
    BY <2>1, <2>2 DEF Work
<1>5. Told'
  BY <1>1, ToldKept DEF MonthlyInv, MonthlyTyped
<1> QED
  BY <1>2, <1>3, <1>4, <1>5 DEF MonthlyInv

\* Nothing but statements, time or an end without a trace.
LEMMA MonthlyRests ==
  ASSUME MonthlyInv, Told', month' \in Nat, posting' = posting \/ posting' = None,
         UNCHANGED <<svm, direct, balance, paying, income, journal, started, unseen, askew>>
  PROVE  MonthlyInv'
<1>1. MonthlyTyped' /\ EntriesTyped(journal)' /\ Postings(journal)' /\ EntriesFit(journal, paying, income, started)'
  BY DEF MonthlyInv, MonthlyTyped
<1>2. Money'
  BY DEF MonthlyInv, Money, Owed
<1>3. Work'
  BY DEF MonthlyInv, Work, WorkFits
<1> QED
  BY <1>1, <1>2, <1>3 DEF MonthlyInv

LEMMA MonthlyStutters == ASSUME MonthlyInv, UNCHANGED Monthly!vars PROVE MonthlyInv'
<1>1. UNCHANGED <<svm, direct, month, balance, paying, income, journal, started, posting, unseen, askew, answer, issued>>
  BY DEF Monthly!vars
<1>2. Told'
  BY <1>1, ToldKept DEF MonthlyInv, MonthlyTyped
<1> QED
  BY <1>1, <1>2, MonthlyRests DEF MonthlyInv, MonthlyTyped
LEMMA MonthlyRollback == ASSUME MonthlyInv, Monthly!Rollback PROVE MonthlyInv'
<1>1. /\ posting' = None
      /\ UNCHANGED <<svm, direct, month, balance, paying, income, journal, started, unseen, askew, answer, issued>>
  BY DEF Monthly!Rollback, Monthly!Treasury, Monthly!Chain, Monthly!Books, Monthly!Statement
<1>2. Told'
  BY <1>1, ToldKept DEF MonthlyInv, MonthlyTyped
<1> QED
  BY <1>1, <1>2, MonthlyRests DEF MonthlyInv, MonthlyTyped

LEMMA MonthlyTurns == ASSUME MonthlyInv, Monthly!MonthEnds PROVE MonthlyInv'
<1>1. /\ month' = month + 1 /\ month \in Nat
      /\ UNCHANGED <<svm, direct, posting, balance, paying, income, journal, started, unseen, askew, answer, issued>>
  BY DEF MonthlyInv, MonthlyTyped, Monthly!MonthEnds, Monthly!Treasury, Monthly!Chain, Monthly!Books, Monthly!Statement
<1>2. Told'
  BY <1>1, ToldKept DEF MonthlyInv
<1> QED
  BY <1>1, <1>2, MonthlyRests

-----------------------------------------------------------------------------
(* Statements read the books by the month and by what entries are called.   *)
LEMMA MonthlySum == ASSUME NEW S, IsFiniteSet(S) PROVE Monthly!Sum(S) = AmountSum(S)
BY AmountsAddUp DEF Monthly!Sum, Monthly!MapThenSumSet, Monthly!MapThenFoldSet, MapThenSumSet, MapThenFoldSet

LEMMA MonthlyCash ==
  ASSUME EntriesTyped(journal)
  PROVE  /\ Monthly!Cash = CashOf(journal)
         /\ Monthly!Of("pending_outbound") = PendingOf(journal)
         /\ Monthly!Sum(Monthly!Cash) = AmountSum(CashOf(journal))
         /\ Monthly!Sum(Monthly!Of("pending_outbound")) = AmountSum(PendingOf(journal))
<1>1. Monthly!Cash = CashOf(journal) /\ Monthly!Of("pending_outbound") = PendingOf(journal)
  BY Zenon DEF Monthly!Cash, Monthly!Of, CashOf, PendingOf, RowsOf
<1>2. IsFiniteSet(CashOf(journal)) /\ IsFiniteSet(PendingOf(journal))
  BY RowsTyped DEF CashOf, PendingOf
<1> QED
  BY <1>1, <1>2, MonthlySum

LEMMA CashTyped ==
  ASSUME EntriesTyped(journal), NEW S \in SUBSET CashOf(journal)
  PROVE  IsFiniteSet(S) /\ (\A e \in S : e.amount \in Int /\ e.at \in Nat) /\ AmountSum(S) \in Int
<1>1. IsFiniteSet(CashOf(journal)) /\ \A e \in CashOf(journal) : e.amount \in Int /\ e.at \in Nat
  BY RowsTyped DEF CashOf, RowsOf, EntriesTyped
<1>2. IsFiniteSet(S)
  BY <1>1, FS_Subset
<1> QED
  BY <1>1, <1>2, AmountType

LEMMA OpeningIs ==
  ASSUME EntriesTyped(journal), NEW m
  PROVE  Monthly!Opening(m) = AmountSum(Before(journal, m)) /\ AmountSum(Before(journal, m)) \in Int
<1>1. {e \in Monthly!Cash : e.at < m} = Before(journal, m)
  BY MonthlyCash, Zenon DEF Before
<1>2. Before(journal, m) \in SUBSET CashOf(journal)
  BY DEF Before
<1>3. IsFiniteSet(Before(journal, m)) /\ AmountSum(Before(journal, m)) \in Int
  BY <1>2, CashTyped
<1>4. Monthly!Opening(m) = Monthly!Sum(Before(journal, m))
  BY <1>1, Zenon DEF Monthly!Opening
<1> QED
  BY <1>3, <1>4, MonthlySum

LEMMA MonthlyAsks ==
  ASSUME MonthlyInv, NEW m \in 1 .. MaxMonth, Monthly!ReadOpening(m)
  PROVE  MonthlyInv'
<1>1. /\ answer' = [month |-> m, opening |-> Monthly!Opening(m), calm |-> m < month /\ (posting # None => m < posting.at)]
      /\ UNCHANGED <<svm, direct, month, posting, balance, paying, income, journal, started, unseen, askew, issued>>
  BY DEF Monthly!ReadOpening, Monthly!Treasury, Monthly!Chain, Monthly!Books
<1>2. m \in Nat
  BY MonthlyConstants
<1>3. Monthly!Opening(m) = AmountSum(Before(journal, m)) /\ AmountSum(Before(journal, m)) \in Int
  BY OpeningIs DEF MonthlyInv
<1>4. /\ answer'.month = m /\ answer'.opening = AmountSum(Before(journal, m))
      /\ answer'.calm => Over(m)
  BY <1>1, <1>3 DEF Over
<1>5. Told'
  BY <1>1, <1>2, <1>3, <1>4 DEF Told, MonthlyInv, Over
<1> QED
  BY <1>1, <1>5, MonthlyRests DEF MonthlyInv, MonthlyTyped

\* Cash is named by the other side of its posting.
LEMMA CategoryIs ==
  ASSUME Postings(journal), EntriesTyped(journal), NEW e \in CashOf(journal)
  PROVE  LET c == Monthly!Category(e)
         IN  \/ c \in {"fee", "outflow", "reversal"}
             \/ c = "inflow" /\ e.amount > 0
             \/ /\ c = "opening_balance" /\ e.amount # 0
                /\ \E f \in journal : f.code = "opening_balance" /\ f.amount = -e.amount /\ f.at = e.at
<1> DEFINE kind == e.ref[1]
<1> DEFINE codes == {f.code : f \in {g \in journal : g.ref = e.ref} \ {e}}
<1>1. e \in journal /\ e.who = "treasury" /\ e.code = "treasury_asset"
  BY DEF CashOf, RowsOf
<1>2. kind \in Kinds /\ Countered(e, kind, {f \in journal : f.ref = e.ref /\ f.at = e.at})
  BY <1>1 DEF Postings
<1>3. /\ "treasury_asset" \in CodesOf(kind)
      /\ kind = "in" => e.amount > 0
      /\ kind = "opening" => e.amount # 0
  BY <1>1, <1>2 DEF Countered
<1>4. PICK f \in journal : /\ f.ref = e.ref /\ f.at = e.at /\ f.code = CounterOf(kind)
                           /\ kind = "opening" => f.amount = -e.amount
  BY <1>1, <1>2 DEF Countered
<1>5. \A g \in journal : g.ref = e.ref => g.code \in CodesOf(kind)
  BY DEF Postings, Countered
<1>6. \A c \in codes : c \in CodesOf(kind)
  BY <1>5
<1>7. CounterOf(kind) \in codes
  <2>1. CounterOf(kind) # "treasury_asset"
    BY <1>2 DEF CounterOf, Kinds
  <2>2. f # e
    BY <1>1, <1>4, <2>1
  <2> QED
    BY <1>4, <2>2
<1>8. Monthly!Category(e) = CASE "opening_balance" \in codes -> "opening_balance"
                              [] "fee_expense" \in codes -> "fee"
                              [] "pending_outbound" \in codes -> IF e.amount < 0 THEN "outflow" ELSE "reversal"
                              [] "inbound_unallocated" \in codes -> "inflow"
                              [] OTHER -> "other"
  BY Zenon DEF Monthly!Category
<1> HIDE DEF codes, kind
<1>9. CASE kind = "opening"
  <2>1. "opening_balance" \in codes
    BY <1>7, <1>9 DEF CounterOf
  <2>2. Monthly!Category(e) = "opening_balance"
    BY <1>8, <2>1, <1>6, <1>9 DEF CodesOf
  <2>3. f.code = "opening_balance"
    BY <1>4, <1>9 DEF CounterOf
  <2> QED
    BY <1>3, <1>4, <1>9, <2>2, <2>3
<1>10. CASE kind = "fee"
  <2>1. "fee_expense" \in codes /\ "opening_balance" \notin codes /\ "pending_outbound" \notin codes
        /\ "inbound_unallocated" \notin codes
    BY <1>6, <1>7, <1>10 DEF CounterOf, CodesOf
  <2> QED
    BY <1>8, <2>1
<1>11. CASE kind = "in"
  <2>1. /\ "inbound_unallocated" \in codes /\ "opening_balance" \notin codes /\ "pending_outbound" \notin codes
        /\ "fee_expense" \notin codes
    BY <1>6, <1>7, <1>11 DEF CounterOf, CodesOf
  <2> QED
    BY <1>3, <1>8, <1>11, <2>1
<1>12. CASE kind \in {"submitted", "reversal"}
  <2>1. /\ "pending_outbound" \in codes /\ "opening_balance" \notin codes /\ "inbound_unallocated" \notin codes
        /\ "fee_expense" \notin codes
    BY <1>6, <1>7, <1>12 DEF CounterOf, CodesOf
  <2> QED
    BY <1>8, <2>1
<1>13. kind # "finalized"
  BY <1>3 DEF CodesOf
<1> QED
  BY <1>2, <1>9, <1>10, <1>11, <1>12, <1>13 DEF Kinds

\* The entries of a month, by what they are called.
InMonth(m) == {e \in CashOf(journal) : e.at = m}
Called(m, categories) == {e \in InMonth(m) : Monthly!Category(e) \in categories}
GainedIn(m) == {e \in InMonth(m) : Monthly!Category(e) \in {"inflow", "opening_balance"} /\ e.amount > 0}

LEMMA MonthsJoin ==
  ASSUME EntriesTyped(journal), NEW m \in Nat
  PROVE  /\ AmountSum(Before(journal, m + 1)) = AmountSum(Before(journal, m)) + AmountSum(InMonth(m))
         /\ AmountSum(Before(journal, m)) \in Int /\ AmountSum(InMonth(m)) \in Int
<1>1. Before(journal, m) \in SUBSET CashOf(journal) /\ InMonth(m) \in SUBSET CashOf(journal)
  BY DEF Before, InMonth
<1>2. /\ IsFiniteSet(Before(journal, m)) /\ IsFiniteSet(InMonth(m))
      /\ \A e \in Before(journal, m) \cup InMonth(m) : e.amount \in Int
      /\ AmountSum(Before(journal, m)) \in Int /\ AmountSum(InMonth(m)) \in Int
  BY <1>1, CashTyped
<1>3. \A e \in CashOf(journal) : e.at \in Nat
  BY CashTyped
<1>4. Before(journal, m) \cap InMonth(m) = {}
  BY <1>3 DEF Before, InMonth
<1>5. Before(journal, m + 1) = Before(journal, m) \cup InMonth(m)
  <2>1. \A e \in CashOf(journal) : e.at < m + 1 <=> e.at < m \/ e.at = m
    BY <1>3
  <2> QED
    BY <2>1, Zenon DEF Before, InMonth
<1>6. AmountSum(Before(journal, m) \cup InMonth(m)) = AmountSum(Before(journal, m)) + AmountSum(InMonth(m))
  BY <1>2, <1>4, AmountJoins
<1>7. AmountSum(Before(journal, m + 1)) = AmountSum(Before(journal, m) \cup InMonth(m))
  BY <1>5, Zenon
<1> QED
  BY <1>2, <1>6, <1>7

\* The totals of a month are its entries, unless its opening balance was below zero.
LEMMA TotalsAddUp ==
  ASSUME EntriesTyped(journal), Postings(journal), NEW m \in Nat,
         ~\E e \in journal : e.code = "opening_balance" /\ e.amount > 0 /\ e.at = m
  PROVE  /\ AmountSum(InMonth(m)) = (AmountSum(GainedIn(m)) + AmountSum(Called(m, {"outflow", "reversal"})))
                                    + AmountSum(Called(m, {"fee"}))
         /\ AmountSum(GainedIn(m)) \in Int /\ AmountSum(Called(m, {"outflow", "reversal"})) \in Int
         /\ AmountSum(Called(m, {"fee"})) \in Int
<1> DEFINE g == GainedIn(m)
<1> DEFINE o == Called(m, {"outflow", "reversal"})
<1> DEFINE f == Called(m, {"fee"})
<1>1. g \in SUBSET CashOf(journal) /\ o \in SUBSET CashOf(journal) /\ f \in SUBSET CashOf(journal)
  BY DEF GainedIn, Called, InMonth
<1>2. g \cap o = {} /\ (g \cup o) \cap f = {}
  BY DEF GainedIn, Called
<1>3. InMonth(m) = (g \cup o) \cup f
  <2>1. ASSUME NEW e \in InMonth(m) PROVE e \in (g \cup o) \cup f
    <3>1. e \in CashOf(journal) /\ e.at = m
      BY DEF InMonth
    <3>2. CASE Monthly!Category(e) \in {"fee", "outflow", "reversal"}
      BY <3>2 DEF Called
    <3>3. CASE Monthly!Category(e) = "inflow" /\ e.amount > 0
      BY <3>3 DEF GainedIn
    <3>4. CASE /\ Monthly!Category(e) = "opening_balance" /\ e.amount # 0
               /\ \E l \in journal : l.code = "opening_balance" /\ l.amount = -e.amount /\ l.at = e.at
      <4>1. PICK l \in journal : l.code = "opening_balance" /\ l.amount = -e.amount /\ l.at = m
        BY <3>1, <3>4
      <4>2. ~(l.amount > 0) /\ e.amount \in Int
        BY <3>1, <4>1, CashTyped
      <4>3. e.amount > 0
        BY <3>4, <4>1, <4>2
      <4> QED
        BY <3>4, <4>3 DEF GainedIn
    <3> QED
      BY <3>1, <3>2, <3>3, <3>4, CategoryIs
  <2>2. (g \cup o) \cup f \subseteq InMonth(m)
    BY DEF GainedIn, Called
  <2> QED
    BY <2>1, <2>2, Zenon
<1>4. /\ IsFiniteSet(g) /\ IsFiniteSet(o) /\ IsFiniteSet(f)
      /\ AmountSum(g) \in Int /\ AmountSum(o) \in Int /\ AmountSum(f) \in Int
      /\ (\A e \in g : e.amount \in Int) /\ (\A e \in o : e.amount \in Int) /\ (\A e \in f : e.amount \in Int)
  BY <1>1, CashTyped
<1> HIDE DEF g, o, f
<1>5. AmountSum(g \cup o) = AmountSum(g) + AmountSum(o)
  BY <1>2, <1>4, AmountJoins
<1>6. IsFiniteSet(g \cup o) /\ \A e \in (g \cup o) \cup f : e.amount \in Int
  BY <1>4, FS_Union
<1>7. AmountSum((g \cup o) \cup f) = AmountSum(g \cup o) + AmountSum(f)
  BY <1>2, <1>4, <1>6, AmountJoins
<1>8. AmountSum(InMonth(m)) = AmountSum((g \cup o) \cup f)
  BY <1>3, Zenon
<1> QED
  BY <1>4, <1>5, <1>7, <1>8 DEF g, o, f

LEMMA CalledTyped ==
  ASSUME EntriesTyped(journal), NEW m, NEW categories
  PROVE  /\ IsFiniteSet(InMonth(m)) /\ IsFiniteSet(Called(m, categories)) /\ IsFiniteSet(GainedIn(m))
         /\ AmountSum(Called(m, categories)) \in Int
<1>1. /\ InMonth(m) \in SUBSET CashOf(journal) /\ GainedIn(m) \in SUBSET CashOf(journal)
      /\ Called(m, categories) \in SUBSET CashOf(journal)
  BY DEF GainedIn, Called, InMonth
<1> QED
  BY <1>1, CashTyped

LEMMA MonthlyAnswers == ASSUME MonthlyInv, Monthly!ReadEntries PROVE MonthlyInv'
<1> DEFINE m == answer.month
<1> DEFINE lines == {e \in Monthly!Cash : e.at = m}
<1> DEFINE out == {e \in lines : Monthly!Category(e) \in {"outflow", "reversal"}}
<1> DEFINE costs == {e \in lines : Monthly!Category(e) \in {"fee"}}
<1> DEFINE gained == {e \in lines : Monthly!Category(e) \in {"inflow", "opening_balance"} /\ e.amount > 0}
<1>1. /\ answer # None
      /\ issued' = [month |-> m, calm |-> answer.calm, opening |-> answer.opening,
                    inflows |-> Monthly!Sum(gained), outflows |-> -Monthly!Sum(out), fees |-> -Monthly!Sum(costs),
                    closing |-> answer.opening + Monthly!Sum(lines)]
      /\ answer' = None
      /\ UNCHANGED <<svm, direct, month, posting, balance, paying, income, journal, started, unseen, askew>>
  BY DEF Monthly!ReadEntries, Monthly!Treasury, Monthly!Chain, Monthly!Books
<1>2. /\ EntriesTyped(journal) /\ Postings(journal)
      /\ m \in Nat /\ answer.opening \in Int
      /\ answer.calm => Over(m) /\ answer.opening = AmountSum(Before(journal, m))
  BY <1>1 DEF MonthlyInv, Told
<1>3. lines = InMonth(m)
  BY <1>2, MonthlyCash, Zenon DEF InMonth
<1>4. out = Called(m, {"outflow", "reversal"}) /\ costs = Called(m, {"fee"}) /\ gained = GainedIn(m)
  BY <1>3, Zenon DEF Called, GainedIn
<1> HIDE DEF lines, out, costs, gained
<1>5. /\ Monthly!Sum(lines) = AmountSum(InMonth(m))
      /\ Monthly!Sum(out) = AmountSum(Called(m, {"outflow", "reversal"}))
      /\ Monthly!Sum(costs) = AmountSum(Called(m, {"fee"})) /\ Monthly!Sum(gained) = AmountSum(GainedIn(m))
  <2>1. /\ IsFiniteSet(lines) /\ IsFiniteSet(out) /\ IsFiniteSet(costs) /\ IsFiniteSet(gained)
    BY <1>2, <1>3, <1>4, CalledTyped
  <2>2. /\ AmountSum(lines) = AmountSum(InMonth(m)) /\ AmountSum(gained) = AmountSum(GainedIn(m))
        /\ AmountSum(out) = AmountSum(Called(m, {"outflow", "reversal"}))
        /\ AmountSum(costs) = AmountSum(Called(m, {"fee"}))
    BY <1>3, <1>4, Zenon
  <2> QED
    BY <2>1, <2>2, MonthlySum
<1>6. /\ issued'.month = m /\ issued'.calm = answer.calm /\ issued'.opening = answer.opening
      /\ issued'.inflows = AmountSum(GainedIn(m))
      /\ issued'.outflows = -AmountSum(Called(m, {"outflow", "reversal"}))
      /\ issued'.fees = -AmountSum(Called(m, {"fee"}))
      /\ issued'.closing = answer.opening + AmountSum(InMonth(m))
  BY <1>1, <1>5
<1>7. \/ issued'.closing = issued'.opening + issued'.inflows - issued'.outflows - issued'.fees
      \/ \E e \in journal : e.code = "opening_balance" /\ e.amount > 0 /\ e.at = m
  <2> SUFFICES ASSUME ~\E e \in journal : e.code = "opening_balance" /\ e.amount > 0 /\ e.at = m
               PROVE  issued'.closing = issued'.opening + issued'.inflows - issued'.outflows - issued'.fees
    OBVIOUS
  <2> DEFINE g == AmountSum(GainedIn(m))
  <2> DEFINE o == AmountSum(Called(m, {"outflow", "reversal"}))
  <2> DEFINE f == AmountSum(Called(m, {"fee"}))
  <2>1. AmountSum(InMonth(m)) = (g + o) + f /\ g \in Int /\ o \in Int /\ f \in Int
    BY <1>2, TotalsAddUp
  <2> HIDE DEF g, o, f, m
  <2>2. answer.opening + ((g + o) + f) = answer.opening + g - (-o) - (-f)
    BY <1>2, <2>1
  <2>3. /\ issued'.opening = answer.opening /\ issued'.inflows = g /\ issued'.outflows = -o /\ issued'.fees = -f
        /\ issued'.closing = answer.opening + ((g + o) + f)
    BY <1>6, <2>1 DEF g, o, f
  <2> QED
    BY <2>2, <2>3
<1>8. issued'.calm => /\ Over(m) /\ issued'.opening = AmountSum(Before(journal, m))
                      /\ issued'.closing = AmountSum(Before(journal, m + 1))
  BY <1>2, <1>6, MonthsJoin
<1>9. Told'
  BY <1>1, <1>2, <1>6, <1>7, <1>8 DEF Told, Over
<1> QED
  BY <1>1, <1>9, MonthlyRests DEF MonthlyInv, MonthlyTyped

-----------------------------------------------------------------------------
(* The chain moves.                                                         *)
LEMMA MonthlyLands ==
  ASSUME MonthlyInv, NEW p \in Payment, NEW result \in {"ok", "reverted"}, NEW rent \in BOOLEAN,
         Monthly!Land(p, result, rent)
  PROVE  MonthlyInv'
<1> DEFINE x == paying[p]
<1> DEFINE y == [x EXCEPT !.result = result, !.rent = rent]
<1> DEFINE cost == SpentOf(y, direct)
<1>1. /\ x.result = None /\ x.status \in {"executing", "submitted"}
      /\ rent => svm /\ result = "ok"
      /\ paying' = [paying EXCEPT ![p].result = result, ![p].rent = rent]
      /\ balance' = balance - Monthly!Cost(p, result, rent)
      /\ UNCHANGED <<svm, direct, month, income, journal, started, unseen, askew, posting, answer, issued>>
  BY DEF Monthly!Land, Monthly!Treasury, Monthly!Books, Monthly!Statement
<1>2. /\ MonthlyTyped /\ paying \in [Payment -> Paid] /\ x \in Paid /\ balance \in Int
      /\ EntriesFit(journal, paying, income, started) /\ Money /\ Work
      /\ svm \in BOOLEAN /\ direct \in BOOLEAN
  BY DEF MonthlyInv, MonthlyTyped
<1>3. balance' = balance - cost
  BY <1>1, <1>2, MonthlyNames
<1>4. /\ y \in Paid /\ y.result = result /\ y.rent = rent /\ y.kind = x.kind /\ y.status = x.status
      /\ result # None
  BY <1>2, MonthlyConstants DEF Paid
<1>5. cost \in Nat
  BY <1>2, <1>4, SpentType
<1>6. /\ paying' \in [Payment -> Paid] /\ paying'[p] = y
      /\ \A q \in Payment : q # p => paying'[q] = paying[q]
  <2>1. paying' = [paying EXCEPT ![p] = y]
    BY <1>1, <1>2
  <2> HIDE DEF y
  <2> QED
    BY <2>1, <1>2, <1>4
<1> HIDE DEF x, y, cost
<1>7. \A q \in Payment : /\ paying'[q].status = paying[q].status /\ paying'[q].kind = paying[q].kind
                         /\ paying[q].result # None => paying'[q].result # None
  BY <1>1, <1>4, <1>6 DEF x
<1>8. MonthlyTyped'
  <2>1. \A q \in Payment : paying'[q].rent => svm /\ paying'[q].result = "ok"
    BY <1>1, <1>2, <1>4, <1>6 DEF MonthlyTyped
  <2>2. balance' \in Int
    BY <1>2, <1>3, <1>5
  <2> QED
    BY <1>1, <1>6, <2>1, <2>2 DEF MonthlyInv, MonthlyTyped
<1>9. EntriesFit(journal, paying, income, started)'
  <2>1. \A q \in Payment : Going(paying'[q]) = Going(paying[q])
    BY <1>7 DEF Going
  <2> QED
    BY <1>1, <1>2, <1>7, <2>1 DEF EntriesFit
<1>10. SpentOf(x, direct) = 0 /\ x = paying[p] /\ Going(x) /\ Going(y)
  BY <1>1, <1>4 DEF SpentOf, Going, x
<1>11. SumOver(DueOf(paying', direct), Payment) = SumOver(DueOf(paying, direct), Payment) + cost
  <2> DEFINE v == DueOf(paying, direct)
  <2> DEFINE w == DueOf(paying', direct)
  <2>1. \A q \in Payment : v[q] \in Int /\ w[q] \in Int
    BY <1>2, <1>6, WeightsTyped
  <2>2. v[p] = 0 /\ w[p] = cost /\ \A q \in Payment : q # p => v[q] = w[q]
    BY <1>6, <1>10 DEF DueOf, cost
  <2> HIDE DEF v, w
  <2>3. SumOver(w, Payment) = SumOver(v, Payment) + w[p] - v[p]
    BY <2>1, <2>2, SumChanges, MonthlyConstants
  <2>4. SumOver(v, Payment) \in Int
    BY <2>1, SumType, MonthlyConstants
  <2> QED
    BY <1>5, <2>2, <2>3, <2>4 DEF v, w
<1>12. SumOver(WaitingOf(paying'), Payment) = SumOver(WaitingOf(paying), Payment)
  <2> DEFINE v == WaitingOf(paying)
  <2> DEFINE w == WaitingOf(paying')
  <2>1. \A q \in Payment : w[q] = v[q]
    BY <1>7 DEF WaitingOf, NativeOf
  <2> HIDE DEF v, w
  <2> QED
    BY <2>1, SumSame, MonthlyConstants DEF v, w
<1>13. ASSUME NEW before \in SUBSET Payment, p \notin before
       PROVE  SumOver(SinceOf(paying', direct, before), Payment) = SumOver(SinceOf(paying, direct, before), Payment) + cost
  <2> DEFINE v == SinceOf(paying, direct, before)
  <2> DEFINE w == SinceOf(paying', direct, before)
  <2>1. \A q \in Payment : v[q] \in Int /\ w[q] \in Int
    BY <1>2, <1>6, WeightsTyped
  <2>2. v[p] = 0 /\ w[p] = cost /\ \A q \in Payment : q # p => v[q] = w[q]
    BY <1>6, <1>10, <1>13 DEF SinceOf, cost
  <2> HIDE DEF v, w
  <2>3. SumOver(w, Payment) = SumOver(v, Payment) + w[p] - v[p]
    BY <2>1, <2>2, SumChanges, MonthlyConstants
  <2>4. SumOver(v, Payment) \in Int
    BY <2>1, SumType, MonthlyConstants
  <2> QED
    BY <1>5, <2>2, <2>3, <2>4 DEF v, w
<1>14. /\ SumOver(DueOf(paying, direct), Payment) \in Int
       /\ \A before : SumOver(SinceOf(paying, direct, before), Payment) \in Int
       /\ Cardinality(Landed(income)) \in Nat
       /\ \A within : Cardinality(Beyond(income, within)) \in Nat
  BY <1>2, OwesWhole
<1>15. Owed' = Owed
  <2>1. Owed' = balance' + SumOver(DueOf(paying', direct), Payment) - Cardinality(Landed(income))
    BY <1>1 DEF Owed
  <2> DEFINE d == SumOver(DueOf(paying, direct), Payment)
  <2> DEFINE c == Cardinality(Landed(income))
  <2>2. Owed = balance + d - c /\ d \in Int /\ c \in Int
    BY <1>14 DEF Owed
  <2>3. Owed' = (balance - cost) + (d + cost) - c
    BY <2>1, <1>3, <1>11
  <2> HIDE DEF d, c
  <2> QED
    BY <1>2, <1>5, <2>2, <2>3
<1>16. Money'
  BY <1>1, <1>2, <1>12, <1>15 DEF Money
<1>17. Work'
  <2> SUFFICES ASSUME posting # None PROVE posting.at \in Nat /\ WorkFits(posting.work)'
    BY <1>1 DEF Work
  <2> DEFINE work == posting.work
  <2>1. posting.at \in Nat /\ WorkFits(work)
    BY <1>2 DEF Work
  <2>2. /\ work.of = "submit" => work.payment \in Payment /\ paying'[work.payment].status = "executing"
        /\ work.of = "confirm" =>
             /\ work.payment \in Payment /\ paying'[work.payment].status = "submitted"
             /\ paying'[work.payment].result # None /\ (work.seen \/ svm) /\ work.seen \in BOOLEAN
        /\ work.of = "book" => work.receipt \in Inbound /\ income[work.receipt] = "landed"
    BY <2>1, <1>7 DEF WorkFits
  <2>3. ASSUME work.of = "open"
        PROVE  /\ ~started
               /\ work.within \subseteq Inbound /\ \A r \in work.within : income[r] # "none"
               /\ work.paid \subseteq Payment /\ \A q \in work.paid : paying'[q].result # None
               /\ work.balance = balance' + SumOver(SinceOf(paying', direct, work.paid), Payment)
                                          - Cardinality(Beyond(income, work.within))
    <3>1. /\ ~started
          /\ work.within \subseteq Inbound /\ \A r \in work.within : income[r] # "none"
          /\ work.paid \subseteq Payment /\ \A q \in work.paid : paying[q].result # None
          /\ work.balance = balance + SumOver(SinceOf(paying, direct, work.paid), Payment)
                                    - Cardinality(Beyond(income, work.within))
      BY <2>1, <2>3 DEF WorkFits
    <3>2. p \notin work.paid
      BY <3>1, <1>1 DEF x
    <3> DEFINE s == SumOver(SinceOf(paying, direct, work.paid), Payment)
    <3> DEFINE c == Cardinality(Beyond(income, work.within))
    <3>3. SumOver(SinceOf(paying', direct, work.paid), Payment) = s + cost
      BY <1>13, <3>1, <3>2
    <3>4. s \in Int /\ c \in Int /\ work.balance = balance + s - c
      BY <1>14, <3>1
    <3> HIDE DEF s, c, work
    <3>5. work.balance = (balance - cost) + (s + cost) - c
      BY <3>4, <1>2, <1>5
    <3> QED
      BY <3>1, <3>3, <3>5, <1>3, <1>7 DEF s, c
  <2> QED
    BY <1>1, <2>1, <2>2, <2>3 DEF WorkFits
<1>18. Told'
  BY <1>1, ToldKept DEF MonthlyInv, MonthlyTyped
<1> QED
  BY <1>1, <1>8, <1>9, <1>16, <1>17, <1>18 DEF MonthlyInv

LEMMA MonthlyArrives ==
  ASSUME MonthlyInv, NEW r \in Inbound, Monthly!Arrive(r)
  PROVE  MonthlyInv'
<1>1. /\ income[r] = "none" /\ income' = [income EXCEPT ![r] = "landed"] /\ balance' = balance + 1
      /\ UNCHANGED <<svm, direct, month, paying, journal, started, unseen, askew, posting, answer, issued>>
  BY DEF Monthly!Arrive, Monthly!Treasury, Monthly!Books, Monthly!Statement
<1>2. /\ MonthlyTyped /\ income \in [Inbound -> {"none", "landed", "booked", "counted"}] /\ balance \in Int
      /\ EntriesFit(journal, paying, income, started) /\ Money /\ Work
  BY DEF MonthlyInv, MonthlyTyped
<1>3. /\ income' \in [Inbound -> {"none", "landed", "booked", "counted"}] /\ income'[r] = "landed"
      /\ \A s \in Inbound : s # r => income'[s] = income[s]
  BY <1>1, <1>2
<1>4. MonthlyTyped'
  BY <1>1, <1>2, <1>3 DEF MonthlyTyped
<1>5. EntriesFit(journal, paying, income, started)'
  <2>1. \A s \in Inbound : income[s] = "booked" => income'[s] = "booked"
    BY <1>1, <1>3
  <2> QED
    BY <1>1, <1>2, <2>1 DEF EntriesFit
<1>6. /\ SumOver(DueOf(paying, direct), Payment) \in Int
      /\ \A before : SumOver(SinceOf(paying, direct, before), Payment) \in Int
      /\ IsFiniteSet(Landed(income)) /\ Cardinality(Landed(income)) \in Nat
      /\ \A within : IsFiniteSet(Beyond(income, within)) /\ Cardinality(Beyond(income, within)) \in Nat
  BY <1>2, OwesWhole
<1>7. Cardinality(Landed(income')) = Cardinality(Landed(income)) + 1
  <2>1. r \notin Landed(income) /\ Landed(income') = Landed(income) \cup {r}
    BY <1>1, <1>3 DEF Landed
  <2>2. Cardinality(Landed(income) \cup {r}) = Cardinality(Landed(income)) + 1
    BY <1>6, <2>1, FS_AddElement
  <2> QED
    BY <2>1, <2>2, Zenon
<1>8. ASSUME NEW within, r \notin within
      PROVE  Cardinality(Beyond(income', within)) = Cardinality(Beyond(income, within)) + 1
  <2>1. r \notin Beyond(income, within) /\ Beyond(income', within) = Beyond(income, within) \cup {r}
    BY <1>1, <1>3, <1>8 DEF Beyond
  <2>2. Cardinality(Beyond(income, within) \cup {r}) = Cardinality(Beyond(income, within)) + 1
    BY <1>6, <2>1, FS_AddElement
  <2> QED
    BY <2>1, <2>2, Zenon
<1>9. Owed' = Owed
  <2> DEFINE d == SumOver(DueOf(paying, direct), Payment)
  <2> DEFINE c == Cardinality(Landed(income))
  <2>1. Owed' = balance' + d - Cardinality(Landed(income')) /\ Owed = balance + d - c
    BY <1>1 DEF Owed
  <2>2. d \in Int /\ c \in Int
    BY <1>6
  <2>3. Owed' = (balance + 1) + d - (c + 1)
    BY <1>1, <1>7, <2>1
  <2> HIDE DEF d, c
  <2> QED
    BY <1>2, <2>1, <2>2, <2>3
<1>10. Money'
  BY <1>1, <1>2, <1>3, <1>9 DEF Money
<1>11. Work'
  <2> SUFFICES ASSUME posting # None PROVE posting.at \in Nat /\ WorkFits(posting.work)'
    BY <1>1 DEF Work
  <2> DEFINE work == posting.work
  <2>1. posting.at \in Nat /\ WorkFits(work)
    BY <1>2 DEF Work
  <2>2. ASSUME work.of = "open"
        PROVE  /\ work.within \subseteq Inbound /\ \A s \in work.within : income'[s] # "none"
               /\ work.balance = balance' + SumOver(SinceOf(paying, direct, work.paid), Payment)
                                          - Cardinality(Beyond(income', work.within))
    <3>1. /\ work.within \subseteq Inbound /\ \A s \in work.within : income[s] # "none"
          /\ work.balance = balance + SumOver(SinceOf(paying, direct, work.paid), Payment)
                                    - Cardinality(Beyond(income, work.within))
      BY <2>1, <2>2 DEF WorkFits
    <3>2. r \notin work.within
      BY <3>1, <1>1
    <3> DEFINE s == SumOver(SinceOf(paying, direct, work.paid), Payment)
    <3> DEFINE c == Cardinality(Beyond(income, work.within))
    <3>3. Cardinality(Beyond(income', work.within)) = c + 1
      BY <1>8, <3>2
    <3>4. s \in Int /\ c \in Int /\ work.balance = balance + s - c
      BY <1>6, <3>1
    <3> HIDE DEF s, c, work
    <3>5. work.balance = (balance + 1) + s - (c + 1)
      BY <3>4, <1>2
    <3> QED
      BY <3>1, <3>2, <3>3, <3>5, <1>1, <1>3 DEF s, c
  <2>3. work.of = "book" => work.receipt \in Inbound /\ income'[work.receipt] = "landed"
    BY <2>1, <1>1, <1>3 DEF WorkFits
  <2> QED
    BY <1>1, <2>1, <2>2, <2>3 DEF WorkFits
<1>12. Told'
  BY <1>1, ToldKept DEF MonthlyInv, MonthlyTyped
<1> QED
  BY <1>1, <1>4, <1>5, <1>10, <1>11, <1>12 DEF MonthlyInv

-----------------------------------------------------------------------------
(* Transactions begin.                                                      *)
LEMMA MonthlyCardinality == ASSUME NEW S PROVE Monthly!Cardinality(S) = Cardinality(S)
BY DEF Monthly!Cardinality, Cardinality

LEMMA MonthlySubmits == ASSUME MonthlyInv, NEW p \in Payment, Monthly!BeginSubmit(p) PROVE MonthlyInv'
<1> DEFINE work == [of |-> "submit", payment |-> p]
<1>1. paying[p].status = "executing" /\ Monthly!Begin(work)
  BY DEF Monthly!BeginSubmit
<1>2. WorkFits(work)
  BY <1>1 DEF WorkFits
<1> QED
  BY <1>1, <1>2, MonthlyBegins

LEMMA MonthlyConfirms == ASSUME MonthlyInv, NEW p \in Payment, Monthly!BeginConfirm(p) PROVE MonthlyInv'
<1>1. PICK seen \in {TRUE, ~svm} : Monthly!Begin([of |-> "confirm", payment |-> p, seen |-> seen])
  BY DEF Monthly!BeginConfirm
<1> DEFINE work == [of |-> "confirm", payment |-> p, seen |-> seen]
<1>2. paying[p].status = "submitted" /\ paying[p].result # None /\ svm \in BOOLEAN
  BY DEF Monthly!BeginConfirm, MonthlyInv, MonthlyTyped
<1>3. work.seen \in BOOLEAN /\ (work.seen \/ svm)
  BY <1>2
<1>4. WorkFits(work)
  BY <1>2, <1>3 DEF WorkFits
<1> QED
  BY <1>1, <1>4, MonthlyBegins

LEMMA MonthlyBooks == ASSUME MonthlyInv, NEW r \in Inbound, Monthly!BeginBook(r) PROVE MonthlyInv'
<1> DEFINE work == [of |-> "book", receipt |-> r]
<1>1. income[r] = "landed" /\ Monthly!Begin(work)
  BY DEF Monthly!BeginBook
<1>2. WorkFits(work)
  BY <1>1 DEF WorkFits
<1> QED
  BY <1>1, <1>2, MonthlyBegins

LEMMA MonthlyOpens == ASSUME MonthlyInv, Monthly!BeginOpen PROVE MonthlyInv'
<1> DEFINE before == {p \in Payment : paying[p].result # None}
<1>1. PICK within \in SUBSET {r \in Inbound : income[r] # "none"} :
        Monthly!Begin([of |-> "open", within |-> within, paid |-> before,
                       balance |-> balance - Monthly!Cardinality({r \in Inbound \ within : income[r] # "none"})])
  BY Zenon DEF Monthly!BeginOpen
<1> DEFINE read == balance - Monthly!Cardinality({r \in Inbound \ within : income[r] # "none"})
<1> DEFINE work == [of |-> "open", within |-> within, paid |-> before, balance |-> read]
<1>2. ~started
  BY DEF Monthly!BeginOpen
<1>3. read = balance - Cardinality(Beyond(income, within))
  BY MonthlyCardinality, Zenon DEF Beyond
<1>4. SumOver(SinceOf(paying, direct, before), Payment) = 0
  <2>1. \A p \in Payment : SinceOf(paying, direct, before)[p] = 0
    BY DEF SinceOf, SpentOf
  <2> QED
    BY <2>1, SumOfZeros, MonthlyConstants
<1>5. balance \in Int /\ Cardinality(Beyond(income, within)) \in Nat
  BY OwesWhole DEF MonthlyInv, MonthlyTyped
<1>6. before \subseteq Payment /\ \A p \in before : paying[p].result # None
  OBVIOUS
<1> HIDE DEF before, read
<1>7. work.of = "open" /\ work.within = within /\ work.paid = before /\ work.balance = read
  OBVIOUS
<1> HIDE DEF work
<1>8. work.balance = balance + SumOver(SinceOf(paying, direct, work.paid), Payment)
                             - Cardinality(Beyond(income, work.within))
  <2>1. SumOver(SinceOf(paying, direct, work.paid), Payment) = 0 /\ Beyond(income, work.within) = Beyond(income, within)
    BY <1>4, <1>7
  <2> QED
    BY <1>3, <1>5, <1>7, <2>1
<1>9. WorkFits(work)
  BY <1>2, <1>6, <1>7, <1>8 DEF WorkFits
<1>10. Monthly!Begin(work)
  BY <1>1 DEF work, read
<1> QED
  BY <1>9, <1>10, MonthlyBegins

-----------------------------------------------------------------------------
(* Transactions commit.                                                     *)

\* What each posting does to the invariant, but for what is owed.
LEMMA CommitKeeps ==
  ASSUME MonthlyInv, posting # None, posting' = None,
         UNCHANGED <<svm, direct, month, balance, answer, issued>>,
         NEW entries, EntriesTyped(entries), Postings(entries), journal \subseteq entries,
         \A m \in Nat : m <= posting.at => Before(entries, m) = Before(journal, m),
         journal' = entries, MonthlyTyped', EntriesFit(entries, paying', income', started'), Money'
  PROVE  MonthlyInv'
<1>1. month \in Nat /\ posting.at \in Nat /\ Told
  BY DEF MonthlyInv, MonthlyTyped, Work
<1>2. ASSUME NEW m \in Nat, Over(m)
      PROVE  Before(journal', m) = Before(journal, m) /\ Before(journal', m + 1) = Before(journal, m + 1)
  <2>1. m + 1 \in Nat /\ m <= posting.at /\ m + 1 <= posting.at
    BY <1>1, <1>2 DEF Over
  <2> QED
    BY <2>1
<1>3. Told'
  BY <1>1, <1>2, ToldKept
<1>4. Work'
  BY DEF Work
<1> QED
  BY <1>3, <1>4 DEF MonthlyInv

LEMMA PostGood ==
  ASSUME NEW entries, EntriesTyped(entries), Postings(entries), NEW ref, Unposted(entries, ref), ref[1] \in Kinds,
         NEW lines, LinesFit(lines, ref[1]), posting.at \in Nat
  PROVE  LET new == Monthly!Post(entries, ref, lines)
         IN  /\ EntriesTyped(new) /\ Postings(new) /\ entries \subseteq new
             /\ \A e \in new : e \in entries \/ e.ref = ref
             /\ \A m \in Nat : m <= posting.at => Before(new, m) = Before(entries, m)
             /\ \A code : \A n \in Int :
                  Moves(lines, code, n) => AmountSum(RowsOf(new, code)) = AmountSum(RowsOf(entries, code)) + n
<1> DEFINE new == Monthly!Post(entries, ref, lines)
<1>1. new = Posted(entries, ref, posting.at, lines)
  BY PostIs
<1>2. LinesTyped(lines)
  BY DEF LinesFit
<1> HIDE DEF new
<1>3. EntriesTyped(new) /\ Postings(new)
  BY <1>1, <1>2, PostedTyped, PostedPostings
<1>4. entries \subseteq new /\ \A e \in new : e \in entries \/ e.ref = ref
  BY <1>1 DEF Posted, EntryOf
<1>5. ASSUME NEW m \in Nat, m <= posting.at PROVE Before(new, m) = Before(entries, m)
  <2>1. m \in Int /\ posting.at \in Int
    OBVIOUS
  <2> QED
    BY <1>1, <1>5, <2>1, PostedBefore
<1>6. ASSUME NEW code, NEW n \in Int, Moves(lines, code, n)
      PROVE  AmountSum(RowsOf(new, code)) = AmountSum(RowsOf(entries, code)) + n
  BY <1>1, <1>2, <1>6, PostedSum
<1> QED
  BY <1>3, <1>4, <1>5, <1>6 DEF new

LEMMA CommitFrame ==
  ASSUME MonthlyInv, Monthly!Commit
  PROVE  /\ posting # None /\ posting.at \in Nat /\ WorkFits(posting.work) /\ posting' = None
         /\ UNCHANGED <<svm, direct, month, balance, answer, issued>>
         /\ Monthly!MarkSubmitted \/ Monthly!MarkEnded \/ Monthly!RecordInflow \/ Monthly!OpenCursor
BY DEF Monthly!Commit, MonthlyInv, Work, Monthly!Treasury, Monthly!Statement

\* One payment's status changes.
LEMMA StatusMoves ==
  ASSUME MonthlyTyped, NEW p \in Payment, NEW to \in {"submitted", "finalized", "failed"},
         paying' = [paying EXCEPT ![p].status = to]
  PROVE  /\ paying' \in [Payment -> Paid] /\ paying'[p].status = to
         /\ \A q \in Payment : /\ q # p => paying'[q] = paying[q]
                               /\ SpentOf(paying'[q], direct) = SpentOf(paying[q], direct)
                               /\ NativeOf(paying'[q]) = NativeOf(paying[q])
                               /\ paying'[q].rent = paying[q].rent /\ paying'[q].result = paying[q].result
<1> DEFINE y == [paying[p] EXCEPT !.status = to]
<1>1. paying \in [Payment -> Paid] /\ paying[p] \in Paid
  BY DEF MonthlyTyped
<1>2. /\ y \in Paid /\ y.status = to /\ y.kind = paying[p].kind /\ y.result = paying[p].result
      /\ y.rent = paying[p].rent
  BY <1>1 DEF Paid
<1>3. paying' = [paying EXCEPT ![p] = y]
  BY <1>1
<1> HIDE DEF y
<1>4. paying' \in [Payment -> Paid] /\ paying'[p] = y /\ \A q \in Payment : q # p => paying'[q] = paying[q]
  BY <1>1, <1>2, <1>3
<1> QED
  BY <1>2, <1>4 DEF SpentOf, NativeOf

LEMMA MonthlyMarksSubmitted == ASSUME MonthlyInv, Monthly!Commit, Monthly!MarkSubmitted PROVE MonthlyInv'
<1> DEFINE p == posting.work.payment
<1> DEFINE n == NativeOf(paying[p])
<1> DEFINE lines == Monthly!Pair("treasury", "pending_outbound", "treasury_asset", n)
<1> DEFINE new == Monthly!Post(journal, <<"submitted", p>>, lines)
<1>1. /\ posting # None /\ posting.at \in Nat /\ WorkFits(posting.work) /\ posting' = None
      /\ UNCHANGED <<svm, direct, month, balance, answer, issued>>
  BY CommitFrame
<1>2. /\ posting.work.of = "submit" /\ paying' = [paying EXCEPT ![p].status = "submitted"]
      /\ journal' = Monthly!Post(journal, <<"submitted", p>>,
                                 Monthly!Pair("treasury", "pending_outbound", "treasury_asset", Monthly!Native(p)))
      /\ UNCHANGED <<income, started, unseen, askew>>
  BY Zenon DEF Monthly!MarkSubmitted
<1>3. p \in Payment /\ paying[p].status = "executing"
  BY <1>1, <1>2 DEF WorkFits
<1>4. /\ MonthlyTyped /\ EntriesTyped(journal) /\ Postings(journal) /\ Money
      /\ EntriesFit(journal, paying, income, started) /\ paying \in [Payment -> Paid] /\ paying[p] \in Paid
      /\ direct \in BOOLEAN
  BY <1>3 DEF MonthlyInv, MonthlyTyped
<1>5. Monthly!Native(p) = n /\ n \in Nat
  BY <1>3, <1>4, MonthlyNames, SpentType
<1>6. journal' = new
  BY <1>2, <1>5
<1> HIDE DEF p
<1>7. /\ paying' \in [Payment -> Paid] /\ paying'[p].status = "submitted"
      /\ \A q \in Payment : /\ q # p => paying'[q] = paying[q]
                            /\ SpentOf(paying'[q], direct) = SpentOf(paying[q], direct)
                            /\ NativeOf(paying'[q]) = NativeOf(paying[q])
                            /\ paying'[q].rent = paying[q].rent /\ paying'[q].result = paying[q].result
  BY <1>2, <1>3, <1>4, StatusMoves
<1> HIDE DEF n
<1>8. LinesFit(lines, "submitted") /\ Moves(lines, "pending_outbound", n) /\ Moves(lines, "treasury_asset", -n)
  BY <1>5, PairFits, PairMoves DEF CodesOf, CounterOf
<1> HIDE DEF lines
<1>9. Unposted(journal, <<"submitted", p>>) /\ <<"submitted", p>>[1] = "submitted" /\ "submitted" \in Kinds
  BY <1>3, <1>4 DEF Unposted, EntriesFit, Kinds
<1>10. /\ EntriesTyped(new) /\ Postings(new) /\ journal \subseteq new
       /\ \A e \in new : e \in journal \/ e.ref = <<"submitted", p>>
       /\ \A m \in Nat : m <= posting.at => Before(new, m) = Before(journal, m)
       /\ \A code : \A k \in Int :
            Moves(lines, code, k) => AmountSum(RowsOf(new, code)) = AmountSum(RowsOf(journal, code)) + k
  BY <1>1, <1>4, <1>8, <1>9, PostGood
<1> HIDE DEF new
<1>11. /\ AmountSum(PendingOf(new)) = AmountSum(PendingOf(journal)) + n
       /\ AmountSum(CashOf(new)) = AmountSum(CashOf(journal)) - n
       /\ AmountSum(PendingOf(journal)) \in Int /\ AmountSum(CashOf(journal)) \in Int
  <2>1. -n \in Int /\ n \in Int
    BY <1>5
  <2>2. /\ AmountSum(RowsOf(new, "pending_outbound")) = AmountSum(RowsOf(journal, "pending_outbound")) + n
        /\ AmountSum(RowsOf(new, "treasury_asset")) = AmountSum(RowsOf(journal, "treasury_asset")) + (-n)
    BY <1>8, <1>10, <2>1
  <2>3. AmountSum(RowsOf(journal, "pending_outbound")) \in Int /\ AmountSum(RowsOf(journal, "treasury_asset")) \in Int
    BY <1>4, RowsTyped
  <2> QED
    BY <2>1, <2>2, <2>3 DEF PendingOf, CashOf
<1>12. MonthlyTyped'
  BY <1>1, <1>2, <1>4, <1>7 DEF MonthlyTyped
<1>13. EntriesFit(new, paying', income', started')
  <2>1. \A q \in Payment : /\ paying[q].status # "executing" => paying'[q].status # "executing"
                           /\ ~Going(paying[q]) => ~Going(paying'[q])
    BY <1>3, <1>7 DEF Going
  <2> SUFFICES ASSUME NEW e \in new
               PROVE  /\ \A q \in Payment :
                           /\ e.ref[1] = "submitted" /\ e.ref[2] = q => paying'[q].status # "executing"
                           /\ e.ref[1] \in {"finalized", "reversal", "fee"} /\ e.ref[2] = q => ~Going(paying'[q])
                      /\ \A r \in Inbound : e.ref[1] = "in" /\ e.ref[2] = r => income[r] = "booked"
                      /\ e.ref[1] = "opening" => started
    BY <1>2 DEF EntriesFit
  <2>2. CASE e \in journal
    BY <1>4, <2>1, <2>2 DEF EntriesFit
  <2>3. CASE e.ref = <<"submitted", p>>
    <3>1. e.ref[1] = "submitted" /\ e.ref[2] = p
      BY <2>3
    <3> QED
      BY <1>7, <3>1
  <2> QED
    BY <1>10, <2>2, <2>3
<1>14. SumOver(DueOf(paying', direct), Payment) = SumOver(DueOf(paying, direct), Payment)
  <2> DEFINE v == DueOf(paying, direct)
  <2> DEFINE w == DueOf(paying', direct)
  <2>1. \A q \in Payment : w[q] = v[q]
    BY <1>3, <1>7 DEF DueOf, Going
  <2> HIDE DEF v, w
  <2> QED
    BY <2>1, SumSame, MonthlyConstants DEF v, w
<1>15. SumOver(WaitingOf(paying'), Payment) = SumOver(WaitingOf(paying), Payment) + n
  <2> DEFINE v == WaitingOf(paying)
  <2> DEFINE w == WaitingOf(paying')
  <2>1. \A q \in Payment : v[q] \in Int /\ w[q] \in Int
    BY <1>4, <1>7, WeightsTyped
  <2>2. v[p] = 0 /\ w[p] = n /\ \A q \in Payment : q # p => v[q] = w[q]
    BY <1>3, <1>7 DEF WaitingOf, n
  <2> HIDE DEF v, w
  <2>3. SumOver(w, Payment) = SumOver(v, Payment) + w[p] - v[p]
    BY <1>3, <2>1, <2>2, SumChanges, MonthlyConstants
  <2>4. SumOver(v, Payment) \in Int
    BY <2>1, SumType, MonthlyConstants
  <2> QED
    BY <1>5, <2>2, <2>3, <2>4 DEF v, w
<1>16. Money'
  <2>1. Owed' = Owed
    BY <1>1, <1>2, <1>14 DEF Owed
  <2>2. AmountSum(PendingOf(new)) = SumOver(WaitingOf(paying'), Payment)
    BY <1>4, <1>11, <1>15 DEF Money
  <2>3. AmountSum(CashOf(new)) + AmountSum(PendingOf(new)) = AmountSum(CashOf(journal)) + AmountSum(PendingOf(journal))
    BY <1>5, <1>11
  <2> QED
    BY <1>2, <1>4, <1>6, <2>1, <2>2, <2>3 DEF Money
<1> QED
  BY <1>1, <1>6, <1>10, <1>12, <1>13, <1>16, CommitKeeps

\* The end of a payment: what was pending becomes an expense or comes back.
EndKind(ok) == IF ok THEN "finalized" ELSE "reversal"
EndLines(ok, n) == IF ok THEN Monthly!Pair("treasury", "settled_expense", "pending_outbound", n)
                   ELSE Monthly!Pair("treasury", "treasury_asset", "pending_outbound", n)
LEMMA EndsFit ==
  ASSUME NEW n \in Nat, NEW ok \in BOOLEAN
  PROVE  /\ LinesFit(EndLines(ok, n), EndKind(ok)) /\ EndKind(ok) \in Kinds
         /\ Moves(EndLines(ok, n), "pending_outbound", -n)
         /\ Moves(EndLines(ok, n), "treasury_asset", IF ok THEN 0 ELSE n)
<1>1. CASE ok
  <2> DEFINE lines == Monthly!Pair("treasury", "settled_expense", "pending_outbound", n)
  <2>1. LinesFit(lines, "finalized") /\ Moves(lines, "pending_outbound", -n) /\ Moves(lines, "treasury_asset", 0)
    BY PairFits, PairMoves DEF CodesOf, CounterOf
  <2>2. EndLines(ok, n) = lines /\ EndKind(ok) = "finalized"
    BY <1>1, Zenon DEF EndLines, EndKind
  <2> HIDE DEF lines
  <2> QED
    BY <1>1, <2>1, <2>2 DEF Kinds
<1>2. CASE ~ok
  <2> DEFINE lines == Monthly!Pair("treasury", "treasury_asset", "pending_outbound", n)
  <2>1. LinesFit(lines, "reversal") /\ Moves(lines, "pending_outbound", -n) /\ Moves(lines, "treasury_asset", n)
    BY PairFits, PairMoves DEF CodesOf, CounterOf
  <2>2. EndLines(ok, n) = lines /\ EndKind(ok) = "reversal"
    BY <1>2, Zenon DEF EndLines, EndKind
  <2> HIDE DEF lines
  <2> QED
    BY <1>2, <2>1, <2>2 DEF Kinds
<1> QED
  BY <1>1, <1>2

LEMMA MonthlyMarksEnded == ASSUME MonthlyInv, Monthly!Commit, Monthly!MarkEnded PROVE MonthlyInv'
<1> DEFINE p == posting.work.payment
<1> DEFINE seen == posting.work.seen
<1> DEFINE n == NativeOf(paying[p])
<1> DEFINE s == SpentOf(paying[p], direct)
<1> DEFINE ok == paying[p].result = "ok"
<1> DEFINE moved == IF ok THEN n ELSE 0
<1> DEFINE back == IF ok THEN 0 ELSE n
<1> DEFINE mid == Monthly!Post(journal, <<EndKind(ok), p>>, EndLines(ok, n))
<1> DEFINE costs == Monthly!CostLines(p, seen)
<1> DEFINE new == Monthly!Post(mid, <<"fee", p>>, costs)
<1>1. /\ posting # None /\ posting.at \in Nat /\ WorkFits(posting.work) /\ posting' = None
      /\ UNCHANGED <<svm, direct, month, balance, answer, issued>>
  BY CommitFrame
<1>2. /\ posting.work.of = "confirm"
      /\ paying' = [paying EXCEPT ![p].status = IF ok THEN "finalized" ELSE "failed"]
      /\ journal' = Monthly!Post(
           IF ok THEN Monthly!Post(journal, <<"finalized", p>>,
                                   Monthly!Pair("treasury", "settled_expense", "pending_outbound", Monthly!Native(p)))
           ELSE Monthly!Post(journal, <<"reversal", p>>,
                             Monthly!Pair("treasury", "treasury_asset", "pending_outbound", Monthly!Native(p))),
           <<"fee", p>>, costs)
      /\ unseen' = IF seen THEN unseen ELSE unseen \cup {p}
      /\ UNCHANGED <<income, started, askew>>
  BY Zenon DEF Monthly!MarkEnded
<1>3. /\ p \in Payment /\ paying[p].status = "submitted" /\ paying[p].result # None
      /\ (seen \/ svm) /\ seen \in BOOLEAN
  BY <1>1, <1>2 DEF WorkFits
<1>4. /\ MonthlyTyped /\ EntriesTyped(journal) /\ Postings(journal) /\ Money
      /\ EntriesFit(journal, paying, income, started) /\ paying \in [Payment -> Paid] /\ paying[p] \in Paid
      /\ direct \in BOOLEAN
  BY <1>3 DEF MonthlyInv, MonthlyTyped
<1>5. Monthly!Native(p) = n /\ n \in Nat /\ s \in Nat /\ moved \in Nat /\ back \in Nat /\ ok \in BOOLEAN
  BY <1>3, <1>4, MonthlyNames, SpentType
<1>6. journal' = new
  BY <1>2, <1>5, Zenon DEF EndKind, EndLines
<1> HIDE DEF p, seen
<1>7. /\ paying' \in [Payment -> Paid] /\ paying'[p].status \in {"finalized", "failed"}
      /\ \A q \in Payment : /\ q # p => paying'[q] = paying[q]
                            /\ SpentOf(paying'[q], direct) = SpentOf(paying[q], direct)
                            /\ NativeOf(paying'[q]) = NativeOf(paying[q])
                            /\ paying'[q].rent = paying[q].rent /\ paying'[q].result = paying[q].result
  <2> DEFINE to == IF ok THEN "finalized" ELSE "failed"
  <2>1. to \in {"submitted", "finalized", "failed"} /\ paying' = [paying EXCEPT ![p].status = to]
    BY <1>2
  <2>2. to \in {"finalized", "failed"}
    OBVIOUS
  <2> HIDE DEF to
  <2> QED
    BY <2>1, <2>2, <1>3, <1>4, StatusMoves
<1>8. /\ LinesFit(EndLines(ok, n), EndKind(ok)) /\ EndKind(ok) \in {"finalized", "reversal"} /\ EndKind(ok) \in Kinds
      /\ Moves(EndLines(ok, n), "pending_outbound", -n) /\ Moves(EndLines(ok, n), "treasury_asset", back)
  BY <1>5, EndsFit DEF EndKind
<1>9. PICK t \in Nat : /\ LinesFit(costs, "fee") /\ Moves(costs, "pending_outbound", 0)
                       /\ Moves(costs, "treasury_asset", 0 - t)
                       /\ seen => t = s - moved
  BY <1>3, <1>4, CostsLines
<1> DEFINE kind == EndKind(ok)
<1> DEFINE lines == EndLines(ok, n)
<1>10. Unposted(journal, <<kind, p>>) /\ Unposted(journal, <<"fee", p>>)
  <2>1. Going(paying[p])
    BY <1>3 DEF Going
  <2>2. \A e \in journal : e.ref[1] \in {"finalized", "reversal", "fee"} => e.ref[2] # p
    BY <1>3, <1>4, <2>1 DEF EntriesFit
  <2>3. \A k : <<k, p>>[1] = k /\ <<k, p>>[2] = p
    OBVIOUS
  <2> QED
    BY <1>8, <2>2, <2>3 DEF Unposted
<1> HIDE DEF kind, lines, n, s, costs
<1>11. mid = Monthly!Post(journal, <<kind, p>>, lines)
  BY DEF kind, lines
<1>12. kind \in {"finalized", "reversal"} /\ kind \in Kinds /\ LinesFit(lines, kind)
       /\ Moves(lines, "pending_outbound", -n) /\ Moves(lines, "treasury_asset", back)
  BY <1>8 DEF kind, lines
<1> HIDE DEF mid, ok, back, moved
<1>13. /\ EntriesTyped(mid) /\ Postings(mid) /\ journal \subseteq mid
       /\ \A e \in mid : e \in journal \/ e.ref = <<kind, p>>
       /\ \A m \in Nat : m <= posting.at => Before(mid, m) = Before(journal, m)
       /\ \A code : \A k \in Int :
            Moves(lines, code, k) => AmountSum(RowsOf(mid, code)) = AmountSum(RowsOf(journal, code)) + k
  <2>1. <<kind, p>>[1] = kind
    OBVIOUS
  <2> QED
    BY <1>1, <1>4, <1>10, <1>11, <1>12, <2>1, PostGood
<1>14. Unposted(mid, <<"fee", p>>)
  <2>1. <<kind, p>> # <<"fee", p>>
    BY <1>12
  <2> QED
    BY <1>10, <1>13, <2>1 DEF Unposted
<1>15. /\ EntriesTyped(new) /\ Postings(new) /\ mid \subseteq new
       /\ \A e \in new : e \in mid \/ e.ref = <<"fee", p>>
       /\ \A m \in Nat : m <= posting.at => Before(new, m) = Before(mid, m)
       /\ \A code : \A k \in Int :
            Moves(costs, code, k) => AmountSum(RowsOf(new, code)) = AmountSum(RowsOf(mid, code)) + k
  <2>1. <<"fee", p>>[1] = "fee" /\ "fee" \in Kinds
    BY DEF Kinds
  <2> QED
    BY <1>1, <1>9, <1>13, <1>14, <2>1, PostGood
<1> HIDE DEF new
<1>16. /\ AmountSum(PendingOf(new)) = AmountSum(PendingOf(journal)) - n
       /\ AmountSum(CashOf(new)) = AmountSum(CashOf(journal)) + back - t
       /\ AmountSum(PendingOf(journal)) \in Int /\ AmountSum(CashOf(journal)) \in Int
  <2>1. -n \in Int /\ back \in Int /\ 0 \in Int /\ (0 - t) \in Int
    BY <1>5
  <2>2. /\ AmountSum(RowsOf(mid, "pending_outbound")) = AmountSum(RowsOf(journal, "pending_outbound")) + (-n)
        /\ AmountSum(RowsOf(mid, "treasury_asset")) = AmountSum(RowsOf(journal, "treasury_asset")) + back
    BY <1>12, <1>13, <2>1
  <2> DEFINE minus == 0 - t
  <2>3. /\ AmountSum(RowsOf(new, "pending_outbound")) = AmountSum(RowsOf(mid, "pending_outbound")) + 0
        /\ AmountSum(RowsOf(new, "treasury_asset")) = AmountSum(RowsOf(mid, "treasury_asset")) + minus
    <3>1. minus \in Int /\ 0 \in Int /\ Moves(costs, "treasury_asset", minus) /\ Moves(costs, "pending_outbound", 0)
      BY <1>9, <2>1
    <3> HIDE DEF minus
    <3> QED
      BY <1>15, <3>1
  <2>4. AmountSum(RowsOf(journal, "pending_outbound")) \in Int /\ AmountSum(RowsOf(journal, "treasury_asset")) \in Int
    BY <1>4, RowsTyped
  <2> QED
    BY <1>5, <2>1, <2>2, <2>3, <2>4 DEF PendingOf, CashOf
<1>17. MonthlyTyped'
  BY <1>1, <1>2, <1>4, <1>7 DEF MonthlyTyped
<1>18. EntriesFit(new, paying', income', started')
  <2>1. /\ \A q \in Payment : /\ paying[q].status # "executing" => paying'[q].status # "executing"
                              /\ ~Going(paying[q]) => ~Going(paying'[q])
        /\ ~Going(paying'[p])
    BY <1>3, <1>7 DEF Going
  <2> SUFFICES ASSUME NEW e \in new
               PROVE  /\ \A q \in Payment :
                           /\ e.ref[1] = "submitted" /\ e.ref[2] = q => paying'[q].status # "executing"
                           /\ e.ref[1] \in {"finalized", "reversal", "fee"} /\ e.ref[2] = q => ~Going(paying'[q])
                      /\ \A r \in Inbound : e.ref[1] = "in" /\ e.ref[2] = r => income[r] = "booked"
                      /\ e.ref[1] = "opening" => started
    BY <1>2 DEF EntriesFit
  <2>2. CASE e \in journal
    BY <1>4, <2>1, <2>2 DEF EntriesFit
  <2>3. CASE e.ref = <<kind, p>> \/ e.ref = <<"fee", p>>
    <3>1. e.ref[1] \in {"finalized", "reversal", "fee"} /\ e.ref[2] = p
      BY <1>12, <2>3
    <3> QED
      BY <2>1, <3>1
  <2> QED
    BY <1>13, <1>15, <2>2, <2>3
<1>19. SumOver(DueOf(paying', direct), Payment) = SumOver(DueOf(paying, direct), Payment) - s
       /\ SumOver(DueOf(paying, direct), Payment) \in Int
  <2> DEFINE v == DueOf(paying, direct)
  <2> DEFINE w == DueOf(paying', direct)
  <2>1. \A q \in Payment : v[q] \in Int /\ w[q] \in Int
    BY <1>4, <1>7, WeightsTyped
  <2>2. v[p] = s /\ w[p] = 0 /\ \A q \in Payment : q # p => v[q] = w[q]
    BY <1>3, <1>7 DEF DueOf, Going, s
  <2> HIDE DEF v, w
  <2>3. SumOver(w, Payment) = SumOver(v, Payment) + w[p] - v[p]
    BY <1>3, <2>1, <2>2, SumChanges, MonthlyConstants
  <2>4. SumOver(v, Payment) \in Int
    BY <2>1, SumType, MonthlyConstants
  <2> QED
    BY <1>5, <2>2, <2>3, <2>4 DEF v, w
<1>20. SumOver(WaitingOf(paying'), Payment) = SumOver(WaitingOf(paying), Payment) - n
  <2> DEFINE v == WaitingOf(paying)
  <2> DEFINE w == WaitingOf(paying')
  <2>1. \A q \in Payment : v[q] \in Int /\ w[q] \in Int
    BY <1>4, <1>7, WeightsTyped
  <2>2. v[p] = n /\ w[p] = 0 /\ \A q \in Payment : q # p => v[q] = w[q]
    BY <1>3, <1>7 DEF WaitingOf, n
  <2> HIDE DEF v, w
  <2>3. SumOver(w, Payment) = SumOver(v, Payment) + w[p] - v[p]
    BY <1>3, <2>1, <2>2, SumChanges, MonthlyConstants
  <2>4. SumOver(v, Payment) \in Int
    BY <2>1, SumType, MonthlyConstants
  <2> QED
    BY <1>5, <2>2, <2>3, <2>4 DEF v, w
<1>21. Money'
  <2>1. Owed' = Owed - s
    <3>1. balance \in Int /\ Cardinality(Landed(income)) \in Nat
      BY <1>4, OwesWhole DEF MonthlyTyped
    <3>2. Owed' = balance + SumOver(DueOf(paying', direct), Payment) - Cardinality(Landed(income))
      BY <1>1, <1>2 DEF Owed
    <3> DEFINE d == SumOver(DueOf(paying, direct), Payment)
    <3> DEFINE c == Cardinality(Landed(income))
    <3>3. Owed' = balance + (d - s) - c /\ Owed = balance + d - c /\ d \in Int /\ c \in Int
      BY <1>19, <3>1, <3>2 DEF Owed
    <3> HIDE DEF d, c
    <3> QED
      BY <1>5, <3>1, <3>3
  <2>2. AmountSum(PendingOf(new)) = SumOver(WaitingOf(paying'), Payment)
    BY <1>4, <1>16, <1>20 DEF Money
  <2>3. ASSUME unseen' = {} PROVE unseen = {} /\ seen
    BY <1>2, <2>3
  <2>4. ASSUME seen
        PROVE  AmountSum(CashOf(new)) + AmountSum(PendingOf(new))
                 = AmountSum(CashOf(journal)) + AmountSum(PendingOf(journal)) - s
    <3>1. t = s - moved
      BY <1>9, <2>4
    <3>2. moved + back = n
      BY <1>5 DEF moved, back
    <3> QED
      BY <1>5, <1>16, <3>1, <3>2
  <2>5. started' /\ ~askew' /\ unseen' = {} => AmountSum(CashOf(new)) + AmountSum(PendingOf(new)) = Owed'
    <3> SUFFICES ASSUME started', ~askew', unseen' = {}
                 PROVE  AmountSum(CashOf(new)) + AmountSum(PendingOf(new)) = Owed'
      OBVIOUS
    <3>1. started /\ ~askew /\ unseen = {} /\ seen
      BY <1>2, <2>3
    <3>2. AmountSum(CashOf(journal)) + AmountSum(PendingOf(journal)) = Owed
      BY <1>4, <3>1 DEF Money
    <3>3. AmountSum(CashOf(new)) + AmountSum(PendingOf(new))
            = AmountSum(CashOf(journal)) + AmountSum(PendingOf(journal)) - s
      BY <2>4, <3>1
    <3> QED
      BY <1>5, <1>16, <2>1, <3>2, <3>3
  <2> QED
    BY <1>2, <1>4, <1>6, <2>2, <2>5 DEF Money
<1>22. /\ journal \subseteq new
       /\ \A m \in Nat : m <= posting.at => Before(new, m) = Before(journal, m)
  BY <1>13, <1>15
<1> QED
  BY <1>1, <1>6, <1>15, <1>17, <1>18, <1>21, <1>22, CommitKeeps

LEMMA MonthlyRecords == ASSUME MonthlyInv, Monthly!Commit, Monthly!RecordInflow PROVE MonthlyInv'
<1> DEFINE r == posting.work.receipt
<1> DEFINE lines == Monthly!Pair("treasury", "treasury_asset", "inbound_unallocated", 1)
<1> DEFINE new == Monthly!Post(journal, <<"in", r>>, lines)
<1>1. /\ posting # None /\ posting.at \in Nat /\ WorkFits(posting.work) /\ posting' = None
      /\ UNCHANGED <<svm, direct, month, balance, answer, issued>>
  BY CommitFrame
<1>2. /\ posting.work.of = "book" /\ income' = [income EXCEPT ![r] = "booked"] /\ journal' = new
      /\ UNCHANGED <<paying, started, unseen, askew>>
  BY Zenon DEF Monthly!RecordInflow
<1>3. r \in Inbound /\ income[r] = "landed"
  BY <1>1, <1>2 DEF WorkFits
<1>4. /\ MonthlyTyped /\ EntriesTyped(journal) /\ Postings(journal) /\ Money /\ balance \in Int
      /\ EntriesFit(journal, paying, income, started)
      /\ income \in [Inbound -> {"none", "landed", "booked", "counted"}]
  BY DEF MonthlyInv, MonthlyTyped
<1> HIDE DEF r
<1>5. /\ income' \in [Inbound -> {"none", "landed", "booked", "counted"}] /\ income'[r] = "booked"
      /\ \A x \in Inbound : x # r => income'[x] = income[x]
  BY <1>2, <1>3, <1>4
<1>6. LinesFit(lines, "in") /\ Moves(lines, "treasury_asset", 1) /\ Moves(lines, "pending_outbound", 0)
  BY PairFits, PairMoves DEF CodesOf, CounterOf
<1> HIDE DEF lines
<1>7. Unposted(journal, <<"in", r>>) /\ <<"in", r>>[1] = "in" /\ "in" \in Kinds
  BY <1>3, <1>4 DEF Unposted, EntriesFit, Kinds
<1>8. /\ EntriesTyped(new) /\ Postings(new) /\ journal \subseteq new
      /\ \A e \in new : e \in journal \/ e.ref = <<"in", r>>
      /\ \A m \in Nat : m <= posting.at => Before(new, m) = Before(journal, m)
      /\ \A code : \A k \in Int :
           Moves(lines, code, k) => AmountSum(RowsOf(new, code)) = AmountSum(RowsOf(journal, code)) + k
  BY <1>1, <1>4, <1>6, <1>7, PostGood
<1> HIDE DEF new
<1>9. /\ AmountSum(PendingOf(new)) = AmountSum(PendingOf(journal))
      /\ AmountSum(CashOf(new)) = AmountSum(CashOf(journal)) + 1
      /\ AmountSum(PendingOf(journal)) \in Int /\ AmountSum(CashOf(journal)) \in Int
  <2>1. /\ AmountSum(RowsOf(new, "pending_outbound")) = AmountSum(RowsOf(journal, "pending_outbound")) + 0
        /\ AmountSum(RowsOf(new, "treasury_asset")) = AmountSum(RowsOf(journal, "treasury_asset")) + 1
    BY <1>6, <1>8
  <2>2. AmountSum(RowsOf(journal, "pending_outbound")) \in Int /\ AmountSum(RowsOf(journal, "treasury_asset")) \in Int
    BY <1>4, RowsTyped
  <2> QED
    BY <2>1, <2>2 DEF PendingOf, CashOf
<1>10. MonthlyTyped'
  BY <1>1, <1>2, <1>4, <1>5 DEF MonthlyTyped
<1>11. EntriesFit(new, paying', income', started')
  <2>1. \A x \in Inbound : income[x] = "booked" => income'[x] = "booked"
    BY <1>5
  <2> SUFFICES ASSUME NEW e \in new
               PROVE  /\ \A q \in Payment :
                           /\ e.ref[1] = "submitted" /\ e.ref[2] = q => paying[q].status # "executing"
                           /\ e.ref[1] \in {"finalized", "reversal", "fee"} /\ e.ref[2] = q => ~Going(paying[q])
                      /\ \A x \in Inbound : e.ref[1] = "in" /\ e.ref[2] = x => income'[x] = "booked"
                      /\ e.ref[1] = "opening" => started
    BY <1>2 DEF EntriesFit
  <2>2. CASE e \in journal
    BY <1>4, <2>1, <2>2 DEF EntriesFit
  <2>3. CASE e.ref = <<"in", r>>
    <3>1. e.ref[1] = "in" /\ e.ref[2] = r
      BY <2>3
    <3> QED
      BY <1>5, <3>1
  <2> QED
    BY <1>8, <2>2, <2>3
<1>12. Cardinality(Landed(income')) = Cardinality(Landed(income)) - 1 /\ Cardinality(Landed(income)) \in Nat
  <2>1. r \in Landed(income) /\ Landed(income') = Landed(income) \ {r}
    BY <1>3, <1>5 DEF Landed
  <2>2. IsFiniteSet(Landed(income)) /\ Cardinality(Landed(income)) \in Nat
    BY <1>4, OwesWhole
  <2>3. Cardinality(Landed(income) \ {r}) = Cardinality(Landed(income)) - 1
    BY <2>1, <2>2, FS_RemoveElement
  <2> QED
    BY <2>1, <2>2, <2>3, Zenon
<1>13. Owed' = Owed + 1
  <2> DEFINE d == SumOver(DueOf(paying, direct), Payment)
  <2> DEFINE c == Cardinality(Landed(income))
  <2>1. Owed' = balance + d - (c - 1) /\ Owed = balance + d - c
    BY <1>1, <1>2, <1>12 DEF Owed
  <2>2. d \in Int /\ c \in Int
    BY <1>4, OwesWhole
  <2> HIDE DEF d, c
  <2> QED
    BY <1>4, <2>1, <2>2
<1>14. Money'
  <2>1. AmountSum(PendingOf(new)) = SumOver(WaitingOf(paying'), Payment)
    BY <1>2, <1>4, <1>9 DEF Money
  <2>2. ASSUME started', ~askew', unseen' = {}
        PROVE  AmountSum(CashOf(new)) + AmountSum(PendingOf(new)) = Owed'
    <3>1. AmountSum(CashOf(journal)) + AmountSum(PendingOf(journal)) = Owed
      BY <1>2, <1>4, <2>2 DEF Money
    <3> QED
      BY <1>9, <1>13, <3>1
  <2>3. ~started' => \A x \in Inbound : income'[x] # "counted"
    BY <1>2, <1>4, <1>5 DEF Money
  <2> QED
    BY <1>2, <2>1, <2>2, <2>3 DEF Money
<1> QED
  BY <1>1, <1>2, <1>8, <1>10, <1>11, <1>14, CommitKeeps

LEMMA MonthlyOpensBooks == ASSUME MonthlyInv, Monthly!Commit, Monthly!OpenCursor PROVE MonthlyInv'
<1> DEFINE work == posting.work
<1> DEFINE amount == work.balance - Monthly!Sum(Monthly!Cash) - Monthly!Sum(Monthly!Of("pending_outbound"))
<1> DEFINE lines == Monthly!Pair("treasury", "treasury_asset", "opening_balance", amount)
                    \cup Monthly!Pair("treasury", "opening_balance", "treasury_asset", -amount)
<1> DEFINE new == Monthly!Post(journal, <<"opening">>, lines)
<1> DEFINE Ended(p) == paying[p].status \in {"finalized", "failed"}
<1>1. /\ posting # None /\ posting.at \in Nat /\ WorkFits(work) /\ posting' = None
      /\ UNCHANGED <<svm, direct, month, balance, answer, issued>>
  BY CommitFrame
<1>2. /\ work.of = "open" /\ journal' = new /\ started' = TRUE
      /\ income' = [x \in Inbound |-> IF income[x] = "landed" /\ x \in work.within THEN "counted" ELSE income[x]]
      /\ askew' = (\/ \E x \in Inbound \ work.within : income[x] = "booked"
                   \/ {p \in Payment : Ended(p)} # work.paid)
      /\ UNCHANGED <<paying, unseen>>
  BY Zenon DEF Monthly!OpenCursor
<1>3. /\ ~started /\ work.within \subseteq Inbound /\ \A x \in work.within : income[x] # "none"
      /\ work.paid \subseteq Payment /\ \A p \in work.paid : paying[p].result # None
      /\ work.balance = balance + SumOver(SinceOf(paying, direct, work.paid), Payment)
                                - Cardinality(Beyond(income, work.within))
  BY <1>1, <1>2 DEF WorkFits
<1>4. /\ MonthlyTyped /\ EntriesTyped(journal) /\ Postings(journal) /\ Money /\ balance \in Int
      /\ EntriesFit(journal, paying, income, started) /\ paying \in [Payment -> Paid]
      /\ income \in [Inbound -> {"none", "landed", "booked", "counted"}]
  BY DEF MonthlyInv, MonthlyTyped
<1> HIDE DEF work
<1>5. /\ income' \in [Inbound -> {"none", "landed", "booked", "counted"}]
      /\ \A x \in Inbound : income'[x] = IF income[x] = "landed" /\ x \in work.within THEN "counted" ELSE income[x]
  BY <1>2, <1>4
<1> DEFINE cash == AmountSum(CashOf(journal))
<1> DEFINE pending == AmountSum(PendingOf(journal))
<1>6. amount = work.balance - cash - pending /\ cash \in Int /\ pending \in Int
  <2>1. cash \in Int /\ pending \in Int
    BY <1>4, RowsTyped DEF CashOf, PendingOf
  <2>2. Monthly!Sum(Monthly!Cash) = cash /\ Monthly!Sum(Monthly!Of("pending_outbound")) = pending
    BY <1>4, MonthlyCash
  <2> QED
    BY <2>1, <2>2
<1>7. /\ work.balance \in Int
      /\ SumOver(SinceOf(paying, direct, work.paid), Payment) \in Int
      /\ SumOver(DueOf(paying, direct), Payment) \in Int
      /\ Cardinality(Landed(income')) \in Nat /\ Cardinality(Beyond(income, work.within)) \in Nat
  <2>1. /\ SumOver(SinceOf(paying, direct, work.paid), Payment) \in Int
        /\ SumOver(DueOf(paying, direct), Payment) \in Int
        /\ Cardinality(Beyond(income, work.within)) \in Nat
    BY <1>4, OwesWhole
  <2>2. Cardinality(Landed(income')) \in Nat
    <3>1. IsFiniteSet(Landed(income'))
      BY MonthlyConstants, FS_Subset DEF Landed
    <3> QED
      BY <3>1, FS_CardinalityType
  <2> QED
    BY <1>3, <1>4, <2>1, <2>2
<1> HIDE DEF amount, cash, pending
<1>8. amount \in Int
  BY <1>6, <1>7
<1>9. LinesFit(lines, "opening") /\ Moves(lines, "treasury_asset", amount) /\ Moves(lines, "pending_outbound", 0)
  BY <1>8, OpeningLines
<1> HIDE DEF lines
<1>10. Unposted(journal, <<"opening">>) /\ <<"opening">>[1] = "opening" /\ "opening" \in Kinds
  BY <1>3, <1>4 DEF Unposted, EntriesFit, Kinds
<1>11. /\ EntriesTyped(new) /\ Postings(new) /\ journal \subseteq new
       /\ \A e \in new : e \in journal \/ e.ref = <<"opening">>
       /\ \A m \in Nat : m <= posting.at => Before(new, m) = Before(journal, m)
       /\ \A code : \A k \in Int :
            Moves(lines, code, k) => AmountSum(RowsOf(new, code)) = AmountSum(RowsOf(journal, code)) + k
  BY <1>1, <1>4, <1>9, <1>10, PostGood
<1> HIDE DEF new
<1>12. AmountSum(PendingOf(new)) = pending /\ AmountSum(CashOf(new)) = cash + amount
  <2>1. /\ AmountSum(RowsOf(new, "pending_outbound")) = AmountSum(RowsOf(journal, "pending_outbound")) + 0
        /\ AmountSum(RowsOf(new, "treasury_asset")) = AmountSum(RowsOf(journal, "treasury_asset")) + amount
    BY <1>8, <1>9, <1>11
  <2> QED
    BY <1>6, <2>1 DEF PendingOf, CashOf, cash, pending
<1>13. MonthlyTyped'
  BY <1>1, <1>2, <1>4, <1>5 DEF MonthlyTyped
<1>14. EntriesFit(new, paying', income', started')
  <2>1. \A x \in Inbound : income[x] = "booked" => income'[x] = "booked"
    BY <1>5
  <2> SUFFICES ASSUME NEW e \in new
               PROVE  /\ \A q \in Payment :
                           /\ e.ref[1] = "submitted" /\ e.ref[2] = q => paying[q].status # "executing"
                           /\ e.ref[1] \in {"finalized", "reversal", "fee"} /\ e.ref[2] = q => ~Going(paying[q])
                      /\ \A x \in Inbound : e.ref[1] = "in" /\ e.ref[2] = x => income'[x] = "booked"
    BY <1>2 DEF EntriesFit
  <2>2. CASE e \in journal
    BY <1>4, <2>1, <2>2 DEF EntriesFit
  <2>3. CASE e.ref = <<"opening">>
    BY <2>3
  <2> QED
    BY <1>11, <2>2, <2>3
\* Unless the balance was read out of step, what it lacks is what is owed.
<1>15. ASSUME ~askew' PROVE Owed' = work.balance
  <2>1. /\ \A x \in Inbound \ work.within : income[x] # "booked"
        /\ {p \in Payment : Ended(p)} = work.paid
    BY <1>2, <1>15
  <2>2. \A p \in Payment : SinceOf(paying, direct, work.paid)[p] = DueOf(paying, direct)[p]
    <3>1. \A p \in Payment : p \in work.paid <=> ~Going(paying[p])
      <4>1. \A p \in Payment : paying[p] \in Paid
        BY <1>4
      <4> QED
        BY <2>1, <4>1 DEF Paid, Going
    <3> QED
      BY <3>1 DEF SinceOf, DueOf
  <2>3. SumOver(SinceOf(paying, direct, work.paid), Payment) = SumOver(DueOf(paying, direct), Payment)
    <3> DEFINE v == SinceOf(paying, direct, work.paid)
    <3> DEFINE w == DueOf(paying, direct)
    <3>1. \A p \in Payment : v[p] = w[p]
      BY <2>2
    <3> HIDE DEF v, w
    <3> QED
      BY <3>1, SumSame, MonthlyConstants DEF v, w
  <2>4. Landed(income') = Beyond(income, work.within)
    <3>1. \A x \in Inbound : income[x] # "counted"
      BY <1>3, <1>4 DEF Money
    <3>2. \A x \in Inbound : income'[x] = "landed" <=> x \notin work.within /\ income[x] # "none"
      BY <1>3, <1>4, <1>5, <2>1, <3>1
    <3> QED
      BY <3>2 DEF Landed, Beyond
  <2>5. Cardinality(Landed(income')) = Cardinality(Beyond(income, work.within))
    BY <2>4, Zenon
  <2>6. Owed' = balance + SumOver(DueOf(paying, direct), Payment) - Cardinality(Landed(income'))
    BY <1>1, <1>2 DEF Owed
  <2> QED
    BY <1>3, <2>3, <2>5, <2>6
<1>16. Money'
  <2>1. AmountSum(PendingOf(new)) = SumOver(WaitingOf(paying'), Payment)
    BY <1>2, <1>4, <1>12 DEF Money, pending
  <2>2. AmountSum(CashOf(new)) + AmountSum(PendingOf(new)) = work.balance
    BY <1>6, <1>7, <1>12
  <2> QED
    BY <1>2, <1>15, <2>1, <2>2 DEF Money
<1> QED
  BY <1>1, <1>2, <1>11, <1>13, <1>14, <1>16, CommitKeeps

LEMMA MonthlyCommits == ASSUME MonthlyInv, Monthly!Commit PROVE MonthlyInv'
BY CommitFrame, MonthlyMarksSubmitted, MonthlyMarksEnded, MonthlyRecords, MonthlyOpensBooks

LEMMA MonthlyStep == MonthlyInv /\ [Monthly!Next]_(Monthly!vars) => MonthlyInv'
<1> SUFFICES ASSUME MonthlyInv, [Monthly!Next]_(Monthly!vars) PROVE MonthlyInv'
  OBVIOUS
<1>1. CASE UNCHANGED Monthly!vars
  BY <1>1, MonthlyStutters
<1>2. CASE Monthly!Next
  <2>1. ASSUME NEW p \in Payment, Monthly!BeginSubmit(p) PROVE MonthlyInv'
    BY <2>1, MonthlySubmits
  <2>2. ASSUME NEW p \in Payment, Monthly!BeginConfirm(p) PROVE MonthlyInv'
    BY <2>2, MonthlyConfirms
  <2>3. ASSUME NEW p \in Payment, NEW result \in {"ok", "reverted"}, NEW rent \in BOOLEAN, Monthly!Land(p, result, rent)
        PROVE  MonthlyInv'
    BY <2>3, MonthlyLands
  <2>4. ASSUME NEW r \in Inbound, Monthly!Arrive(r) PROVE MonthlyInv'
    BY <2>4, MonthlyArrives
  <2>5. ASSUME NEW r \in Inbound, Monthly!BeginBook(r) PROVE MonthlyInv'
    BY <2>5, MonthlyBooks
  <2>6. CASE Monthly!BeginOpen
    BY <2>6, MonthlyOpens
  <2>7. CASE Monthly!Commit
    BY <2>7, MonthlyCommits
  <2>8. CASE Monthly!Rollback
    BY <2>8, MonthlyRollback
  <2>9. CASE Monthly!MonthEnds
    BY <2>9, MonthlyTurns
  <2>10. ASSUME NEW m \in 1 .. MaxMonth, Monthly!ReadOpening(m) PROVE MonthlyInv'
    BY <2>10, MonthlyAsks
  <2>11. CASE Monthly!ReadEntries
    BY <2>11, MonthlyAnswers
  <2> QED
    BY <1>2, <2>1, <2>2, <2>3, <2>4, <2>5, <2>6, <2>7, <2>8, <2>9, <2>10, <2>11 DEF Monthly!Next
<1> QED
  BY <1>1, <1>2

\* A fold over payments is a sum.
LEMMA AheadAddsUp ==
  ASSUME NEW S, IsFiniteSet(S)
  PROVE  Monthly!MapThenSumSet(Monthly!Ahead, S) = SumOver([p \in S |-> Monthly!Ahead(p)], S)
<1> DEFINE w == [p \in S |-> Monthly!Ahead(p)]
<1> DEFINE P(f) == f = [s \in SUBSET S |-> IF s = {} THEN 0 ELSE Monthly!Ahead(Pick(s)) + f[s \ {Pick(s)}]]
<1> DEFINE g == CHOOSE f : P(f)
<1>1. Monthly!MapThenSumSet(Monthly!Ahead, S) = g[S]
  BY DEF Monthly!MapThenSumSet, Monthly!MapThenFoldSet, Pick
<1>2. ASSUME NEW f PROVE P(f) <=> Adds(f, w, S)
  <2> DEFINE a == [s \in SUBSET S |-> IF s = {} THEN 0 ELSE Monthly!Ahead(Pick(s)) + f[s \ {Pick(s)}]]
  <2> DEFINE b == [s \in SUBSET S |-> IF s = {} THEN 0 ELSE w[Pick(s)] + f[s \ {Pick(s)}]]
  <2>1. ASSUME NEW s \in SUBSET S PROVE a[s] = b[s]
    <3>1. CASE s = {}
      BY <3>1
    <3>2. CASE s # {}
      <4>1. Pick(s) \in S
        BY <3>2, PickIsIn
      <4>2. w[Pick(s)] = Monthly!Ahead(Pick(s))
        BY <4>1
      <4> HIDE DEF w
      <4> QED
        BY <4>2
    <3> QED
      BY <3>1, <3>2
  <2>2. a = b
    BY <2>1
  <2> QED
    BY <2>2 DEF Adds
<1> HIDE DEF w, P
<1>3. \E f : P(f)
  BY <1>2, AddsExists
<1>4. P(g)
  BY <1>3
<1> HIDE DEF g
<1>5. Adds(g, w, S)
  BY <1>2, <1>4
<1> DEFINE h == CHOOSE f : Adds(f, w, S)
<1>6. Adds(h, w, S)
  BY AddsExists
<1> HIDE DEF h
<1>7. g[S] = h[S]
  BY <1>5, <1>6, AddsAgree
<1> QED
  BY <1>1, <1>7 DEF SumOver, h, w

\* What payments under way are ahead of the books is what they have taken less
\* what is held back for them.
LEMMA AheadIs ==
  ASSUME MonthlyTyped
  PROVE  LET under == {p \in Payment : paying[p].status \in {"executing", "submitted"}}
         IN  /\ Monthly!MapThenSumSet(Monthly!Ahead, under) \in Int
             /\ SumOver(DueOf(paying, direct), Payment)
                  = Monthly!MapThenSumSet(Monthly!Ahead, under) + SumOver(WaitingOf(paying), Payment)
<1> DEFINE under == {p \in Payment : paying[p].status \in {"executing", "submitted"}}
<1> DEFINE d == DueOf(paying, direct)
<1> DEFINE t == WaitingOf(paying)
<1> DEFINE v == [p \in Payment |-> IF Going(paying[p]) THEN Monthly!Ahead(p) ELSE 0]
<1> DEFINE w == [p \in under |-> Monthly!Ahead(p)]
<1>1. under \in SUBSET Payment /\ IsFiniteSet(under) /\ IsFiniteSet(Payment)
  BY MonthlyConstants, FS_Subset
<1>2. \A p \in Payment : d[p] \in Int /\ t[p] \in Int
  BY WeightsTyped DEF MonthlyTyped
<1>3. ASSUME NEW p \in Payment PROVE v[p] \in Int /\ d[p] = v[p] + t[p]
  <2>1. Monthly!Ahead(p) = SpentOf(paying[p], direct) - (IF paying[p].status = "submitted" THEN NativeOf(paying[p]) ELSE 0)
    BY MonthlyNames DEF Monthly!Ahead
  <2>2. SpentOf(paying[p], direct) \in Nat /\ NativeOf(paying[p]) \in Nat
    BY SpentType DEF MonthlyTyped
  <2> QED
    BY <2>1, <2>2 DEF DueOf, WaitingOf, Going
<1>4. (\A p \in Payment \ under : v[p] = 0) /\ (\A p \in under : v[p] = w[p])
  BY DEF Going
<1>5. Monthly!MapThenSumSet(Monthly!Ahead, under) = SumOver(w, under)
  BY <1>1, AheadAddsUp
<1> HIDE DEF under, d, t, v, w
<1>6. SumOver(v, Payment) = SumOver(v, under)
  BY <1>1, <1>3, <1>4, SumLeavesZeros
<1>7. SumOver(v, under) = SumOver(w, under)
  BY <1>1, <1>4, SumSame
<1>8. SumOver(d, Payment) = SumOver(v, Payment) + SumOver(t, Payment)
  BY <1>1, <1>2, <1>3, SumPlus
<1>9. SumOver(v, Payment) \in Int
  BY <1>1, <1>3, SumType
<1> QED
  BY <1>5, <1>6, <1>7, <1>8, <1>9 DEF under, d, t

LEMMA StatementsAgree == MonthlyInv => Monthly!StatementsHold
<1> SUFFICES ASSUME MonthlyInv PROVE Monthly!CashIsBalance /\ Monthly!StatementsJoin
  BY DEF Monthly!StatementsHold
<1>1. MonthlyTyped /\ EntriesTyped(journal) /\ Money /\ Told
  BY DEF MonthlyInv
<1>2. Monthly!CashIsBalance
  <2> DEFINE under == {p \in Payment : paying[p].status \in {"executing", "submitted"}}
  <2> DEFINE ahead == Monthly!MapThenSumSet(Monthly!Ahead, under)
  <2> DEFINE cash == AmountSum(CashOf(journal))
  <2> DEFINE pending == AmountSum(PendingOf(journal))
  <2> DEFINE due == SumOver(DueOf(paying, direct), Payment)
  <2> DEFINE c == Cardinality(Landed(income))
  <2>1. ahead \in Int /\ due = ahead + SumOver(WaitingOf(paying), Payment)
    BY <1>1, AheadIs
  <2>2. pending = SumOver(WaitingOf(paying), Payment) /\ Owed = balance + due - c
    BY <1>1 DEF Money, Owed
  <2>3. balance \in Int /\ cash \in Int /\ pending \in Int /\ c \in Nat
    BY <1>1, OwesWhole, RowsTyped DEF MonthlyTyped, CashOf, PendingOf
  <2>4. Monthly!Sum(Monthly!Cash) = cash
    BY <1>1, MonthlyCash
  <2>5. Monthly!Cardinality({r \in Inbound : income[r] = "landed"}) = c
    BY MonthlyCardinality DEF Landed
  <2>6. ASSUME started /\ ~askew /\ unseen = {} PROVE cash + pending = Owed
    BY <1>1, <2>6 DEF Money
  <2> SUFFICES ASSUME started /\ ~askew /\ unseen = {}
               PROVE  Monthly!Sum(Monthly!Cash)
                        = balance + ahead - Monthly!Cardinality({r \in Inbound : income[r] = "landed"})
    BY DEF Monthly!CashIsBalance
  <2> HIDE DEF ahead, cash, pending, due, c
  <2>7. cash = balance + ahead - c
    BY <2>1, <2>2, <2>3, <2>6
  <2> QED
    BY <2>4, <2>5, <2>7
<1>3. Monthly!StatementsJoin
  <2> SUFFICES ASSUME issued # None
               PROVE  /\ \/ issued.closing = issued.opening + issued.inflows - issued.outflows - issued.fees
                         \/ \E e \in journal : e.code = "opening_balance" /\ e.amount > 0 /\ e.at = issued.month
                      /\ issued.calm => /\ issued.opening = Monthly!Opening(issued.month)
                                        /\ issued.closing = Monthly!Opening(issued.month + 1)
    BY DEF Monthly!StatementsJoin
  <2>1. \A m : Monthly!Opening(m) = AmountSum(Before(journal, m))
    BY <1>1, OpeningIs
  <2> QED
    BY <1>1, <2>1 DEF Told
<1> QED
  BY <1>2, <1>3

\* The ledger's cash is the chain's balance: in the asset that payments move
\* (CashIsTheChain) and in the one that fees and rent are paid of, where every
\* posting of a payment, receipt or opening balance leaves exactly what is under
\* way (markSubmitted, confirm, recordInflow, openCursor), and a monthly statement
\* adds up and joins its neighbours (treasuryStatement), for any payments,
\* receipts, amounts, costs and months.
THEOREM LedgerIsTheChain == Spec => []LedgerAccountsForChain
<1>1. Init => Monthly!Init
  BY DEF Init
<1>2. [Next]_<<part, squads, theSafe, x402, books, reading, recurring, others>> => [Monthly!Next]_(Monthly!vars)
  BY DEF Next, others, monthly, Monthly!vars
<1>3. Books!LedgerAccountsForChain /\ Monthly!StatementsHold => LedgerAccountsForChain
  BY DEF LedgerAccountsForChain
<1> QED
  BY <1>1, <1>2, <1>3, MonthlyInit, MonthlyStep, StatementsAgree, CashIsTheChain, PTL DEF Spec

(***************************************************************************)
(* InflowSync. What a sync has read stays what the books are compared with *)
(* while it is quiet: HandlerFits, of each handler's state, holds the      *)
(* books, the payment and the balance it read together.                    *)
(***************************************************************************)
Mover == {"in", "hidden", "out"}
HandlerAt == {"idle", "locate", "open", "scan", "balance", "check", "compare"}
Handler == [at : HandlerAt, to : Nat, head : Nat, todo : SUBSET Nat, quiet : BOOLEAN]

ReadingTypes ==
  /\ family \in BOOLEAN /\ history \in Seq(Mover) /\ settled \in 0 .. Len(history)
  /\ position \in (0 .. settled) \cup {None} /\ opened \in 0 .. settled
  /\ accounts \in [receipts : SUBSET Nat, cash : Int, pending : Int]
  /\ transfer \in {"executing", "submitted", "finalized"}
  /\ syncs \in [Worker -> Handler]
  /\ skewed \in BOOLEAN /\ falseBreak \in BOOLEAN

\* The treasury makes one payment, and knows when it is final.
OnePayment ==
  /\ \A j, k \in 1 .. Len(history) : history[j] = "out" /\ history[k] = "out" => j = k
  /\ transfer = "finalized" => Reading!PaidBy(settled)
  /\ accounts.pending = IF transfer = "submitted" THEN 1 ELSE 0

\* What is booked beside the opening balance.
Since == IF transfer = "finalized" /\ ~Reading!PaidBy(opened) THEN 1 ELSE 0

\* From the opening balance on the books are in step with the chain.
InStep ==
  /\ opened <= position
  /\ \A k \in accounts.receipts \cup skipped : opened < k
  /\ Reading!Receipts(opened + 1, position) \subseteq skipped \cup accounts.receipts
  /\ transfer # "finalized" => ~Reading!PaidBy(opened)
  /\ accounts.cash + accounts.pending = Reading!BalanceAt(opened) + Cardinality(accounts.receipts) - Since

\* The handler's reading, and what is left of it to book.
HandlerFits(x) ==
  /\ x.to <= x.head /\ x.head <= settled
  /\ x.at \in {"scan", "balance", "check", "compare"} => position # None
  /\ x.at \in {"locate", "balance", "check"} => ~family
  /\ x.at = "compare" \/ (x.at = "open" /\ family) => x.to = x.head
  /\ x.todo \subseteq Reading!Receipts(1, x.to)
  /\ x.at \in {"locate", "open"} => x.todo = {}
  /\ x.at = "scan" /\ ~skewed =>
       /\ opened <= x.to /\ \A k \in x.todo : opened < k
       /\ Reading!Receipts(opened + 1, x.to) \subseteq skipped \cup accounts.receipts \cup x.todo
  /\ x.quiet =>
       /\ opened <= x.head /\ accounts.receipts \subseteq 1 .. x.head
       /\ transfer = "finalized" => Reading!PaidBy(x.head)
       /\ transfer = "executing" => ~Reading!PaidBy(x.head)

ReadingInv ==
  /\ ReadingTypes
  /\ OnePayment
  /\ accounts.receipts \subseteq Reading!Receipts(1, settled)
  /\ position = None => accounts.receipts = {} /\ skipped = {} /\ opened = 0 /\ ~skewed
  /\ position # None /\ ~skewed => InStep
  /\ \A s \in Worker : HandlerFits(syncs[s])
  /\ ~falseBreak

LEMMA ReadingInit == Reading!Init => ReadingInv
<1> SUFFICES ASSUME Reading!Init PROVE ReadingInv
  OBVIOUS
<1>1. history = <<>> /\ settled = 0 /\ Len(history) = 0 /\ position = None /\ transfer = "executing"
  BY DEF Reading!Init
<1>2. ReadingTypes
  <2>1. Reading!Idle \in Handler
    BY DEF Reading!Idle, Handler, HandlerAt
  <2>2. syncs \in [Worker -> Handler]
    BY <2>1 DEF Reading!Init
  <2>3. accounts \in [receipts : SUBSET Nat, cash : Int, pending : Int]
    BY DEF Reading!Init
  <2>4. history \in Seq(Mover)
    BY <1>1
  <2>5. settled \in 0 .. Len(history) /\ position \in (0 .. settled) \cup {None} /\ opened \in 0 .. settled
    BY <1>1 DEF Reading!Init
  <2>6. family \in BOOLEAN /\ skewed \in BOOLEAN /\ falseBreak \in BOOLEAN
    BY DEF Reading!Init
  <2> QED
    BY <1>1, <2>2, <2>3, <2>4, <2>5, <2>6 DEF ReadingTypes
<1>3. OnePayment
  BY <1>1 DEF Reading!Init, OnePayment
<1>4. ASSUME NEW s \in Worker PROVE HandlerFits(syncs[s])
  BY <1>1 DEF Reading!Init, Reading!Idle, HandlerFits
<1> QED
  BY <1>1, <1>2, <1>3, <1>4 DEF Reading!Init, ReadingInv

\* What fits goes on fitting while the books, the payment and the opening balance stay.
LEMMA FitsStill ==
  ASSUME NEW x, HandlerFits(x), UNCHANGED <<family, history, settled, accounts, transfer, opened, skewed>>,
         skipped \subseteq skipped', position # None => position' # None
  PROVE  HandlerFits(x)'
BY DEF HandlerFits, Reading!Receipts, Reading!PaidBy

\* A handler goes on, and may pass receipts over or move the cursor.
LEMMA HandlerMoves ==
  ASSUME ReadingInv, NEW s \in Worker, NEW x \in Handler, syncs' = [syncs EXCEPT ![s] = x],
         UNCHANGED <<family, history, settled, accounts, transfer, opened, skewed>>,
         HandlerFits(x)', falseBreak' = FALSE, skipped \subseteq skipped',
         position = None => position' = None /\ skipped' = skipped,
         position # None => position' \in 0 .. settled,
         position # None /\ ~skewed =>
           /\ opened <= position' /\ \A k \in skipped' : opened < k
           /\ Reading!Receipts(opened + 1, position') \subseteq skipped' \cup accounts.receipts
  PROVE  ReadingInv'
<1>0. ReadingTypes /\ None \notin Nat
  BY TreasuryAssumption DEF ReadingInv
<1>1. ReadingTypes'
  BY <1>0 DEF ReadingTypes
<1>2. OnePayment' /\ (accounts.receipts \subseteq Reading!Receipts(1, settled))'
  BY DEF ReadingInv, OnePayment, Reading!PaidBy, Reading!Receipts
<1>3. position = None <=> position' = None
  BY <1>0 DEF ReadingTypes
<1>4. (position = None => accounts.receipts = {} /\ skipped = {} /\ opened = 0 /\ ~skewed)'
  BY <1>3 DEF ReadingInv
<1>5. ASSUME position' # None, ~skewed' PROVE InStep'
  <2>1. InStep
    BY <1>3, <1>5 DEF ReadingInv
  <2>2. Since' = Since /\ Reading!BalanceAt(opened)' = Reading!BalanceAt(opened)
    BY DEF Since, Reading!PaidBy, Reading!BalanceAt, Reading!Cardinality
  <2>3. (Reading!Receipts(opened + 1, position) \subseteq skipped \cup accounts.receipts)'
    BY <1>3, <1>5 DEF Reading!Receipts
  <2> QED
    BY <1>3, <1>5, <2>1, <2>2, <2>3 DEF InStep, Reading!PaidBy
<1>6. ASSUME NEW r \in Worker PROVE HandlerFits(syncs[r])'
  <2>1. CASE r = s
    <3>1. syncs'[r] = x
      BY <1>0, <2>1 DEF ReadingTypes
    <3> QED
      BY <3>1 DEF HandlerFits
  <2>2. CASE r # s
    <3>1. syncs'[r] = syncs[r] /\ HandlerFits(syncs[r])
      BY <1>0, <2>2 DEF ReadingTypes, ReadingInv
    <3> QED
      BY <1>3, <3>1, FitsStill DEF HandlerFits, Reading!Receipts, Reading!PaidBy
  <2> QED
    BY <2>1, <2>2
<1> QED
  BY <1>1, <1>2, <1>4, <1>5, <1>6 DEF ReadingInv

\* A handler goes on and changes nothing else.
LEMMA HandlerGoes ==
  ASSUME ReadingInv, NEW s \in Worker, NEW x \in Handler, syncs' = [syncs EXCEPT ![s] = x],
         UNCHANGED <<family, history, settled, accounts, transfer, opened, skewed, position, skipped>>,
         HandlerFits(x), falseBreak' = FALSE
  PROVE  ReadingInv'
<1>1. HandlerFits(x)'
  BY FitsStill
<1>2. position # None => position \in 0 .. settled
  BY DEF ReadingInv, ReadingTypes
<1>3. position # None /\ ~skewed =>
           /\ opened <= position /\ \A k \in skipped : opened < k
           /\ Reading!Receipts(opened + 1, position) \subseteq skipped \cup accounts.receipts
  BY DEF ReadingInv, InStep
<1> QED
  BY <1>1, <1>2, <1>3, HandlerMoves

LEMMA SmallerOf ==
  ASSUME NEW a \in Int, NEW b \in Int
  PROVE  /\ Reading!Min({a, b}) \in {a, b} /\ Reading!Min({a, b}) <= a /\ Reading!Min({a, b}) <= b
         /\ Reading!Max({a, b}) \in {a, b} /\ Reading!Max({a, b}) >= a /\ Reading!Max({a, b}) >= b
<1>1. \E x \in {a, b} : \A y \in {a, b} : x =< y
  <2>1. CASE a <= b
    BY <2>1
  <2>2. CASE b <= a
    BY <2>2
  <2> QED
    BY <2>1, <2>2
<1>2. \E x \in {a, b} : \A y \in {a, b} : x >= y
  <2>1. CASE a >= b
    BY <2>1
  <2>2. CASE b >= a
    BY <2>2
  <2> QED
    BY <2>1, <2>2
<1> QED
  BY <1>1, <1>2 DEF Reading!Min, Reading!Max

\* What does not book and does not move the cursor.
LEMMA ReadingGoes ==
  ASSUME ReadingInv, NEW s \in Worker,
         \/ Reading!BeginOpening(s) \/ Reading!Locate(s) \/ Reading!GetFinalizedBalance(s)
         \/ Reading!CheckNewest(s) \/ Reading!Abandon(s)
  PROVE  ReadingInv'
<1>0. /\ settled \in Nat /\ opened \in 0 .. settled /\ family \in BOOLEAN /\ falseBreak = FALSE
      /\ syncs[s] \in Handler /\ HandlerFits(syncs[s]) /\ accounts.receipts \subseteq 1 .. settled
      /\ transfer = "finalized" => Reading!PaidBy(settled)
  BY DEF ReadingInv, ReadingTypes, OnePayment, Reading!Receipts
<1>1. /\ UNCHANGED <<family, history, settled, accounts, transfer, opened, skewed, position, skipped>>
      /\ falseBreak' = FALSE
  BY <1>0 DEF Reading!BeginOpening, Reading!Locate, Reading!GetFinalizedBalance, Reading!CheckNewest,
    Reading!Abandon, Reading!Chain, Reading!Ghosts
<1>2. Reading!Quiet \in BOOLEAN /\ (Reading!Quiet /\ transfer = "executing" => ~Reading!PaidBy(settled))
  BY DEF Reading!Quiet
<1>3. Reading!Idle \in Handler /\ HandlerFits(Reading!Idle)
  BY <1>0 DEF Reading!Idle, Handler, HandlerAt, HandlerFits
<1>4. CASE Reading!BeginOpening(s)
  <2> DEFINE x == [Reading!Idle EXCEPT !.at = IF family THEN "open" ELSE "locate", !.to = settled,
                     !.head = settled, !.quiet = Reading!Quiet]
  <2>1. syncs' = [syncs EXCEPT ![s] = x]
    BY <1>4 DEF Reading!BeginOpening, Reading!Goto
  <2>2. /\ x.at = IF family THEN "open" ELSE "locate"
        /\ x.to = settled /\ x.head = settled /\ x.todo = {} /\ x.quiet = Reading!Quiet /\ x \in Handler
    BY <1>0, <1>2 DEF Reading!Idle, Handler, HandlerAt
  <2> HIDE DEF x
  <2>3. HandlerFits(x)
    BY <1>0, <1>2, <2>2 DEF HandlerFits
  <2> QED
    BY <1>1, <2>1, <2>2, <2>3, HandlerGoes
<1>5. CASE Reading!Locate(s)
  <2> DEFINE to == IF syncs[s].head > settled - Recent THEN syncs[s].head ELSE 0
  <2> DEFINE x == [syncs[s] EXCEPT !.at = "open", !.to = to]
  <2>1. syncs' = [syncs EXCEPT ![s] = x] /\ syncs[s].at = "locate"
    BY <1>5 DEF Reading!Locate, Reading!Goto
  <2>2. /\ x.at = "open" /\ x.to \in {syncs[s].head, 0} /\ x.head = syncs[s].head /\ x.todo = syncs[s].todo
        /\ x.quiet = syncs[s].quiet /\ x \in Handler
    BY <1>0 DEF Handler, HandlerAt
  <2>3. syncs[s].head \in Nat /\ syncs[s].to \in Nat
    BY <1>0 DEF Handler
  <2> HIDE DEF x
  <2>4. CASE x.to = syncs[s].head
    <3>1. HandlerFits(x)
      BY <1>0, <2>1, <2>2, <2>3, <2>4 DEF HandlerFits, Reading!Receipts
    <3> QED
      BY <1>1, <2>1, <2>2, <3>1, HandlerGoes
  <2>5. CASE x.to = 0
    <3>0. syncs[s].todo = {}
      BY <1>0, <2>1 DEF HandlerFits
    <3>1. HandlerFits(x)
      BY <1>0, <2>1, <2>2, <2>3, <2>5, <3>0 DEF HandlerFits
    <3> QED
      BY <1>1, <2>1, <2>2, <3>1, HandlerGoes
  <2> QED
    BY <2>2, <2>4, <2>5
<1>6. CASE Reading!GetFinalizedBalance(s)
  <2> DEFINE x == [syncs[s] EXCEPT !.at = "check", !.head = settled, !.quiet = Reading!Quiet]
  <2>1. syncs' = [syncs EXCEPT ![s] = x] /\ syncs[s].at = "balance"
    BY <1>6 DEF Reading!GetFinalizedBalance, Reading!Goto
  <2>2. /\ x.at = "check" /\ x.to = syncs[s].to /\ x.head = settled /\ x.todo = syncs[s].todo
        /\ x.quiet = Reading!Quiet /\ x \in Handler /\ x.to \in Nat /\ syncs[s].head \in Nat
    BY <1>0, <1>2 DEF Handler, HandlerAt
  <2> HIDE DEF x
  <2>3. HandlerFits(x)
    BY <1>0, <1>2, <2>1, <2>2 DEF HandlerFits
  <2> QED
    BY <1>1, <2>1, <2>2, <2>3, HandlerGoes
<1>7. CASE Reading!CheckNewest(s)
  <2> DEFINE x == [syncs[s] EXCEPT !.at = "compare"]
  <2>1. syncs' = [syncs EXCEPT ![s] = IF settled = syncs[s].to THEN x ELSE Reading!Idle] /\ syncs[s].at = "check"
    BY <1>7 DEF Reading!CheckNewest, Reading!Goto
  <2>2. /\ x.at = "compare" /\ x.to = syncs[s].to /\ x.head = syncs[s].head /\ x.todo = syncs[s].todo
        /\ x.quiet = syncs[s].quiet /\ x \in Handler /\ x.to \in Nat /\ x.head \in Nat
    BY <1>0 DEF Handler, HandlerAt
  <2> HIDE DEF x
  <2>3. CASE settled = syncs[s].to
    <3>1. HandlerFits(x)
      BY <1>0, <2>1, <2>2, <2>3 DEF HandlerFits
    <3> QED
      BY <1>1, <2>1, <2>2, <2>3, <3>1, HandlerGoes
  <2>4. CASE settled # syncs[s].to
    BY <1>1, <1>3, <2>1, <2>4, HandlerGoes
  <2> QED
    BY <2>3, <2>4
<1>8. CASE Reading!Abandon(s)
  BY <1>1, <1>3, <1>8, HandlerGoes DEF Reading!Abandon, Reading!Goto
<1> QED
  BY <1>4, <1>5, <1>6, <1>7, <1>8

LEMMA ReadingAdvances == ASSUME ReadingInv, NEW s \in Worker, Reading!AdvanceCursor(s) PROVE ReadingInv'
<1>0. /\ settled \in Nat /\ opened \in 0 .. settled /\ family \in BOOLEAN /\ falseBreak = FALSE
      /\ syncs[s] \in Handler /\ HandlerFits(syncs[s])
      /\ syncs[s].to \in Nat /\ syncs[s].head \in Nat
  BY DEF ReadingInv, ReadingTypes, Handler
<1>a. PICK x : x = IF syncs[s].to < syncs[s].head /\ family THEN Reading!Idle
                   ELSE [syncs[s] EXCEPT !.at = IF family THEN "compare" ELSE "balance"]
  OBVIOUS
<1>1. /\ syncs[s].at = "scan" /\ syncs[s].todo = {} /\ position' = syncs[s].to /\ syncs' = [syncs EXCEPT ![s] = x]
      /\ UNCHANGED <<family, history, settled, accounts, transfer, opened, skewed, skipped>> /\ falseBreak' = FALSE
  BY <1>0, <1>a DEF Reading!AdvanceCursor, Reading!AfterReading, Reading!Goto, Reading!Chain, Reading!Ghosts
<1>2. position # None /\ position' \in 0 .. settled /\ position' # None
  BY <1>0, <1>1, TreasuryAssumption DEF HandlerFits
<1>3. ~skewed => /\ opened <= position' /\ \A k \in skipped : opened < k
                 /\ Reading!Receipts(opened + 1, position') \subseteq skipped \cup accounts.receipts
  BY <1>0, <1>1, <1>2 DEF HandlerFits, ReadingInv, InStep
<1>4. x \in Handler /\ HandlerFits(x)
  <2>1. CASE syncs[s].to < syncs[s].head /\ family
    BY <1>0, <1>a, <2>1 DEF Reading!Idle, Handler, HandlerAt, HandlerFits
  <2>2. CASE ~(syncs[s].to < syncs[s].head /\ family)
    <3>1. /\ x.at = (IF family THEN "compare" ELSE "balance") /\ x.to = syncs[s].to /\ x.head = syncs[s].head
          /\ x.todo = syncs[s].todo /\ x.quiet = syncs[s].quiet /\ x \in Handler
      BY <1>0, <1>a, <2>2 DEF Handler, HandlerAt
    <3> QED
      BY <1>0, <1>1, <1>2, <2>2, <3>1 DEF HandlerFits
  <2> QED
    BY <2>1, <2>2
<1>5. HandlerFits(x)'
  BY <1>1, <1>2, <1>4, FitsStill
<1> QED
  BY <1>1, <1>2, <1>3, <1>4, <1>5, HandlerMoves

LEMMA ReadingScans == ASSUME ReadingInv, NEW s \in Worker, Reading!BeginScan(s) PROVE ReadingInv'
<1>0. /\ settled \in Nat /\ opened \in 0 .. settled /\ family \in BOOLEAN /\ falseBreak = FALSE
      /\ accounts.receipts \subseteq 1 .. settled
      /\ transfer = "finalized" => Reading!PaidBy(settled)
  BY DEF ReadingInv, ReadingTypes, OnePayment, Reading!Receipts
<1>a. PICK to : to = IF family THEN Reading!Min({settled, position + MaxBlocks}) ELSE settled
  OBVIOUS
<1>b. PICK from : from = IF family THEN position + 1 ELSE Reading!Max({position + 1, settled - Limit + 1})
  OBVIOUS
<1>c. PICK x : x = [at |-> "scan", to |-> to, head |-> settled, todo |-> Reading!Receipts(from, to), quiet |-> Reading!Quiet]
  OBVIOUS
<1>1. /\ position # None /\ syncs' = [syncs EXCEPT ![s] = x]
      /\ skipped' = skipped \cup Reading!Receipts(position + 1, from - 1)
      /\ UNCHANGED <<family, history, settled, accounts, transfer, opened, skewed, position>> /\ falseBreak' = FALSE
  BY <1>0, <1>a, <1>b, <1>c DEF Reading!BeginScan, Reading!Goto, Reading!Chain
<1>2. position \in Nat /\ position <= settled
  BY <1>1 DEF ReadingInv, ReadingTypes
<1>3. to \in Nat /\ position <= to /\ to <= settled
  <2>1. position + MaxBlocks \in Int /\ MaxBlocks \in Nat
    BY <1>2, TreasuryAssumption
  <2> DEFINE m == Reading!Min({settled, position + MaxBlocks})
  <2>2. m \in {settled, position + MaxBlocks} /\ m <= settled
    BY <1>0, <2>1, SmallerOf
  <2> HIDE DEF m
  <2>3. m \in Nat /\ position <= m /\ m <= settled
    BY <1>0, <1>2, <2>1, <2>2
  <2> QED
    BY <1>0, <1>a, <1>2, <2>3 DEF m
<1>4. from \in Int /\ position + 1 <= from
  <2>1. position + 1 \in Int /\ settled - Limit + 1 \in Int
    BY <1>0, <1>2, TreasuryAssumption
  <2> QED
    BY <1>b, <1>2, <2>1, SmallerOf
<1>5. Reading!Quiet \in BOOLEAN /\ (Reading!Quiet /\ transfer = "executing" => ~Reading!PaidBy(settled))
  BY DEF Reading!Quiet
<1>6. x.at = "scan" /\ x.to = to /\ x.head = settled /\ x.todo = Reading!Receipts(from, to) /\ x.quiet = Reading!Quiet
  BY <1>c
<1>7. Reading!Receipts(from, to) \subseteq Reading!Receipts(1, to) /\ Reading!Receipts(from, to) \in SUBSET Nat
  BY <1>2, <1>3, <1>4 DEF Reading!Receipts
<1>8. x \in Handler
  BY <1>0, <1>c, <1>3, <1>5, <1>7 DEF Handler, HandlerAt
<1>9. \A k \in Reading!Receipts(position + 1, from - 1) : position < k
  BY <1>2, <1>4 DEF Reading!Receipts
<1>10. ASSUME ~skewed
       PROVE  /\ opened <= position /\ \A k \in skipped' : opened < k
              /\ Reading!Receipts(opened + 1, position) \subseteq skipped' \cup accounts.receipts
              /\ \A k \in x.todo : opened < k
              /\ Reading!Receipts(opened + 1, to) \subseteq skipped' \cup accounts.receipts \cup x.todo
  <2>1. InStep
    BY <1>1, <1>10 DEF ReadingInv
  <2>2. /\ opened <= position /\ \A k \in skipped : opened < k
        /\ Reading!Receipts(opened + 1, position) \subseteq skipped \cup accounts.receipts
    BY <2>1 DEF InStep
  <2>3. \A k \in skipped' : opened < k
    <3>1. \A k \in Reading!Receipts(position + 1, from - 1) : opened < k
      BY <1>0, <1>2, <1>4, <2>2 DEF Reading!Receipts
    <3> QED
      BY <1>1, <2>2, <3>1
  <2>4. \A k \in x.todo : opened < k
    BY <1>0, <1>2, <1>3, <1>4, <1>6, <2>2 DEF Reading!Receipts
  <2>5. ASSUME NEW k \in Reading!Receipts(opened + 1, to) PROVE k \in skipped' \cup accounts.receipts \cup x.todo
    <3>1. k \in Nat /\ opened + 1 <= k /\ k <= to /\ history[k] = "in"
      BY <1>0, <1>3 DEF Reading!Receipts
    <3>2. CASE k <= position
      <4>1. k \in Reading!Receipts(opened + 1, position)
        BY <1>0, <1>2, <3>1, <3>2 DEF Reading!Receipts
      <4> QED
        BY <1>1, <2>2, <4>1
    <3>3. CASE position < k /\ k < from
      <4>1. k \in Reading!Receipts(position + 1, from - 1)
        BY <1>2, <1>4, <3>1, <3>3 DEF Reading!Receipts
      <4> QED
        BY <1>1, <4>1
    <3>4. CASE from <= k
      <4>1. k \in Reading!Receipts(from, to)
        BY <1>3, <1>4, <3>1, <3>4 DEF Reading!Receipts
      <4> QED
        BY <1>6, <4>1
    <3> QED
      BY <1>2, <1>4, <3>1, <3>2, <3>3, <3>4
  <2> QED
    BY <1>1, <2>2, <2>3, <2>4, <2>5
<1>11. HandlerFits(x)'
  <2>1. (x.to <= x.head /\ x.head <= settled /\ x.todo \subseteq Reading!Receipts(1, x.to))'
    BY <1>1, <1>3, <1>6, <1>7, <1>0 DEF Reading!Receipts
  <2>2. (x.at = "scan" /\ ~skewed => /\ opened <= x.to /\ \A k \in x.todo : opened < k
                                     /\ Reading!Receipts(opened + 1, x.to) \subseteq skipped \cup accounts.receipts \cup x.todo)'
    BY <1>0, <1>1, <1>2, <1>3, <1>6, <1>10 DEF Reading!Receipts
  <2>3. (x.quiet => /\ opened <= x.head /\ accounts.receipts \subseteq 1 .. x.head
                    /\ transfer = "finalized" => Reading!PaidBy(x.head)
                    /\ transfer = "executing" => ~Reading!PaidBy(x.head))'
    BY <1>0, <1>1, <1>5, <1>6 DEF Reading!PaidBy
  <2> QED
    BY <1>1, <1>6, <2>1, <2>2, <2>3 DEF HandlerFits
<1>12. position' \in 0 .. settled /\ skipped \subseteq skipped'
  BY <1>0, <1>1, <1>2
<1>13. ~skewed => /\ opened <= position' /\ \A k \in skipped' : opened < k
                  /\ Reading!Receipts(opened + 1, position') \subseteq skipped' \cup accounts.receipts
  BY <1>1, <1>10
<1> QED
  BY <1>1, <1>8, <1>11, <1>12, <1>13, HandlerMoves

\* The balance at a point of the chain is that before it and what came since.
Ins(from, to) == {k \in from .. to : history[k] # "out"}
Outs(from, to) == {k \in from .. to : history[k] = "out"}

LEMMA CountsType ==
  ASSUME NEW a \in Int, NEW b \in Int
  PROVE  /\ IsFiniteSet(Ins(a, b)) /\ IsFiniteSet(Outs(a, b))
         /\ Cardinality(Ins(a, b)) \in Nat /\ Cardinality(Outs(a, b)) \in Nat
<1>1. IsFiniteSet(a .. b)
  BY FS_Interval
<1>2. IsFiniteSet(Ins(a, b)) /\ IsFiniteSet(Outs(a, b))
  BY <1>1, FS_Subset DEF Ins, Outs
<1> QED
  BY <1>2, FS_CardinalityType

LEMMA SameCardinality == ASSUME NEW S PROVE Reading!Cardinality(S) = Cardinality(S)
BY DEF Reading!Cardinality, Cardinality

LEMMA ReadBalanceType ==
  ASSUME NEW n \in Int
  PROVE  /\ Reading!BalanceAt(n) = Cardinality(Ins(1, n)) - Cardinality(Outs(1, n))
         /\ Reading!BalanceAt(n) \in Int
<1>1. Reading!BalanceAt(n) = Cardinality(Ins(1, n)) - Cardinality(Outs(1, n))
  BY SameCardinality DEF Reading!BalanceAt, Ins, Outs
<1> QED
  BY <1>1, CountsType

LEMMA SmallestOf == ASSUME NEW S \in SUBSET Nat, S # {} PROVE Reading!Min(S) \in S
BY LeastOf DEF Reading!Min

\* A handler's state of which nothing is compared any more.
LEMMA Disturbed ==
  ASSUME NEW y \in Handler
  PROVE  LET x == [y EXCEPT !.quiet = FALSE]
         IN x \in Handler /\ x.at = y.at /\ x.to = y.to /\ x.head = y.head /\ x.todo = y.todo /\ x.quiet = FALSE
BY DEF Handler

LEMMA ReadingRecords == ASSUME ReadingInv, NEW s \in Worker, Reading!Record(s) PROVE ReadingInv'
<1>0. /\ settled \in Nat /\ opened \in 0 .. settled /\ family \in BOOLEAN /\ falseBreak = FALSE
      /\ syncs \in [Worker -> Handler] /\ syncs[s] \in Handler /\ HandlerFits(syncs[s])
      /\ syncs[s].to \in Nat /\ syncs[s].head \in Nat /\ syncs[s].todo \in SUBSET Nat
      /\ accounts \in [receipts : SUBSET Nat, cash : Int, pending : Int]
      /\ accounts.receipts \subseteq Reading!Receipts(1, settled)
  BY DEF ReadingInv, ReadingTypes, Handler
<1>a. PICK k : k = Reading!Min(syncs[s].todo)
  OBVIOUS
<1>b. PICK x : x = [syncs[s] EXCEPT !.todo = @ \ {k}]
  OBVIOUS
<1>1. syncs[s].at = "scan" /\ syncs[s].todo # {} /\ UNCHANGED <<family, history, settled, transfer, position, opened, skewed>>
      /\ falseBreak' = FALSE
  BY <1>0 DEF Reading!Record, Reading!Chain
<1>2. k \in syncs[s].todo /\ k \in Nat
  BY <1>0, <1>1, <1>a, SmallestOf
<1>3. x.at = "scan" /\ x.to = syncs[s].to /\ x.head = syncs[s].head /\ x.todo = syncs[s].todo \ {k}
      /\ x.quiet = syncs[s].quiet /\ x \in Handler
  BY <1>0, <1>1, <1>b DEF Handler
<1>4. k \in Reading!Receipts(1, syncs[s].to) /\ 1 <= k /\ k <= syncs[s].to /\ k <= syncs[s].head /\ k <= settled
  BY <1>0, <1>2 DEF HandlerFits, Reading!Receipts
<1>5. position # None
  BY <1>0, <1>1 DEF HandlerFits
<1>6. position \in 0 .. settled
  BY <1>5 DEF ReadingInv, ReadingTypes
<1>7. ~skewed => InStep /\ opened < k
  BY <1>0, <1>1, <1>2, <1>5 DEF HandlerFits, ReadingInv
<1>8. \/ /\ k \in accounts.receipts \/ skipped' = skipped \cup ({k} \ accounts.receipts)
         /\ syncs' = [syncs EXCEPT ![s] = x] /\ accounts' = accounts
         /\ skipped' \in {skipped, skipped \cup ({k} \ accounts.receipts)}
      \/ /\ k \notin accounts.receipts /\ accounts' = [accounts EXCEPT !.receipts = @ \cup {k}, !.cash = @ + 1]
         /\ syncs' = [r \in Worker |-> IF r = s THEN x ELSE [syncs[r] EXCEPT !.quiet = FALSE]]
         /\ skipped' = skipped
  BY <1>a, <1>b DEF Reading!Record, Reading!Goto, Reading!Disturbing
<1>9. CASE /\ k \in accounts.receipts \/ skipped' = skipped \cup ({k} \ accounts.receipts)
           /\ syncs' = [syncs EXCEPT ![s] = x] /\ accounts' = accounts
           /\ skipped' \in {skipped, skipped \cup ({k} \ accounts.receipts)}
  <2>1. skipped \subseteq skipped' /\ k \in skipped' \cup accounts.receipts /\ skipped' \subseteq skipped \cup {k}
    BY <1>9
  <2>2. (x.at = "scan" /\ ~skewed =>
           /\ opened <= x.to /\ \A j \in x.todo : opened < j
           /\ Reading!Receipts(opened + 1, x.to) \subseteq skipped \cup accounts.receipts \cup x.todo)'
    BY <1>0, <1>1, <1>3, <1>9, <2>1 DEF HandlerFits, Reading!Receipts
  <2>3. HandlerFits(x)'
    <3>1. (/\ x.to <= x.head /\ x.head <= settled
           /\ x.at \in {"scan", "balance", "check", "compare"} => position # None
           /\ x.at \in {"locate", "balance", "check"} => ~family
           /\ x.at = "compare" \/ (x.at = "open" /\ family) => x.to = x.head
           /\ x.todo \subseteq Reading!Receipts(1, x.to)
           /\ x.at \in {"locate", "open"} => x.todo = {})'
      BY <1>0, <1>1, <1>3, <1>5 DEF HandlerFits, Reading!Receipts
    <3>2. (x.quiet => /\ opened <= x.head /\ accounts.receipts \subseteq 1 .. x.head
                      /\ transfer = "finalized" => Reading!PaidBy(x.head)
                      /\ transfer = "executing" => ~Reading!PaidBy(x.head))'
      BY <1>0, <1>1, <1>3, <1>9 DEF HandlerFits, Reading!PaidBy
    <3> QED
      BY <2>2, <3>1, <3>2 DEF HandlerFits
  <2>4. ~skewed => /\ opened <= position' /\ \A j \in skipped' : opened < j
                   /\ Reading!Receipts(opened + 1, position') \subseteq skipped' \cup accounts.receipts
    BY <1>1, <1>7, <2>1 DEF InStep
  <2> QED
    BY <1>1, <1>3, <1>5, <1>6, <1>9, <2>1, <2>3, <2>4, HandlerMoves
<1>10. CASE /\ k \notin accounts.receipts /\ accounts' = [accounts EXCEPT !.receipts = @ \cup {k}, !.cash = @ + 1]
            /\ syncs' = [r \in Worker |-> IF r = s THEN x ELSE [syncs[r] EXCEPT !.quiet = FALSE]]
            /\ skipped' = skipped
  <2>1. /\ accounts'.receipts = accounts.receipts \cup {k} /\ accounts'.cash = accounts.cash + 1
        /\ accounts'.pending = accounts.pending
        /\ accounts' \in [receipts : SUBSET Nat, cash : Int, pending : Int]
    <3>1. accounts' = [accounts EXCEPT !.receipts = accounts.receipts \cup {k}, !.cash = accounts.cash + 1]
      BY <1>10
    <3>2. accounts.receipts \cup {k} \in SUBSET Nat /\ accounts.cash + 1 \in Int
      BY <1>0, <1>2
    <3> QED
      BY <1>0, <3>1, <3>2
  <2>2. ReadingTypes'
    <3>1. syncs' \in [Worker -> Handler]
      BY <1>0, <1>3, <1>10, Disturbed
    <3> QED
      BY <1>0, <1>1, <2>1, <3>1 DEF ReadingInv, ReadingTypes
  <2>3. OnePayment'
    BY <1>1, <2>1 DEF ReadingInv, OnePayment, Reading!PaidBy
  <2>4. (accounts.receipts \subseteq Reading!Receipts(1, settled))'
    BY <1>0, <1>1, <1>4, <2>1 DEF Reading!Receipts
  <2>5. ASSUME ~skewed' PROVE InStep'
    <3>1. InStep /\ opened < k
      BY <1>1, <1>7, <2>5
    <3>2. IsFiniteSet(accounts.receipts) /\ Cardinality(accounts'.receipts) = Cardinality(accounts.receipts) + 1
          /\ Cardinality(accounts.receipts) \in Nat
      <4>1. IsFiniteSet(1 .. settled)
        BY <1>0, FS_Interval
      <4>2. accounts.receipts \subseteq 1 .. settled
        BY <1>0 DEF Reading!Receipts
      <4>3. IsFiniteSet(accounts.receipts)
        BY <4>1, <4>2, FS_Subset
      <4> QED
        BY <1>10, <2>1, <4>3, FS_AddElement, FS_CardinalityType
    <3>3. Since' = Since /\ Reading!BalanceAt(opened)' = Reading!BalanceAt(opened) /\ Since \in Int
      BY <1>1 DEF Since, Reading!PaidBy, Reading!BalanceAt, Reading!Cardinality
    <3>4. Reading!BalanceAt(opened) \in Int
      BY <1>0, ReadBalanceType
    <3>5. (accounts.cash + accounts.pending = Reading!BalanceAt(opened) + Cardinality(accounts.receipts) - Since)'
      <4>1. accounts.cash + accounts.pending = Reading!BalanceAt(opened) + Cardinality(accounts.receipts) - Since
        BY <3>1 DEF InStep
      <4> DEFINE b == Reading!BalanceAt(opened)
      <4> DEFINE c == Cardinality(accounts.receipts)
      <4> DEFINE d == Since
      <4>2. accounts.cash \in Int /\ accounts.pending \in Int /\ b \in Int /\ c \in Int /\ d \in Int
        BY <1>0, <3>2, <3>3, <3>4
      <4>3. accounts.cash + accounts.pending = b + c - d
        BY <4>1
      <4> HIDE DEF b, c, d
      <4>4. accounts.cash + 1 + accounts.pending = b + (c + 1) - d
        BY <4>2, <4>3
      <4>5. (accounts.cash + accounts.pending)' = accounts.cash + 1 + accounts.pending
        BY <2>1
      <4>6. (Reading!BalanceAt(opened) + Cardinality(accounts.receipts) - Since)' = b + (c + 1) - d
        BY <3>2, <3>3 DEF b, c, d
      <4> QED
        BY <4>4, <4>5, <4>6
    <3>6. (/\ opened <= position
           /\ \A j \in accounts.receipts \cup skipped : opened < j
           /\ Reading!Receipts(opened + 1, position) \subseteq skipped \cup accounts.receipts
           /\ transfer # "finalized" => ~Reading!PaidBy(opened))'
      BY <1>1, <1>10, <2>1, <3>1 DEF InStep, Reading!Receipts, Reading!PaidBy
    <3> QED
      BY <3>5, <3>6 DEF InStep
  <2>6. HandlerFits(x)'
    BY <1>0, <1>1, <1>3, <1>4, <1>5, <1>10, <2>1 DEF HandlerFits, Reading!Receipts, Reading!PaidBy
  <2>7. ASSUME NEW r \in Worker PROVE HandlerFits(syncs[r])'
    <3>1. CASE r = s
      BY <1>10, <2>6, <3>1 DEF HandlerFits, Reading!Receipts, Reading!PaidBy
    <3>2. CASE r # s
      <4>1. PICK y : y = [syncs[r] EXCEPT !.quiet = FALSE]
        OBVIOUS
      <4>2. syncs[r] \in Handler /\ HandlerFits(syncs[r])
        BY <1>0 DEF ReadingInv
      <4>3. y.at = syncs[r].at /\ y.to = syncs[r].to /\ y.head = syncs[r].head /\ y.todo = syncs[r].todo /\ y.quiet = FALSE
        BY <4>1, <4>2, Disturbed
      <4>4. syncs'[r] = y
        BY <1>10, <3>2, <4>1
      <4>5. HandlerFits(y)'
        BY <1>1, <1>10, <2>1, <4>2, <4>3 DEF HandlerFits, Reading!Receipts
      <4> QED
        BY <4>4, <4>5 DEF HandlerFits, Reading!Receipts, Reading!PaidBy
    <3> QED
      BY <3>1, <3>2
  <2> QED
    BY <1>1, <1>5, <2>2, <2>3, <2>4, <2>5, <2>7 DEF ReadingInv
<1> QED
  BY <1>8, <1>9, <1>10

LEMMA ReadingOpens == ASSUME ReadingInv, NEW s \in Worker, Reading!OpenCursor(s) PROVE ReadingInv'
<1>0. /\ settled \in Nat /\ opened \in 0 .. settled /\ family \in BOOLEAN /\ falseBreak = FALSE
      /\ syncs \in [Worker -> Handler] /\ syncs[s] \in Handler /\ HandlerFits(syncs[s])
      /\ syncs[s].to \in Nat /\ syncs[s].head \in Nat
      /\ accounts \in [receipts : SUBSET Nat, cash : Int, pending : Int]
  BY DEF ReadingInv, ReadingTypes, Handler
<1>a. PICK x : x = [syncs[s] EXCEPT !.at = IF family THEN "compare" ELSE "balance"]
  OBVIOUS
<1>1. /\ syncs[s].at = "open" /\ falseBreak' = FALSE
      /\ UNCHANGED <<family, history, settled, transfer, skipped>>
  BY <1>0 DEF Reading!OpenCursor, Reading!Chain
<1>2. /\ x.at = (IF family THEN "compare" ELSE "balance") /\ x.to = syncs[s].to /\ x.head = syncs[s].head
      /\ x.todo = {} /\ x.quiet = syncs[s].quiet /\ x \in Handler
  BY <1>0, <1>1, <1>a DEF Handler, HandlerAt, HandlerFits
<1>3. CASE position # None
  <2>1. syncs' = [syncs EXCEPT ![s] = x] /\ UNCHANGED <<position, accounts, opened, skewed>>
    BY <1>3, <1>a DEF Reading!OpenCursor, Reading!AfterReading, Reading!Goto
  <2>2. HandlerFits(x)
    BY <1>0, <1>1, <1>2, <1>3 DEF HandlerFits
  <2> QED
    BY <1>1, <1>2, <2>1, <2>2, HandlerGoes
<1>4. CASE position = None
  <2>1. /\ position' = syncs[s].to /\ opened' = syncs[s].head
        /\ accounts' = [accounts EXCEPT !.cash = Reading!BalanceAt(syncs[s].head) - accounts.pending]
        /\ skewed' = (syncs[s].to # syncs[s].head \/ (Reading!PaidBy(syncs[s].head) # (transfer = "finalized")))
        /\ syncs' = [r \in Worker |-> IF r = s THEN x ELSE [syncs[r] EXCEPT !.quiet = FALSE]]
    BY <1>4, <1>a DEF Reading!OpenCursor, Reading!AfterReading, Reading!Disturbing
  <2>2. accounts.receipts = {} /\ skipped = {} /\ opened = 0
    BY <1>4 DEF ReadingInv
  <2>3. Reading!BalanceAt(syncs[s].head) \in Int
    BY <1>0, ReadBalanceType
  <2>4. /\ accounts'.receipts = {} /\ accounts'.cash = Reading!BalanceAt(syncs[s].head) - accounts.pending
        /\ accounts'.pending = accounts.pending
        /\ accounts' \in [receipts : SUBSET Nat, cash : Int, pending : Int]
    <3>1. Reading!BalanceAt(syncs[s].head) - accounts.pending \in Int
      BY <1>0, <2>3
    <3> QED
      BY <1>0, <2>1, <2>2, <3>1
  <2>5. syncs[s].to <= syncs[s].head /\ syncs[s].head <= settled
    BY <1>0 DEF HandlerFits
  <2>6. position' \in 0 .. settled /\ opened' \in 0 .. settled /\ position' # None
    BY <1>0, <2>1, <2>5, TreasuryAssumption
  <2>7. ReadingTypes'
    <3>1. syncs' \in [Worker -> Handler]
      BY <1>0, <1>2, <2>1, Disturbed
    <3>2. skewed' \in BOOLEAN
      BY <2>1
    <3> QED
      BY <1>0, <1>1, <2>4, <2>6, <3>1, <3>2 DEF ReadingInv, ReadingTypes
  <2>8. OnePayment'
    BY <1>1, <2>4 DEF ReadingInv, OnePayment, Reading!PaidBy
  <2>9. ASSUME ~skewed' PROVE InStep'
    <3>1. syncs[s].to = syncs[s].head /\ (Reading!PaidBy(syncs[s].head) <=> transfer = "finalized")
      BY <2>1, <2>9 DEF Reading!PaidBy
    <3>2. Reading!PaidBy(opened)' <=> Reading!PaidBy(syncs[s].head)
      BY <1>1, <2>1 DEF Reading!PaidBy
    <3>3. Since' = 0
      BY <1>1, <3>1, <3>2 DEF Since
    <3>4. Reading!BalanceAt(opened)' = Reading!BalanceAt(syncs[s].head)
      BY <1>1, <2>1 DEF Reading!BalanceAt, Reading!Cardinality
    <3>5. Cardinality(accounts'.receipts) = 0
      BY <2>4, FS_EmptySet
    <3>6. (accounts.cash + accounts.pending = Reading!BalanceAt(opened) + Cardinality(accounts.receipts) - Since)'
      <4>1. accounts'.cash + accounts'.pending = Reading!BalanceAt(syncs[s].head)
        BY <1>0, <2>3, <2>4
      <4> QED
        BY <2>3, <3>3, <3>4, <3>5, <4>1
    <3>7. (Reading!Receipts(opened + 1, position) \subseteq skipped \cup accounts.receipts)'
      BY <1>0, <2>1, <3>1 DEF Reading!Receipts
    <3> QED
      BY <1>0, <1>1, <2>1, <2>2, <2>4, <3>1, <3>2, <3>6, <3>7 DEF InStep
  <2>10. HandlerFits(x)'
    <3>1. (x.quiet => /\ opened <= x.head /\ accounts.receipts \subseteq 1 .. x.head
                      /\ transfer = "finalized" => Reading!PaidBy(x.head)
                      /\ transfer = "executing" => ~Reading!PaidBy(x.head))'
      BY <1>0, <1>1, <1>2, <2>1, <2>4 DEF HandlerFits, Reading!PaidBy
    <3> QED
      BY <1>0, <1>1, <1>2, <2>5, <2>6, <3>1 DEF HandlerFits
  <2>11. ASSUME NEW r \in Worker PROVE HandlerFits(syncs[r])'
    <3>1. CASE r = s
      BY <2>1, <2>10, <3>1 DEF HandlerFits, Reading!Receipts, Reading!PaidBy
    <3>2. CASE r # s
      <4>1. PICK y : y = [syncs[r] EXCEPT !.quiet = FALSE]
        OBVIOUS
      <4>2. syncs[r] \in Handler /\ HandlerFits(syncs[r])
        BY <1>0 DEF ReadingInv
      <4>3. y.at = syncs[r].at /\ y.to = syncs[r].to /\ y.head = syncs[r].head /\ y.todo = syncs[r].todo /\ y.quiet = FALSE
        BY <4>1, <4>2, Disturbed
      <4>4. syncs'[r] = y
        BY <2>1, <3>2, <4>1
      <4>5. HandlerFits(y)'
        BY <1>1, <1>4, <4>2, <4>3 DEF HandlerFits, Reading!Receipts
      <4> QED
        BY <4>4, <4>5 DEF HandlerFits, Reading!Receipts, Reading!PaidBy
    <3> QED
      BY <3>1, <3>2
  <2>12. (accounts.receipts \subseteq Reading!Receipts(1, settled))'
    BY <2>4
  <2> QED
    BY <1>1, <2>6, <2>7, <2>8, <2>9, <2>11, <2>12 DEF ReadingInv
<1> QED
  BY <1>3, <1>4

\* What a quiet handler compares with right books is what they say.
LEMMA NoFalseBreak ==
  ASSUME ReadingInv, NEW s \in Worker, syncs[s].at = "compare", syncs[s].quiet, accounts.pending = 0,
         Reading!BooksAreRight(s)
  PROVE  Reading!BalanceAt(syncs[s].head) = accounts.cash
<1> DEFINE to == syncs[s].to
<1> DEFINE head == syncs[s].head
<1>0. /\ settled \in Nat /\ opened \in Nat /\ to \in Nat /\ head \in Nat /\ Len(history) \in Nat /\ settled <= Len(history)
      /\ HandlerFits(syncs[s]) /\ accounts \in [receipts : SUBSET Nat, cash : Int, pending : Int]
      /\ transfer \in {"executing", "submitted", "finalized"} /\ OnePayment /\ history \in Seq(Mover)
      /\ accounts.receipts \subseteq Reading!Receipts(1, settled)
  BY DEF ReadingInv, ReadingTypes, Handler
<1>1. /\ position # None /\ to = head /\ head <= settled /\ opened <= head
      /\ accounts.receipts \subseteq 1 .. head
      /\ transfer = "finalized" => Reading!PaidBy(head)
      /\ transfer = "executing" => ~Reading!PaidBy(head)
  BY <1>0 DEF HandlerFits
<1>2. ~skewed /\ InStep
  BY <1>1 DEF Reading!BooksAreRight, ReadingInv
<1>3. transfer \in {"executing", "finalized"}
  BY <1>0 DEF OnePayment
<1> HIDE DEF to, head
<1>4. \A k \in opened + 1 .. head : history[k] = "hidden" \/ history[k] = "in" => k \in accounts.receipts
  <2>0. to = head /\ to \in Nat /\ opened \in Nat
    BY <1>0, <1>1
  <2>1. Reading!Max({to, head}) = head
    <3>1. to \in Int /\ head \in Int
      BY <2>0
    <3>2. Reading!Max({to, head}) \in {to, head}
      BY <3>1, SmallerOf
    <3> QED
      BY <2>0, <3>2
  <2>2. \A k \in opened + 1 .. Reading!Max({to, head}) :
          history[k] = "hidden" \/ (history[k] = "in" /\ k <= to) => k \in accounts.receipts
    BY DEF Reading!BooksAreRight, to, head
  <2> QED
    BY <2>0, <2>1, <2>2
<1>5. accounts.receipts = Ins(opened + 1, head)
  <2>1. ASSUME NEW k \in accounts.receipts PROVE k \in Ins(opened + 1, head)
    BY <1>0, <1>1, <1>2 DEF InStep, Reading!Receipts, Ins
  <2>2. ASSUME NEW k \in Ins(opened + 1, head) PROVE k \in accounts.receipts
    <3>1. k \in opened + 1 .. head /\ history[k] # "out" /\ k \in 1 .. Len(history)
      BY <1>0, <1>1 DEF Ins
    <3>2. history[k] \in Mover
      BY <1>0, <3>1
    <3> QED
      BY <1>4, <3>1, <3>2 DEF Mover
  <2> QED
    BY <2>1, <2>2
<1>6. Cardinality(Ins(1, head)) = Cardinality(Ins(1, opened)) + Cardinality(Ins(opened + 1, head))
  <2>1. Ins(1, head) = Ins(1, opened) \cup Ins(opened + 1, head) /\ Ins(1, opened) \cap Ins(opened + 1, head) = {}
    BY <1>0, <1>1 DEF Ins
  <2>2. /\ IsFiniteSet(Ins(1, opened)) /\ IsFiniteSet(Ins(opened + 1, head))
        /\ Cardinality(Ins(1, opened)) \in Nat /\ Cardinality(Ins(opened + 1, head)) \in Nat
    <3>1. opened \in Int /\ opened + 1 \in Int /\ head \in Int /\ 1 \in Int
      BY <1>0
    <3>2. IsFiniteSet(Ins(1, opened)) /\ Cardinality(Ins(1, opened)) \in Nat
      BY <3>1, CountsType
    <3>3. \A a \in Int : IsFiniteSet(Ins(a, head)) /\ Cardinality(Ins(a, head)) \in Nat
      BY <3>1, CountsType
    <3> QED
      BY <3>1, <3>2, <3>3
  <2>3. Cardinality(Ins(1, opened) \cup Ins(opened + 1, head))
          = Cardinality(Ins(1, opened)) + Cardinality(Ins(opened + 1, head))
            - Cardinality(Ins(1, opened) \cap Ins(opened + 1, head))
    BY <2>2, FS_Union
  <2>4. Cardinality(Ins(1, opened) \cap Ins(opened + 1, head)) = 0
    BY <2>1, FS_EmptySet
  <2> DEFINE i == Cardinality(Ins(1, opened))
  <2> DEFINE j == Cardinality(Ins(opened + 1, head))
  <2>5. i \in Nat /\ j \in Nat /\ Cardinality(Ins(1, head)) = i + j - 0
    BY <2>1, <2>2, <2>3, <2>4
  <2> HIDE DEF i, j
  <2>6. Cardinality(Ins(1, head)) = i + j
    BY <2>5
  <2> QED
    BY <2>6 DEF i, j
<1>7. ASSUME NEW n \in Nat, n <= head
      PROVE  Cardinality(Outs(1, n)) = IF Reading!PaidBy(n) THEN 1 ELSE 0
  <2>1. CASE Reading!PaidBy(n)
    <3>1. PICK k \in 1 .. n : history[k] = "out"
      BY <2>1 DEF Reading!PaidBy
    <3>2. Outs(1, n) = {k}
      BY <1>0, <1>1, <1>7, <3>1 DEF OnePayment, Outs
    <3> QED
      BY <2>1, <3>2, FS_Singleton
  <2>2. CASE ~Reading!PaidBy(n)
    <3>1. Outs(1, n) = {}
      BY <2>2 DEF Reading!PaidBy, Outs
    <3> QED
      BY <2>2, <3>1, FS_EmptySet
  <2> QED
    BY <2>1, <2>2
<1>8. Reading!PaidBy(opened) => Reading!PaidBy(head)
  BY <1>0, <1>1 DEF Reading!PaidBy
<1> DEFINE io == Cardinality(Ins(1, opened))
<1> DEFINE ih == Cardinality(Ins(1, head))
<1> DEFINE oo == Cardinality(Outs(1, opened))
<1> DEFINE oh == Cardinality(Outs(1, head))
<1> DEFINE c == Cardinality(accounts.receipts)
<1>9. io \in Nat /\ ih \in Nat /\ oo \in Nat /\ oh \in Nat /\ c \in Nat /\ ih = io + c
  BY <1>0, <1>5, <1>6, CountsType
<1>10. Reading!BalanceAt(head) = ih - oh /\ Reading!BalanceAt(opened) = io - oo
  BY <1>0, ReadBalanceType
<1>11. accounts.cash + 0 = (io - oo) + c - Since /\ accounts.cash \in Int
  BY <1>0, <1>2, <1>10 DEF InStep
<1>12. oh = IF Reading!PaidBy(head) THEN 1 ELSE 0
  BY <1>0, <1>7
<1>13. oo = IF Reading!PaidBy(opened) THEN 1 ELSE 0
  BY <1>0, <1>1, <1>7
<1>14. oh = oo + Since /\ Since \in Int
  BY <1>1, <1>3, <1>8, <1>12, <1>13, <1>2 DEF Since, InStep
<1> HIDE DEF io, ih, oo, oh, c
<1> DEFINE d == Since
<1>15. accounts.cash = (io - oo) + c - d /\ oh = oo + d /\ d \in Int
  BY <1>9, <1>11, <1>14
<1> HIDE DEF d
<1>16. accounts.cash = ih - oh
  BY <1>9, <1>15
<1> QED
  BY <1>10, <1>16 DEF head

LEMMA ReadingCompares == ASSUME ReadingInv, NEW s \in Worker, Reading!Compare(s) PROVE ReadingInv'
<1>1. /\ UNCHANGED <<family, history, settled, accounts, transfer, opened, skewed, position, skipped>>
      /\ syncs[s].at = "compare" /\ syncs' = [syncs EXCEPT ![s] = Reading!Idle]
  BY DEF Reading!Compare, Reading!Chain, Reading!Goto
<1>2. falseBreak' = FALSE
  <2>1. falseBreak = FALSE
    BY DEF ReadingInv, ReadingTypes
  <2>2. falseBreak' = (falseBreak \/ ((Reading!BalanceAt(syncs[s].head) # accounts.cash /\ accounts.pending = 0)
                                       /\ syncs[s].quiet /\ Reading!BooksAreRight(s)))
    BY DEF Reading!Compare
  <2> QED
    BY <1>1, <2>1, <2>2, NoFalseBreak
<1>3. Reading!Idle \in Handler /\ HandlerFits(Reading!Idle)
  BY DEF Reading!Idle, Handler, HandlerAt, HandlerFits, ReadingInv, ReadingTypes
<1> QED
  BY <1>1, <1>2, <1>3, HandlerGoes

\* What the chain grows by is beyond what anyone has read.
LEMMA ReadingLands ==
  ASSUME ReadingInv, NEW kind \in {"in", "hidden", "out"}, Reading!Land(kind)
  PROVE  ReadingInv'
<1>0. /\ history \in Seq(Mover) /\ Len(history) \in Nat /\ settled \in Nat /\ settled <= Len(history)
      /\ opened \in Nat /\ opened <= settled
  BY DEF ReadingInv, ReadingTypes
<1>1. /\ history' = Append(history, kind) /\ (kind = "out" => ~Reading!PaidBy(Len(history)))
      /\ UNCHANGED <<family, settled, position, accounts, transfer, syncs, opened, skipped, skewed, falseBreak>>
  BY DEF Reading!Land, Reading!Ghosts
<1>2. /\ history' \in Seq(Mover) /\ Len(history') = Len(history) + 1
      /\ \A k \in 1 .. Len(history) : history'[k] = history[k]
      /\ history'[Len(history) + 1] = kind
  BY <1>0, <1>1 DEF Mover
<1>3. ASSUME NEW n \in 0 .. settled
      PROVE  /\ Reading!PaidBy(n)' <=> Reading!PaidBy(n)
             /\ \A a \in Nat \ {0} : Reading!Receipts(a, n)' = Reading!Receipts(a, n)
             /\ Reading!BalanceAt(n)' = Reading!BalanceAt(n)
  <2>1. \A k \in 1 .. n : history'[k] = history[k]
    BY <1>0, <1>2
  <2>2. Reading!PaidBy(n)' <=> Reading!PaidBy(n)
    BY <2>1 DEF Reading!PaidBy
  <2>3. ASSUME NEW a \in Nat \ {0} PROVE Reading!Receipts(a, n)' = Reading!Receipts(a, n)
    <3>1. \A k \in a .. n : k \in 1 .. n
      OBVIOUS
    <3> QED
      BY <2>1, <3>1 DEF Reading!Receipts
  <2>4. /\ {k \in 1 .. n : history'[k] # "out"} = {k \in 1 .. n : history[k] # "out"}
        /\ {k \in 1 .. n : history'[k] = "out"} = {k \in 1 .. n : history[k] = "out"}
    BY <2>1
  <2>5. Reading!BalanceAt(n)' = Reading!BalanceAt(n)
    BY <2>4 DEF Reading!BalanceAt, Reading!Cardinality
  <2> QED
    BY <2>2, <2>3, <2>5
<1>4. ReadingTypes'
  BY <1>0, <1>1, <1>2 DEF ReadingInv, ReadingTypes
<1>5. OnePayment'
  <2>1. ASSUME NEW j \in 1 .. Len(history'), NEW k \in 1 .. Len(history'), history'[j] = "out", history'[k] = "out"
        PROVE  j = k
    <3>1. \A i \in 1 .. Len(history') : i \in 1 .. Len(history) \/ i = Len(history) + 1
      BY <1>0, <1>2
    <3>2. CASE kind = "out"
      <4>1. \A i \in 1 .. Len(history) : history'[i] # "out"
        BY <1>1, <1>2, <3>2 DEF Reading!PaidBy
      <4> QED
        BY <2>1, <3>1, <4>1
    <3>3. CASE kind # "out"
      <4>1. j \in 1 .. Len(history) /\ k \in 1 .. Len(history)
        BY <1>2, <2>1, <3>1, <3>3
      <4> QED
        BY <1>2, <2>1, <4>1 DEF ReadingInv, OnePayment
    <3> QED
      BY <3>2, <3>3
  <2>2. settled \in 0 .. settled
    BY <1>0
  <2>3. transfer' = "finalized" => Reading!PaidBy(settled)'
    BY <1>1, <1>3, <2>2 DEF ReadingInv, OnePayment, Reading!PaidBy
  <2> QED
    BY <1>1, <2>1, <2>3 DEF ReadingInv, OnePayment
<1>6. (accounts.receipts \subseteq Reading!Receipts(1, settled))'
  <2>1. Reading!Receipts(1, settled)' = Reading!Receipts(1, settled)
    <3>1. \A k \in 1 .. settled : history'[k] = history[k]
      BY <1>0, <1>2
    <3> QED
      BY <1>1, <3>1 DEF Reading!Receipts
  <2> QED
    BY <1>1, <2>1 DEF ReadingInv
<1>7. ASSUME position # None, ~skewed PROVE InStep'
  <2>1. InStep /\ position \in 0 .. settled /\ opened \in 0 .. settled /\ opened + 1 \in Nat \ {0}
    BY <1>0, <1>7 DEF ReadingInv, ReadingTypes
  <2>2. Reading!Receipts(opened + 1, position)' = Reading!Receipts(opened + 1, position)
    <3>1. \A n \in 0 .. settled : \A a \in Nat \ {0} : {k \in a .. n : history'[k] = "in"} = {k \in a .. n : history[k] = "in"}
      BY <1>3 DEF Reading!Receipts
    <3> QED
      BY <1>1, <2>1, <3>1 DEF Reading!Receipts
  <2>3. (Reading!PaidBy(opened)' <=> Reading!PaidBy(opened))
    BY <1>1, <1>3, <2>1 DEF Reading!PaidBy
  <2>4. Reading!BalanceAt(opened)' = Reading!BalanceAt(opened)
    <3>1. \A n \in 0 .. settled : Reading!Cardinality({k \in 1 .. n : history'[k] # "out"}) - Reading!Cardinality({k \in 1 .. n : history'[k] = "out"})
                                  = Reading!BalanceAt(n)
      BY <1>3 DEF Reading!BalanceAt, Reading!Cardinality
    <3> QED
      BY <1>1, <2>1, <3>1 DEF Reading!BalanceAt, Reading!Cardinality
  <2>5. Since' = Since
    BY <1>1, <2>3 DEF Since
  <2> QED
    BY <1>1, <2>1, <2>2, <2>3, <2>4, <2>5 DEF InStep
<1>8. ASSUME NEW r \in Worker PROVE HandlerFits(syncs[r])'
  <2>1. PICK x : x = syncs[r]
    OBVIOUS
  <2>2. HandlerFits(x) /\ x.to \in 0 .. settled /\ x.head \in 0 .. settled
    BY <1>0, <2>1 DEF ReadingInv, ReadingTypes, Handler, HandlerFits
  <2>3. \A a \in Nat \ {0} : Reading!Receipts(a, x.to)' = Reading!Receipts(a, x.to)
    BY <1>3, <2>2
  <2>4. Reading!Receipts(1, x.to)' = Reading!Receipts(1, x.to)
    BY <2>3
  <2>5. Reading!Receipts(opened + 1, x.to)' = Reading!Receipts(opened + 1, x.to)
    <3>1. \A a \in Nat \ {0} : {k \in a .. x.to : history'[k] = "in"} = {k \in a .. x.to : history[k] = "in"}
      BY <2>3 DEF Reading!Receipts
    <3>2. opened + 1 \in Nat \ {0} /\ opened' = opened
      BY <1>0, <1>1
    <3> QED
      BY <3>1, <3>2 DEF Reading!Receipts
  <2>6. Reading!PaidBy(x.head)' <=> Reading!PaidBy(x.head)
    BY <1>3, <2>2
  <2>7. HandlerFits(x)'
    BY <1>1, <2>2, <2>4, <2>5, <2>6 DEF HandlerFits
  <2>8. syncs'[r] = x
    BY <1>1, <2>1
  <2> QED
    BY <2>7, <2>8 DEF HandlerFits, Reading!Receipts, Reading!PaidBy
<1> QED
  BY <1>1, <1>4, <1>5, <1>6, <1>7, <1>8 DEF ReadingInv

LEMMA ReadingFinalizes == ASSUME ReadingInv, Reading!Finalize PROVE ReadingInv'
<1>0. /\ Len(history) \in Nat /\ settled \in Nat /\ opened \in 0 .. settled
      /\ position \in (0 .. settled) \cup {None}
  BY DEF ReadingInv, ReadingTypes
<1>1. /\ settled < Len(history) /\ settled' = settled + 1
      /\ UNCHANGED <<family, history, position, accounts, transfer, syncs, opened, skipped, skewed, falseBreak>>
  BY DEF Reading!Finalize, Reading!Ghosts
<1>2. ReadingTypes'
  BY <1>0, <1>1 DEF ReadingInv, ReadingTypes
<1>3. OnePayment'
  BY <1>0, <1>1 DEF ReadingInv, OnePayment, Reading!PaidBy
<1>4. (accounts.receipts \subseteq Reading!Receipts(1, settled))'
  BY <1>0, <1>1 DEF ReadingInv, Reading!Receipts
<1>5. InStep' <=> InStep
  BY <1>1 DEF InStep, Since, Reading!Receipts, Reading!PaidBy, Reading!BalanceAt, Reading!Cardinality
<1>6. ASSUME NEW r \in Worker PROVE HandlerFits(syncs[r])'
  <2>1. HandlerFits(syncs[r]) /\ syncs[r].head \in Nat
    BY DEF ReadingInv, ReadingTypes, Handler
  <2> QED
    BY <1>0, <1>1, <2>1 DEF HandlerFits, Reading!Receipts, Reading!PaidBy
<1> QED
  BY <1>1, <1>2, <1>3, <1>4, <1>5, <1>6 DEF ReadingInv

LEMMA ReadingSubmits == ASSUME ReadingInv, Reading!MarkSubmitted PROVE ReadingInv'
<1>0. /\ accounts \in [receipts : SUBSET Nat, cash : Int, pending : Int] /\ OnePayment
      /\ opened \in Int
  BY DEF ReadingInv, ReadingTypes
<1>1. /\ transfer = "executing" /\ transfer' = "submitted"
      /\ accounts' = [accounts EXCEPT !.cash = @ - 1, !.pending = @ + 1]
      /\ UNCHANGED <<family, history, settled, position, syncs, opened, skipped, skewed, falseBreak>>
  BY DEF Reading!MarkSubmitted, Reading!Ghosts
<1>2. /\ accounts'.receipts = accounts.receipts /\ accounts'.cash = accounts.cash - 1 /\ accounts.pending = 0
      /\ accounts'.pending = 1 /\ accounts' \in [receipts : SUBSET Nat, cash : Int, pending : Int]
  <2>1. accounts.pending = 0
    BY <1>0, <1>1 DEF OnePayment
  <2>2. accounts' = [accounts EXCEPT !.cash = accounts.cash - 1, !.pending = accounts.pending + 1]
    BY <1>1
  <2>3. accounts.cash - 1 \in Int /\ accounts.pending + 1 = 1
    BY <1>0, <2>1
  <2>4. accounts' = [accounts EXCEPT !.cash = accounts.cash - 1, !.pending = 1]
    BY <2>2, <2>3
  <2>5. accounts'.receipts = accounts.receipts /\ accounts'.cash = accounts.cash - 1 /\ accounts'.pending = 1
    BY <1>0, <2>4
  <2>6. accounts' \in [receipts : SUBSET Nat, cash : Int, pending : Int]
    <3>1. PICK m \in Int : m = accounts.cash - 1
      BY <2>3
    <3>2. accounts' = [receipts |-> accounts.receipts, cash |-> m, pending |-> 1]
      BY <1>0, <2>4, <3>1
    <3>3. accounts.receipts \in SUBSET Nat
      BY <1>0
    <3> QED
      BY <3>2, <3>3
  <2> QED
    BY <2>1, <2>5, <2>6
<1>3. ReadingTypes'
  BY <1>1, <1>2 DEF ReadingInv, ReadingTypes
<1>4. OnePayment'
  BY <1>0, <1>1, <1>2 DEF OnePayment
<1>5. (accounts.receipts \subseteq Reading!Receipts(1, settled))'
  BY <1>1, <1>2 DEF ReadingInv, Reading!Receipts
<1>6. ASSUME position # None, ~skewed PROVE InStep'
  <2>1. InStep
    BY <1>6 DEF ReadingInv
  <2>2. Since' = 0 /\ Since = 0 /\ Reading!BalanceAt(opened)' = Reading!BalanceAt(opened)
    BY <1>1 DEF Since, Reading!BalanceAt, Reading!Cardinality
  <2>3. accounts'.cash + accounts'.pending = accounts.cash + accounts.pending
    BY <1>0, <1>2
  <2> QED
    BY <1>1, <1>2, <2>1, <2>2, <2>3 DEF InStep, Reading!Receipts, Reading!PaidBy
<1>7. ASSUME NEW r \in Worker PROVE HandlerFits(syncs[r])'
  <2>1. HandlerFits(syncs[r])
    BY DEF ReadingInv
  <2> QED
    BY <1>1, <1>2, <2>1 DEF HandlerFits, Reading!Receipts, Reading!PaidBy
<1> QED
  BY <1>1, <1>2, <1>3, <1>4, <1>5, <1>6, <1>7 DEF ReadingInv

LEMMA ReadingConfirms == ASSUME ReadingInv, Reading!Confirm PROVE ReadingInv'
<1>0. /\ accounts \in [receipts : SUBSET Nat, cash : Int, pending : Int] /\ OnePayment
      /\ opened \in Int /\ syncs \in [Worker -> Handler]
  BY DEF ReadingInv, ReadingTypes
<1>1. /\ transfer = "submitted" /\ transfer' = "finalized" /\ Reading!PaidBy(settled)
      /\ accounts' = [accounts EXCEPT !.pending = @ - 1]
      /\ syncs' = [s \in Worker |-> [syncs[s] EXCEPT !.quiet = FALSE]]
      /\ UNCHANGED <<family, history, settled, position, opened, skipped, skewed, falseBreak>>
  BY DEF Reading!Confirm, Reading!Ghosts
<1>2. /\ accounts'.receipts = accounts.receipts /\ accounts'.cash = accounts.cash /\ accounts.pending = 1
      /\ accounts'.pending = 0 /\ accounts' \in [receipts : SUBSET Nat, cash : Int, pending : Int]
  <2>1. accounts.pending = 1
    BY <1>0, <1>1 DEF OnePayment
  <2>2. accounts' = [accounts EXCEPT !.pending = accounts.pending - 1]
    BY <1>1
  <2>3. accounts.pending - 1 = 0
    BY <2>1
  <2> QED
    BY <1>0, <2>1, <2>2, <2>3
<1>3. ReadingTypes'
  <2>1. syncs' \in [Worker -> Handler]
    BY <1>0, <1>1, Disturbed
  <2> QED
    BY <1>1, <1>2, <2>1 DEF ReadingInv, ReadingTypes
<1>4. OnePayment'
  BY <1>0, <1>1, <1>2 DEF OnePayment, Reading!PaidBy
<1>5. (accounts.receipts \subseteq Reading!Receipts(1, settled))'
  BY <1>1, <1>2 DEF ReadingInv, Reading!Receipts
<1>6. ASSUME position # None, ~skewed PROVE InStep'
  <2>1. InStep /\ ~Reading!PaidBy(opened)
    BY <1>1, <1>6 DEF ReadingInv, InStep
  <2>2. Since' = 1 /\ Since = 0 /\ Reading!BalanceAt(opened)' = Reading!BalanceAt(opened)
    BY <1>1, <2>1 DEF Since, Reading!BalanceAt, Reading!Cardinality, Reading!PaidBy
  <2>3. Reading!BalanceAt(opened) \in Int /\ Cardinality(accounts.receipts) \in Int
    <3>1. accounts.receipts \subseteq 1 .. settled /\ settled \in Int
      BY DEF ReadingInv, ReadingTypes, Reading!Receipts
    <3>2. IsFiniteSet(1 .. settled)
      BY <3>1, FS_Interval
    <3>3. IsFiniteSet(accounts.receipts)
      BY <3>1, <3>2, FS_Subset
    <3> QED
      BY <1>0, <3>3, ReadBalanceType, FS_CardinalityType
  <2>4. (accounts.cash + accounts.pending = Reading!BalanceAt(opened) + Cardinality(accounts.receipts) - Since)'
    <3>1. accounts.cash + 1 = Reading!BalanceAt(opened) + Cardinality(accounts.receipts) - 0
      BY <1>2, <2>1, <2>2 DEF InStep
    <3> DEFINE b == Reading!BalanceAt(opened)
    <3> DEFINE c == Cardinality(accounts.receipts)
    <3> DEFINE m == accounts.cash
    <3>2. b \in Int /\ c \in Int /\ m \in Int /\ m + 1 = b + c - 0
      BY <1>0, <2>3, <3>1
    <3> HIDE DEF b, c, m
    <3>3. m + 0 = b + c - 1
      BY <3>2
    <3>4. (Reading!BalanceAt(opened) + Cardinality(accounts.receipts) - Since)' = b + c - 1
      BY <1>2, <2>2 DEF b, c
    <3> QED
      BY <1>2, <3>3, <3>4 DEF m
  <2> QED
    BY <1>1, <1>2, <2>1, <2>4 DEF InStep, Reading!Receipts, Reading!PaidBy
<1>7. ASSUME NEW r \in Worker PROVE HandlerFits(syncs[r])'
  <2>1. PICK y : y = [syncs[r] EXCEPT !.quiet = FALSE]
    OBVIOUS
  <2>2. syncs[r] \in Handler /\ HandlerFits(syncs[r])
    BY <1>0 DEF ReadingInv
  <2>3. y.at = syncs[r].at /\ y.to = syncs[r].to /\ y.head = syncs[r].head /\ y.todo = syncs[r].todo /\ y.quiet = FALSE
    BY <2>1, <2>2, Disturbed
  <2>4. syncs'[r] = y
    BY <1>1, <2>1
  <2>5. HandlerFits(y)'
    BY <1>1, <1>2, <2>2, <2>3 DEF HandlerFits, Reading!Receipts
  <2> QED
    BY <2>4, <2>5 DEF HandlerFits, Reading!Receipts, Reading!PaidBy
<1> QED
  BY <1>1, <1>2, <1>3, <1>4, <1>5, <1>6, <1>7 DEF ReadingInv

LEMMA ReadingStep == ReadingInv /\ [Reading!Next]_(Reading!vars) => ReadingInv'
<1> SUFFICES ASSUME ReadingInv, [Reading!Next]_(Reading!vars) PROVE ReadingInv'
  OBVIOUS
<1>1. CASE UNCHANGED Reading!vars
  <2>1. UNCHANGED <<family, history, settled, position, accounts, transfer, syncs, opened, skipped, skewed, falseBreak>>
    BY <1>1 DEF Reading!vars
  <2> QED
    BY <2>1 DEF ReadingInv, ReadingTypes, OnePayment, InStep, Since, HandlerFits, Reading!PaidBy, Reading!Receipts,
      Reading!BalanceAt, Reading!Cardinality
<1>2. ASSUME NEW s \in Worker,
             \/ Reading!BeginOpening(s) \/ Reading!Locate(s) \/ Reading!GetFinalizedBalance(s)
             \/ Reading!CheckNewest(s) \/ Reading!Abandon(s)
      PROVE  ReadingInv'
  BY <1>2, ReadingGoes
<1>3. ASSUME NEW s \in Worker, Reading!OpenCursor(s) PROVE ReadingInv'
  BY <1>3, ReadingOpens
<1>4. ASSUME NEW s \in Worker, Reading!BeginScan(s) PROVE ReadingInv'
  BY <1>4, ReadingScans
<1>5. ASSUME NEW s \in Worker, Reading!Record(s) PROVE ReadingInv'
  BY <1>5, ReadingRecords
<1>6. ASSUME NEW s \in Worker, Reading!AdvanceCursor(s) PROVE ReadingInv'
  BY <1>6, ReadingAdvances
<1>7. ASSUME NEW s \in Worker, Reading!Compare(s) PROVE ReadingInv'
  BY <1>7, ReadingCompares
<1>8. ASSUME NEW kind \in {"in", "hidden", "out"}, Reading!Land(kind) PROVE ReadingInv'
  BY <1>8, ReadingLands
<1> QED
  BY <1>1, <1>2, <1>3, <1>4, <1>5, <1>6, <1>7, <1>8, ReadingFinalizes, ReadingSubmits, ReadingConfirms
    DEF Reading!Next

LEMMA ReadingAccounts == ReadingInv => SyncAccounts
<1> SUFFICES ASSUME ReadingInv PROVE Reading!SyncAccounts
  BY DEF SyncAccounts
<1>1. ~falseBreak
  BY DEF ReadingInv
<1>2. ASSUME position # None, ~skewed, NEW k \in Reading!Receipts(1, position)
      PROVE  IF k \in skipped THEN k > opened ELSE (k <= opened) # (k \in accounts.receipts)
  <2>1. InStep /\ opened \in Nat /\ position \in Nat
    BY <1>2 DEF ReadingInv, ReadingTypes
  <2>2. k \in Nat /\ 1 <= k /\ k <= position /\ history[k] = "in"
    BY <1>2, <2>1 DEF Reading!Receipts
  <2>3. opened < k => k \in skipped \cup accounts.receipts
    BY <2>1, <2>2 DEF InStep, Reading!Receipts
  <2>4. k \in accounts.receipts \cup skipped => opened < k
    BY <2>1 DEF InStep
  <2> QED
    BY <2>1, <2>2, <2>3, <2>4
<1> QED
  BY <1>1, <1>2 DEF Reading!SyncAccounts

\* A receipt that the cursor has passed is in the opening balance or booked, once,
\* and a recorded break is one, for any number of handlers and whatever is read at
\* once (syncTreasury, scanInflows, recordReconciliation).
THEOREM SyncsAccount == Spec => []SyncAccounts
<1>1. Init => Reading!Init
  BY DEF Init
<1>2. [Next]_<<part, squads, theSafe, x402, books, reading, recurring, others>> => [Reading!Next]_(Reading!vars)
  BY DEF Next, reading, Reading!vars
<1> QED
  BY <1>1, <1>2, ReadingInit, ReadingStep, ReadingAccounts, PTL DEF Spec

=============================================================================
