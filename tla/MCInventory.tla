---------------------------- MODULE MCInventory ----------------------------
(***************************************************************************)
(* Instances of Inventory for TLC: two branches, each behaviour with the   *)
(* documents of one story.                                                 *)
(***************************************************************************)
EXTENDS Inventory, TLC

CONSTANTS h1, h2, c1, c2, r1, t1, a1, a2, k1, s1, s2, b1, b2, n1

MCSym == Permutations({h1, h2}) \cup Permutations({c1, c2})

MCKindOf == [d \in {r1, t1, a1, a2, k1} |->
  CASE d = r1 -> "receipt" [] d = t1 -> "transfer" [] d = k1 -> "taking"
    [] OTHER -> "adjustment"]

MCLine(id, s, q, e) ==
  [id |-> id, sku |-> s, qty |-> q, expires |-> e, actual |-> NotCounted]

Blank == [status |-> "NONE", branch |-> b1, to |-> b1, lines |-> <<>>]
Row1(status, to, lines) == [status |-> status, branch |-> b1, to |-> to, lines |-> lines]
\* Adjustments and stock takings are saved without their branch.
Row0(status, lines) == [status |-> status, branch |-> NoBranch, to |-> NoBranch, lines |-> lines]

\* A stock of s1 in b1 with a batch that keeps, an older one that expires and one
\* that is empty and has expired.
MCStock(expiry) ==
  [k \in {s1, s2} \X BranchIds |->
    IF k = <<s1, b1>>
    THEN [row |-> TRUE, batches |-> {NewBatch(1, NoDoc, 1, Never, 1),
                                     NewBatch(2, NoDoc, 1, expiry, 0),
                                     NewBatch(4, NoDoc, 0, 1, 0)}]
    ELSE NoRow]

\* One request at a time and some faults; or two requests at a time.
Story(d, rows, n) == [docs |-> d, stock |-> [k \in Stocks |-> rows[k]],
                      clients |-> {c1}, faults |-> n]
Race(d, rows) == [docs |-> d, stock |-> [k \in Stocks |-> rows[k]],
                  clients |-> {c1, c2}, faults |-> 0]
OneDoc(d, row) == [e \in {d} |-> row]

ReceiptStory ==
  Story([d \in {r1, a1} |-> IF d = r1
           THEN Row1("DRAFT", b1, <<MCLine(n1, s1, 2, 50)>>)
           ELSE Blank], MCStock(40), 1)

\* Two lines to move while an adjustment is made.
TransferStory ==
  Story([d \in {t1, a1} |-> IF d = t1
           THEN Row1("DRAFT", b2, <<MCLine(s1, s1, 1, Never), MCLine(s2, s2, 1, Never)>>)
           ELSE Blank],
        (<<s2, b1>> :> [row |-> TRUE, batches |-> {NewBatch(3, NoDoc, 1, 40, 0)}]) @@ MCStock(40), 2)

TakingStory == Story([d \in {k1, a1} |-> Blank], MCStock(2), 2)
BlankReceipt == Story(OneDoc(r1, Blank), MCStock(40), 2)
BlankTransfer == Story(OneDoc(t1, Blank), MCStock(40), 2)

MCStories ==
  {ReceiptStory, TransferStory, TakingStory, BlankReceipt, BlankTransfer}
  \cup {Race(OneDoc(p[1], p[2]), MCStock(40)) : p \in
          {<<r1, Row1("DRAFT", b1, <<MCLine(n1, s1, 2, 50)>>)>>,
           <<t1, Row1("DRAFT", b2, <<MCLine(s1, s1, 1, Never)>>)>>,
           <<a1, Row0("PENDING", <<MCLine(s1, s1, 1, Never)>>)>>,
           <<k1, Row0("STARTED", <<MCLine(s1, s1, 2, Never)>>)>>}}
MCForms == {<<MCLine(s1, s1, 1, 45)>>}
MCChanges == {<<MCLine(s1, s1, -2, Never), MCLine(s2, s2, 1, Never)>>}
=============================================================================
