------------------------------- MODULE CatalogEdit -------------------------------
(***************************************************************************)
(* CatalogService.updateProduct next to the transactions of Checkout.  The *)
(* product is read without a lock and written back by Repository.save,     *)
(* which compares the entity with the row as it is then and updates every  *)
(* column that differs, the version column included: save itself never     *)
(* compares versions.  Only stock_count matters here; name, price and the  *)
(* other columns of the edit are left out.                                 *)
(***************************************************************************)
EXTENDS Checkout

CONSTANTS
  Editors,      \* PATCH requests in progress
  NoEdit

VARIABLE edit   \* [Editors -> what the request knows]

editVars == <<vars, edit>>

EditInit == Init /\ edit = [e \in Editors |-> NoEdit]

\* findOne and the assignments of the dto's fields.  A vendor may not set
\* stockCount, so the entity keeps the stock that was read.
ReadProduct(e, p) ==
  /\ edit[e] = NoEdit
  /\ edit' = [edit EXCEPT ![e] = [at |-> "save", product |-> p, stock |-> stock[p]]]
  /\ UNCHANGED vars

\* save() loads the row: the stock is part of the update if it has changed.
CompareWithRow(e) ==
  /\ edit[e] # NoEdit
  /\ edit[e].at = "save"
  /\ edit' = [edit EXCEPT ![e] =
                IF edit[e].stock = stock[edit[e].product] THEN NoEdit
                ELSE [edit[e] EXCEPT !.at = "update"]]
  /\ UNCHANGED vars

\* UPDATE waits for the row and writes the stock of the first read.
UpdateRow(e) ==
  /\ edit[e] # NoEdit
  /\ edit[e].at = "update"
  /\ RowFree(edit[e].product)
  /\ stock' = [stock EXCEPT ![edit[e].product] = edit[e].stock]
  /\ edit' = [edit EXCEPT ![e] = NoEdit]
  /\ UNCHANGED <<orders, txn, ledger>>

EditNext ==
  \/ Next /\ UNCHANGED edit
  \/ \E e \in Editors : \/ \E p \in Products : ReadProduct(e, p)
                        \/ CompareWithRow(e)
                        \/ UpdateRow(e)

EditSpec == EditInit /\ [][EditNext]_editVars

\* An edit of a product's name or price never writes its stock: units sold (or
\* booked in) while the request ran stay sold.
StockSurvivesEdits == StockConserved
================================================================================
