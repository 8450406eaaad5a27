----------------------------- MODULE ProductSvc -----------------------------
(***************************************************************************)
(* product-svc: internal/handler/product.go over the ProductStore.  As in  *)
(* CustomerSvc, a request is the atomic step of its store operation, and   *)
(* replies that change nothing are no steps.                               *)
(***************************************************************************)
EXTENDS Domain, StoreOps

CONSTANTS
  ProductBodies,    \* the JSON bodies of POST /products
  ProductUpdates    \* the JSON bodies of PUT /products/{id}

VARIABLES
  products,         \* ProductStore.products
  productsIssued,   \* every id generateID has returned, in any process so far
  productsUp        \* the process is running and answers requests

productVars == <<products, productsIssued, productsUp>>

ASSUME ProductBodiesAssumption ==
  /\ ProductBodies \subseteq Product
  /\ ProductUpdates \subseteq Product

ProductsInit ==
  /\ products = EmptyStore
  /\ productsIssued = {}
  /\ productsUp = TRUE

\* p.Name = strings.TrimSpace(p.Name)
TrimProduct(p) == [p EXCEPT !.name = TrimSpace[@]]

\* What POST requires; PUT requires the name only.
ProductNamed(p) == p.name # Empty
ProductComplete(p) == ProductNamed(p) /\ p.price >= 0 /\ p.stock >= 0

\* POST /products
CreateProduct ==
  \E body \in ProductBodies, id \in ProductIds \ productsIssued :
    /\ productsUp
    /\ ProductComplete(TrimProduct(body))
    /\ products' = Put(products, id, TrimProduct(body))
    /\ productsIssued' = productsIssued \cup {id}
    /\ UNCHANGED productsUp

\* Faulty variant of UpdateProduct: an upsert.
UpsertProduct ==
  \E body \in ProductUpdates, id \in productsIssued :
    /\ productsUp
    /\ ProductNamed(TrimProduct(body))
    /\ products' = Put(products, id, TrimProduct(body))
    /\ UNCHANGED <<productsIssued, productsUp>>

\* PUT /products/{id}: price and stock are stored as they come, of either sign.
UpdateProduct ==
  \E body \in ProductUpdates, id \in DOMAIN products :
    /\ productsUp
    /\ ProductNamed(TrimProduct(body))
    /\ products' = Put(products, id, TrimProduct(body))
    /\ UNCHANGED <<productsIssued, productsUp>>

\* DELETE /products/{id}
DeleteProduct ==
  \E id \in DOMAIN products :
    /\ productsUp
    /\ products' = Remove(products, id)
    /\ UNCHANGED <<productsIssued, productsUp>>

\* The process ends: its store was only in memory.
ProductSvcStops ==
  /\ productsUp
  /\ productsUp' = FALSE
  /\ products' = EmptyStore
  /\ UNCHANGED productsIssued

\* main() again, with NewProductStore().
ProductSvcStarts ==
  /\ ~productsUp
  /\ productsUp' = TRUE
  /\ UNCHANGED <<products, productsIssued>>

ProductsNext ==
  \/ CreateProduct
  \/ UpdateProduct
  \/ DeleteProduct
  \/ ProductSvcStops
  \/ ProductSvcStarts

ProductsTypeOK ==
  /\ IsStore(products, ProductIds, Product)
  /\ productsIssued \subseteq ProductIds
  /\ productsUp \in BOOLEAN
  /\ DOMAIN products \subseteq productsIssued
=============================================================================
