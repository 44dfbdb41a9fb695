---------------------------- MODULE CategoryTree ----------------------------
(***************************************************************************)
(* The category tree the administration keeps: POST /api/admin/categories, *)
(* PATCH and DELETE /api/admin/categories/[id].  A move checks that the    *)
(* new parent is neither the category itself nor a child of it and that    *)
(* the category has no children, and then updates the row; a deletion      *)
(* counts children and products first.  Both read before they write.  The  *)
(* breadcrumb and the feed walk from a category up to its root.            *)
(***************************************************************************)
EXTENDS Naturals, FiniteSets

CONSTANTS
  Categories,
  Root,        \* parentId null
  NoCategory,  \* no such row
  Editors,     \* administrators' requests under way at once
  Products

VARIABLES
  parent,      \* by category: NoCategory, Root, its parent, or Deleted
  shelf,       \* by product: its category
  editing,     \* by request: what it is about to write
  crossed      \* history: a category moved while another move was under way

treeVars == <<parent, shelf, editing, crossed>>

(* An id is given out once.                                                *)
Deleted == [row |-> "deleted"]

(* The sentinels are no categories and differ from each other.             *)
ASSUME TreeAssumption ==
  /\ IsFiniteSet(Categories)
  /\ Root # NoCategory
  /\ {Root, NoCategory, Deleted} \cap Categories = {}
  /\ Deleted \notin {Root, NoCategory}

Rows == {c \in Categories : parent[c] \notin {NoCategory, Deleted}}

NotEditing == [do |-> "none"]

TreeTypeOK ==
  /\ parent \in [Categories -> Categories \cup {Root, NoCategory, Deleted}]
  /\ shelf \in [Products -> Categories \cup {NoCategory}]
  /\ \A e \in Editors : editing[e] = NotEditing \/
       editing[e] \in [do : {"move", "delete"}, id : Categories, to : Categories \cup {Root}]
  /\ \A p \in Products : shelf[p] # NoCategory => shelf[p] \in Rows
  /\ crossed \in BOOLEAN

TreeInit ==
  /\ parent = [c \in Categories |-> NoCategory]
  /\ shelf = [p \in Products |-> NoCategory]
  /\ editing = [e \in Editors |-> NotEditing]
  /\ crossed = FALSE

Children(c) == {d \in Rows : parent[d] = c}

-----------------------------------------------------------------------------
(* The row's foreign key wants the parent there.                           *)
CreateCategory(c, up) ==
  /\ parent[c] = NoCategory
  /\ up \in Rows \cup {Root}
  /\ parent' = [parent EXCEPT ![c] = up]
  /\ UNCHANGED <<shelf, editing, crossed>>

Movable_WithChildren(c, up) ==
  up # Root => /\ up # c
               /\ up \in Rows
               /\ parent[up] # c

Movable(c, up) ==
  up # Root => /\ up # c
               /\ up \in Rows
               /\ parent[up] # c
               /\ Children(c) = {}

CheckMove(e, c, up) ==
  /\ editing[e] = NotEditing
  /\ c \in Rows
  /\ Movable(c, up)
  /\ editing' = [editing EXCEPT ![e] = [do |-> "move", id |-> c, to |-> up]]
  /\ UNCHANGED <<parent, shelf, crossed>>

EndEdit(e) == editing' = [editing EXCEPT ![e] = NotEditing]

Move(e) ==
  /\ editing[e] # NotEditing /\ editing[e].do = "move"
  /\ parent' = IF editing[e].id \in Rows /\ editing[e].to \in Rows \cup {Root}
               THEN [parent EXCEPT ![editing[e].id] = editing[e].to] ELSE parent
  /\ crossed' = (crossed \/ \E f \in Editors \ {e} : editing[f].do = "move")
  /\ EndEdit(e)
  /\ UNCHANGED shelf

CheckDelete(e, c) ==
  /\ editing[e] = NotEditing
  /\ c \in Rows
  /\ Children(c) = {}
  /\ \A p \in Products : shelf[p] # c
  /\ editing' = [editing EXCEPT ![e] = [do |-> "delete", id |-> c, to |-> Root]]
  /\ UNCHANGED <<parent, shelf, crossed>>

(* Products restrict the deletion; children made meanwhile become roots    *)
(* (onDelete of the optional parent is SetNull).                           *)
Delete(e) ==
  /\ editing[e] # NotEditing /\ editing[e].do = "delete"
  /\ LET c == editing[e].id
     IN  parent' = IF c \notin Rows \/ \E p \in Products : shelf[p] = c THEN parent
                   ELSE [d \in Categories |-> IF d = c THEN Deleted
                                              ELSE IF parent[d] = c THEN Root ELSE parent[d]]
  /\ EndEdit(e)
  /\ UNCHANGED <<shelf, crossed>>

PutProduct(p, c) ==
  /\ c \in Rows
  /\ shelf' = [shelf EXCEPT ![p] = c]
  /\ UNCHANGED <<parent, editing, crossed>>

TreeNext ==
  \/ \E c \in Categories, up \in Categories \cup {Root} : CreateCategory(c, up)
  \/ \E e \in Editors :
       \/ \E c \in Categories, up \in Categories \cup {Root} : CheckMove(e, c, up)
       \/ Move(e)
       \/ \E c \in Categories : CheckDelete(e, c)
       \/ Delete(e)
  \/ \E p \in Products, c \in Categories : PutProduct(p, c)

TreeSpec == TreeInit /\ [][TreeNext]_treeVars

-----------------------------------------------------------------------------
(* The ancestors of c found in n steps up.                                 *)
Above(c, n) ==
  LET up[k \in 0..n] == IF k = 0 THEN c
                        ELSE IF up[k - 1] \in Categories THEN parent[up[k - 1]] ELSE up[k - 1]
  IN  up[n]

(* Every category reaches the root: pages that walk up the tree end.  It   *)
(* holds because only a category without children moves, so the new parent *)
(* is never below it (the handler compares no more than the parent's       *)
(* parent), and whatever is created, deleted or put on sale between the    *)
(* check and the update.  Two moves that overlap can pass each other's     *)
(* checks and make a cycle, so they are excluded.                          *)
RootReached ==
  ~crossed => \A c \in Rows : Above(c, Cardinality(Categories)) = Root
=============================================================================
