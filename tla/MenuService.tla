---------------------------- MODULE MenuService -----------------------------
(***************************************************************************)
(* The menu (MenuService): categories and items are only marked as deleted, *)
(* modifiers are really deleted.  Each operation finds its row, or the one  *)
(* it hangs on, and then writes; categories and items never go away and the *)
(* write names the fields it changes, so what was found does not matter and *)
(* the operation is one step.                                               *)
(***************************************************************************)
EXTENDS Naturals

CONSTANTS
  Categories, Items, Modifiers,
  CategoryOf,   \* the category of each item
  ItemOf,       \* the item of each modifier
  Prices,
  MaxEdits      \* bound: how often the menu is changed

ASSUME MenuAssumption ==
  /\ CategoryOf \in [Items -> Categories] /\ ItemOf \in [Modifiers -> Items]
  /\ Prices \subseteq Nat /\ Prices # {} /\ MaxEdits \in Nat

VARIABLES
  category,     \* menu_categories
  item,         \* menu_items
  modifier,     \* menu_modifiers
  edits

menuVars == <<category, item, modifier, edits>>

RowStates    == {"unused", "present", "deleted"}
ItemRows     == [state : RowStates, price : Prices, isActive : BOOLEAN]
ModifierRows == [state : RowStates, price : Prices]

MenuTypeOK ==
  /\ category \in [Categories -> RowStates]
  /\ item \in [Items -> ItemRows]
  /\ modifier \in [Modifiers -> ModifierRows]
  /\ edits \in 0 .. MaxEdits

Edit == edits < MaxEdits /\ edits' = edits + 1

\* There is a row, marked as deleted or not.
CategoryFound(k) == category[k] # "unused"
ItemFound(i)     == item[i].state # "unused"

-----------------------------------------------------------------------------
(* Administration *)

CreateCategory(k) ==
  /\ Edit
  /\ ~ CategoryFound(k)
  /\ category' = [category EXCEPT ![k] = "present"]
  /\ UNCHANGED <<item, modifier>>

\* Soft delete: the items of the category stay as they are.
DeleteCategory(k) ==
  /\ Edit
  /\ CategoryFound(k)
  /\ category' = [category EXCEPT ![k] = "deleted"]
  /\ UNCHANGED <<item, modifier>>

CreateItem(i, p, active) ==
  /\ Edit
  /\ CategoryFound(CategoryOf[i]) /\ ~ ItemFound(i)
  /\ item' = [item EXCEPT ![i] = [state |-> "present", price |-> p, isActive |-> active]]
  /\ UNCHANGED <<category, modifier>>

\* Fields that are not in the request body keep their value.
UpdateItem(i, p, active) ==
  /\ Edit
  /\ ItemFound(i)
  /\ item' = [item EXCEPT ![i] = [state |-> item[i].state, price |-> p, isActive |-> active]]
  /\ UNCHANGED <<category, modifier>>

\* Soft delete: isActive is left as it was.
DeleteItem(i) ==
  /\ Edit
  /\ ItemFound(i)
  /\ item' = [item EXCEPT ![i].state = "deleted"]
  /\ UNCHANGED <<category, modifier>>

CreateModifier(m, p) ==
  /\ Edit
  /\ ItemFound(ItemOf[m]) /\ modifier[m].state = "unused"
  /\ modifier' = [modifier EXCEPT ![m] = [state |-> "present", price |-> p]]
  /\ UNCHANGED <<category, item>>

UpdateModifier(m, p) ==
  /\ Edit
  /\ modifier[m].state = "present"
  /\ modifier' = [modifier EXCEPT ![m].price = p]
  /\ UNCHANGED <<category, item>>

\* The database refuses to delete a modifier that is part of an order.
DeleteModifier(m, ordered) ==
  /\ Edit
  /\ modifier[m].state = "present" /\ m \notin ordered
  /\ modifier' = [modifier EXCEPT ![m].state = "deleted"]
  /\ UNCHANGED <<category, item>>

Administer(ordered) ==
  \/ \E k \in Categories : CreateCategory(k) \/ DeleteCategory(k)
  \/ \E i \in Items : DeleteItem(i)
  \/ \E i \in Items, p \in Prices, active \in BOOLEAN : CreateItem(i, p, active) \/ UpdateItem(i, p, active)
  \/ \E m \in Modifiers : DeleteModifier(m, ordered)
  \/ \E m \in Modifiers, p \in Prices : CreateModifier(m, p) \/ UpdateModifier(m, p)

-----------------------------------------------------------------------------
(* What customers see *)

\* getItems.
Listed == {i \in Items : item[i].state = "present" /\ item[i].isActive}

\* getCategories leaves out the items of deleted categories; getItems does not.
ListedByCategory == {i \in Listed : category[CategoryOf[i]] = "present"}

\* A page with the items of S, and the prices it shows.
Page(S) == [items     |-> [i \in S |-> item[i].price],
            modifiers |-> [m \in {n \in Modifiers : ItemOf[n] \in S /\ modifier[n].state = "present"}
                             |-> modifier[m].price]]
=============================================================================
