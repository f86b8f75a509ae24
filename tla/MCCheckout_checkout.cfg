SPECIFICATION CheckoutSpec
CONSTANTS
  c1 = c1
  o1 = o1
  p1 = p1
  p2 = p2
  i1 = i1
  h1 = h1
  NoOrder = NoOrder
  NoPayment = NoPayment
  Categories <- OneCategory
  Items <- TwoItems
  CategoryOf <- AllFood
  Modifiers <- OneModifier
  ItemOf <- OfSoup
  Prices <- TwoPrices
  MaxEdits = 2
  Customers <- OneCustomer
  Carts <- OneCart
  Orders <- OneOrder
  Payments <- TwoPayments
  Intents <- OneIntent
  Amounts <- SomeAmounts
  Hooks <- OneHook
  FaultPoints <- AllFaults
  MaxFaults = 1
SYMMETRY Symmetry
CHECK_DEADLOCK FALSE
ACTION_CONSTRAINT MenuMatters
VIEW WhatMatters
INVARIANT PaymentsMatchOrder
INVARIANT SecondRequestsExplained
INVARIANT KitchenKnows
INVARIANT RevenueExplained
PROPERTY PricedWithinRequest
