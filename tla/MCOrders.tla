------------------------------ MODULE MCOrders ------------------------------
(* Small instances of Orders: request bodies that cover every branch of    *)
(* the validation, with money in int4 (-8 .. 7) so that totals wrap.       *)
EXTENDS Orders, TLC

Item(product, quantity, price) ==
    [product |-> product, quantity |-> quantity, price |-> price]

Cart(customer, lines) == [customer |-> customer, lines |-> lines]

\* A good line, a subtotal that wraps, a quantity no INTEGER column takes.
MCLines == {Item(1, 1, 2), Item(1, 3, 9), Item(1, 4, 1)}

\* One and two items, one refused customer, an empty cart, a bad second line.
MCCarts ==
    {Cart(1, <<Item(1, 1, 2)>>), Cart(1, <<Item(1, 2, 3), Item(1, 1, 2)>>),
     Cart(0, <<Item(1, 1, 2)>>), Cart(1, <<>>),
     Cart(1, <<Item(1, 1, 2), Item(1, 1, 0)>>)}

Patch(quantity, price) == [quantity |-> quantity, price |-> price]

MCPatches == {Patch(3, Nil), Patch(Nil, 5), Patch(Nil, Nil), Patch(0, Nil)}

\* The smaller bodies of the runs with two concurrent clients.
SmallLines == {Item(1, 1, 2), Item(0, 1, 2)}
SmallCarts == {Cart(1, <<Item(1, 2, 3)>>)}
SmallPatches == {Patch(3, Nil), Patch(Nil, 5)}

Symmetry == Permutations(Clients)
=============================================================================
