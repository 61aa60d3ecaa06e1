----------------------------- MODULE MCDelivery -----------------------------
(* Delivery with the retry schedules in units of ten minutes, shortened by  *)
(* an attempt or two: the waits grow, and a slow attempt can use the budget.  *)
EXTENDS Delivery

MCInteractive == <<0>>
MCUnattended == <<1, 2>>

=============================================================================
