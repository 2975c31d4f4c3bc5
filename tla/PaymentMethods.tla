--------------------------- MODULE PaymentMethods ---------------------------
(***************************************************************************)
(* A user's saved payment methods and the default one (payments.services,  *)
(* SavedPaymentMethodViewSet).  The services are those of the addresses    *)
(* with one flag, and a method that is saved is never changed.             *)
(***************************************************************************)
EXTENDS Defaults

\* attach: the method that the gateway has stored for the user.
AttachPaymentMethod(c) == StartCreate(c)

SetDefault(c, i) == LoadToChoose(c, i)

Destroy(c, i) == LoadToDelete(c, i)

SavePaymentMethod(c) == CreateRow(c)

SetDefaultPaymentMethod(c) == ChooseRow(c)

DeletePaymentMethod(c) == DeleteRow(c) \/ FindReplacement(c) \/ PromoteReplacement(c)

MethodsNext == \E c \in Call :
  \/ AttachPaymentMethod(c)
  \/ \E i \in Item : SetDefault(c, i) \/ Destroy(c, i)
  \/ FindToClear(c) \/ ClearFlag(c)
  \/ SavePaymentMethod(c) \/ SetDefaultPaymentMethod(c) \/ DeletePaymentMethod(c)
  \/ RollBack(c)

MethodsSpec == Init /\ [][MethodsNext]_vars

=============================================================================
