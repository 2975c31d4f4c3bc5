\* Three checkouts of two customers, a coupon of one use, one cart edit.
SPECIFICATION FairSpec
CONSTANTS
  Request <- MCRequest
  Customer <- MCCustomer
  Sku <- MCSku
  Product <- MCProduct
  Row <- MCRow
  NoOne = NoOne
  NoRow = NoRow
  Anything = Anything
  CustomerOf <- MCCustomerOf
  WithCoupon = {"a1", "b1"}
  Prepaid = {"a1"}
  ProductOf <- MCProductOf
  StoreOf <- MCStoreOf
  RowProduct <- MCRowProduct
  Digital <- MCDigital
  Quantity <- MCQuantity
  Price <- MCPrice
  Carts <- MCCarts
  CouponStore = Anything
  UsageLimit = 1
  CustomerLimit = Anything
  MinOrder = 2
  MaxEdits = 1
INVARIANTS
  NoOversell
  StockBacksOrders
  CartOrderedOnce
  CouponWithinLimits
PROPERTIES
  ImplementsLedger
  EventuallyAnswered
