SPECIFICATION BrokerFairSpec
CONSTANTS
  Orders = {o1}
  Quantities = {1}
  MaxSubmits = 2
PROPERTY LimitOrdersRest
