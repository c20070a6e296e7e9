CONSTANTS
    n1 = n1  n2 = n2  small = small   priced = priced  unpriced = unpriced
    Instances <- MCInstances
    Offers <- MCOffers
    Charged <- MCOffers
    Prices = {1, 2}
    PricedLabels <- MCPricedLabels
    DefaultLabels = unpriced
    DefaultPrice = 3
    MaxChanges = 1
SPECIFICATION FairSpec
INVARIANTS IInv MirrorAtRest TotalHasParts NeverStale PricedByItsOffer
PROPERTIES NoFlicker GaugesConverge 
