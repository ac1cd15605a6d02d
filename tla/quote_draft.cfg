SPECIFICATION Spec
CONSTANTS
    euSecure = euSecure
    global = global
    Bundle = {euSecure, global}
    Region = {"EU", "US"}
    UnitPrice <- Prices
    Restricted = {euSecure}
    EligibleRegions <- Regions
    Quantity = {0, 1000, 2000}
    Discount = {10000, 10004, 12000, 100010}
    Slip <- Slips
    MaxPriced = 2
    MaxDrafts = 1
INVARIANTS
    TypeOK
    DraftIsPriced
