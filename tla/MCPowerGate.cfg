SPECIFICATION Spec
INVARIANTS SupplyGoodOutOfReset DoneMeansUp
PROPERTIES OrderedControls Serves
