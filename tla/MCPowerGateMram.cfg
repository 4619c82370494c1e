SPECIFICATION MCSpec
INVARIANTS SupplyChain TrimmedBeforeUse
PROPERTIES Serves OrderlyShutdown SuppliesSettle
