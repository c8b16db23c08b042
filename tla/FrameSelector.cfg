SPECIFICATION CallsSpec
CONSTANT NoOfRows = 4
INVARIANTS ClockIsSecondChance ImprovedIsEnhanced
