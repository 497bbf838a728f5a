SPECIFICATION FairSpec
CONSTANTS
 main=main b1=b1 x=x y=y z=z
 Main=main Bolts={b1} Items={x,y}
 LineOf <- MCLineOf
 Order <- MCOrder
 Clash <- MCClash
 Drops = {b1,x}
 MaxOwn=1 MaxElsewhere=1 MaxLost=1 LateUnits=FALSE
INVARIANTS MergedIsKept ContainsIsTrue DrawnOnce
PROPERTIES ClosedBoltLands
CHECK_DEADLOCK FALSE
