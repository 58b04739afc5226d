SPECIFICATION SyncFairSpec
CONSTANTS
    Channels = {c1}
    Names <- MCTwoNames
    Sites <- MCSites
    Books <- MCBooks
    ModelIds <- MCModelIds
    ConfigIds <- MCConfigIds
    Background = {hourly}
    Handlers = {admin}
    Unborn = Unborn
    Gone = Gone
    None = None
    MaxEdits = 2
CONSTRAINT FewEdits
INVARIANT PricedAsListed
PROPERTIES SyncedConfigsHaveModels ListedIsConfigured
CHECK_DEADLOCK FALSE
