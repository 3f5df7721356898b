CONSTANTS Menus <- MCMenus  Chunks = 2  MaxFaults = 1
SPECIFICATION Spec
INVARIANTS TypeOK AuthIsOwn IrreversibleAsChecked BootRoRestored SettingsAsReported DumpIsOwn SessionsClosed MeasuresOwnSetup FreeCounter
PROPERTIES CommandEnds
