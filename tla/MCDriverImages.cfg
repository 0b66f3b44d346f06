CONSTANTS
    Layouts <- MCLayouts
    MaxValue = 1
SPECIFICATION ImagesSpec
INVARIANTS TablesAgree UpdatesLand SharedIsLatest
