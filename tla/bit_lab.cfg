SPECIFICATION LabSpec
CONSTANTS
    W = 8
    Sampled <- Samples
    None = None
    test_set <- Three
    rating <- Ratings
    TEST_RANGE = 1
    global_rating = 0
    timeout_limit = 1
INVARIANTS SolutionsAgree BoundsTested PointsForRight
PROPERTY BTestEnds
CHECK_DEADLOCK FALSE
